---------------------------- MODULE FeatureProofs ----------------------------
(***************************************************************************)
(* What the features that share nothing promise, proved for every size of  *)
(* guild and every number of tasks.  Each section is about the behaviours  *)
(* whose focus is one feature: its shape, what holds in between, one lemma *)
(* for each kind of step, and the theorem.                                 *)
(***************************************************************************)
EXTENDS MCFeatures, PremiumProofs, Sequences, FiniteSetTheorems, WellFoundedInduction, TLAPS

(***************************************************************************)
(* Levels.                                                                 *)
(***************************************************************************)
LevelsShape ==
    /\ xp \in [Members -> Nat \cup {None}] /\ rewards \in [RewardLevels -> LevelRoles \cup {None}]
    /\ known \subseteq RewardLevels \X LevelRoles /\ steady \subseteq known
    /\ granted \in [Members -> SUBSET LevelRoles] /\ pristine \subseteq Members
    /\ step \in [Tasks -> {"idle", "write", "announced", "grant", "insert", "refresh", "replace", "push"}]
    /\ local \in [Tasks -> [member : Members \cup {None}, old : Nat, new : Nat,
                            pairs : SUBSET (RewardLevels \X LevelRoles)]]

\* What a task at step p with locals j grants to u, whatever becomes of others.
ToGrant(p, j, u) ==
    IF j.member # u THEN {}
    ELSE IF p = "announced"
    THEN {q \in steady : q[1] > Lv!LevelFromXp(j.old) /\ q[1] <= Lv!LevelFromXp(j.new)}
    ELSE IF p = "grant" THEN j.pairs ELSE {}

\* u has, or is about to get, what was always configured up to the level of an amount.
Earned(u, amount) ==
    \A q \in steady : q[1] <= Lv!LevelFromXp(amount) =>
        q[2] \in granted[u] \/ \E t \in Tasks : q \in ToGrant(step[t], local[t], u)

\* So it is for the amount in the row, and for those that tasks about to write have read.
AllEarned ==
    \A u \in pristine :
        /\ Earned(u, Lv!Points(u))
        /\ \A t \in Tasks : step[t] = "write" /\ local[t].member = u => Earned(u, local[t].old)

\* Who writes or grants has a member.
WritersFit == \A t \in Tasks : step[t] \in {"write", "announced", "grant"} => local[t].member \in Members

LevelsInv == LevelsShape /\ WritersFit /\ AllEarned

LEMMA LvCardinality == \A S : Lv!Cardinality(S) = Cardinality(S)
  BY DEF Lv!Cardinality, Cardinality, Lv!IsFiniteSet, IsFiniteSet

\* A level is a number.
LEMMA LevelNat == ASSUME NEW x \in Nat PROVE Lv!LevelFromXp(x) \in Nat
<1>1. Lv!XpForLevel(0) = 100
  BY DEF Lv!XpForLevel
<1>2. PICK last \in Nat : last = x \div Lv!XpForLevel(0)
  BY <1>1
<1>3. IsFiniteSet(1 .. last)
  <2>1. last \in Int /\ 1 \in Int
    BY <1>2
  <2> QED
    BY <2>1, FS_Interval
<1>4. PICK paid : paid = {l \in 1 .. last : Lv!Total[l] <= x}
  OBVIOUS
<1>5. IsFiniteSet(paid)
  <2>1. paid \in SUBSET (1 .. last)
    BY <1>4
  <2> QED
    BY <1>3, <2>1, FS_Subset
<1> QED
  BY <1>2, <1>4, <1>5, FS_CardinalityType, LvCardinality DEF Lv!LevelFromXp

LEMMA LvMoves ==
    ASSUME LevelsShape, NEW t \in Tasks, NEW p, NEW j, Lv!Goto(t, p, j)
    PROVE  /\ step'[t] = p /\ local'[t] = j
           /\ \A s \in Tasks \ {t} : step'[s] = step[s] /\ local'[s] = local[s]
  BY DEF LevelsShape, Lv!Goto

\* What was earned stays so if nothing granted is taken and nobody forgets what to grant.
LEMMA EarnedKept ==
    ASSUME NEW u, NEW a, Earned(u, a), steady' \subseteq steady, granted[u] \subseteq granted'[u],
           \A t \in Tasks : \A q \in ToGrant(step[t], local[t], u) :
              q \in steady' => q[2] \in granted'[u] \/ q \in ToGrant(step[t], local[t], u)'
    PROVE  Earned(u, a)'
  BY Zenon DEF Earned

\* A step of one task that grants and forgets nothing.
LEMMA LevelsKept ==
    ASSUME LevelsShape, LevelsShape', WritersFit, AllEarned,
           steady' \subseteq steady, pristine' \subseteq pristine,
           \A u \in pristine' : Lv!Points(u)' = Lv!Points(u) /\ granted[u] \subseteq granted'[u],
           NEW t \in Tasks, NEW p, NEW j, Lv!Goto(t, p, j),
           p \in {"announced", "grant"} => j.member \in Members,
           p = "write" => j.member \in Members /\ j.old = Lv!Points(j.member),
           \A u \in pristine' : \A q \in ToGrant(step[t], local[t], u) :
              q \in steady' => q[2] \in granted'[u] \/ q \in ToGrant(p, j, u)'
    PROVE  WritersFit' /\ AllEarned'
<1>1. /\ step'[t] = p /\ local'[t] = j
      /\ \A s \in Tasks \ {t} : step'[s] = step[s] /\ local'[s] = local[s]
  BY LvMoves
<1>2. WritersFit'
  BY <1>1 DEF WritersFit
<1>3. ASSUME NEW u \in pristine', NEW s \in Tasks, NEW q \in ToGrant(step[s], local[s], u), q \in steady'
      PROVE  q[2] \in granted'[u] \/ q \in ToGrant(step[s], local[s], u)'
  <2>1. CASE s = t
    BY <1>1, <1>3, <2>1 DEF ToGrant
  <2>2. CASE s # t
    <3>1. step'[s] = step[s] /\ local'[s] = local[s]
      BY <1>1, <2>2
    <3> QED
      BY <3>1, <1>3 DEF ToGrant
  <2> QED
    BY <2>1, <2>2
<1>4. ASSUME NEW u \in pristine', NEW a, Earned(u, a) PROVE Earned(u, a)'
  BY <1>3, <1>4, EarnedKept
<1>5. ASSUME NEW u \in pristine'
      PROVE  /\ Earned(u, Lv!Points(u))'
             /\ \A s \in Tasks : step'[s] = "write" /\ local'[s].member = u => Earned(u, local[s].old)'
  <2>1. PICK a : a = Lv!Points(u)
    OBVIOUS
  <2>2. Earned(u, a)
    BY <2>1 DEF AllEarned
  <2>3. Earned(u, a)'
    BY <1>4, <2>2
  <2>4. Lv!Points(u)' = a
    BY <2>1
  <2>5. ASSUME NEW s \in Tasks, step'[s] = "write", local'[s].member = u
        PROVE  Earned(u, local[s].old)'
    <3>1. CASE s = t
      <4>1. local'[s].old = a
        BY <1>1, <2>1, <2>5, <3>1
      <4> QED
        BY <2>3, <4>1 DEF Earned
    <3>2. CASE s # t
      <4>1. PICK b : b = local[s].old
        OBVIOUS
      <4>2. Earned(u, b)
        BY <1>1, <2>5, <3>2, <4>1 DEF AllEarned
      <4>3. Earned(u, b)' /\ local'[s].old = b
        BY <1>1, <1>4, <3>2, <4>1, <4>2
      <4> QED
        BY <4>3 DEF Earned
    <3> QED
      BY <3>1, <3>2
  <2> QED
    BY <2>3, <2>4, <2>5 DEF Earned
<1> QED
  BY <1>2, <1>5, Zenon DEF AllEarned

LEMMA LevelsShapeStep == ASSUME LevelsShape, WritersFit, Lv!Next PROVE LevelsShape'
<1> USE LevelConstants DEF LevelsShape, Lv!Goto, Lv!Finish, Lv!NoJob
<1>1. ASSUME NEW t \in Tasks, Lv!ReadXp(t) PROVE LevelsShape'
  <2>1. PICK u \in Members, award \in Awards :
          Lv!Goto(t, "write", Lv!Message(u, Lv!Points(u), Lv!Points(u) + award, {}))
    BY <1>1 DEF Lv!ReadXp
  <2>2. Lv!Points(u) \in Nat
    BY DEF Lv!Points
  <2> QED
    BY <1>1, <2>1, <2>2 DEF Lv!ReadXp, Lv!Message, Lv!data
<1>2. ASSUME NEW t \in Tasks, Lv!WriteXp(t) PROVE LevelsShape'
  <2>1. xp' \in [Members -> Nat \cup {None}]
    BY <1>2 DEF Lv!WriteXp, WritersFit
  <2>2. Lv!Goto(t, "announced", local[t]) \/ Lv!Goto(t, "idle", Lv!NoJob)
    BY <1>2, Zenon DEF Lv!WriteXp, Lv!Finish
  <2> QED
    BY <1>2, <2>1, <2>2 DEF Lv!WriteXp
<1>3. ASSUME NEW t \in Tasks, Lv!WriteXpFails(t) PROVE LevelsShape'
  BY <1>3 DEF Lv!WriteXpFails, Lv!data
<1>4. ASSUME NEW t \in Tasks, Lv!LookUpRewards(t) PROVE LevelsShape'
  <2>1. Lv!Due(local[t].old, local[t].new, known) \subseteq RewardLevels \X LevelRoles
    BY DEF Lv!Due
  <2> QED
    BY <1>4, <2>1 DEF Lv!LookUpRewards, Lv!data, Lv!Message
<1>5. ASSUME NEW t \in Tasks, Lv!Grant(t) PROVE LevelsShape'
  <2>1. granted' \in [Members -> SUBSET LevelRoles] /\ pristine' \subseteq Members
    <3>1. local[t].member \in Members
      BY <1>5 DEF Lv!Grant, WritersFit
    <3>2. \/ UNCHANGED granted
          \/ \E p \in local[t].pairs : granted' = [granted EXCEPT ![local[t].member] = @ \cup {p[2]}]
      BY <1>5 DEF Lv!Grant
    <3>3. pristine' \subseteq pristine
      BY <1>5 DEF Lv!Grant
    <3>4. \A p \in local[t].pairs : p[2] \in LevelRoles
      OBVIOUS
    <3> QED
      BY <3>1, <3>2, <3>3, <3>4
  <2>2. \/ Lv!Goto(t, "idle", Lv!NoJob)
        \/ \E p \in local[t].pairs :
              Lv!Goto(t, "grant", [member |-> local[t].member, old |-> local[t].old,
                                   new |-> local[t].new, pairs |-> local[t].pairs \ {p}])
    BY <1>5 DEF Lv!Grant, Lv!Message
  <2>3. UNCHANGED <<xp, rewards, known, steady>>
    BY <1>5 DEF Lv!Grant
  <2>4. CASE Lv!Goto(t, "idle", Lv!NoJob)
    BY <2>1, <2>3, <2>4
  <2>5. ASSUME NEW p \in local[t].pairs,
               Lv!Goto(t, "grant", [member |-> local[t].member, old |-> local[t].old,
                                    new |-> local[t].new, pairs |-> local[t].pairs \ {p}])
        PROVE  LevelsShape'
    BY <2>1, <2>3, <2>5
  <2> QED
    BY <2>2, <2>4, <2>5
<1>6. ASSUME NEW t \in Tasks, Lv!LvReward(t) \/ Lv!LvUnreward(t) PROVE LevelsShape'
  <2>1. CASE Lv!LvReward(t)
    BY <2>1 DEF Lv!LvReward, Lv!SetRewards
  <2>2. CASE Lv!LvUnreward(t)
    BY <2>2 DEF Lv!LvUnreward, Lv!SetRewards
  <2> QED
    BY <1>6, <2>1, <2>2
<1>7. ASSUME NEW t \in Tasks, Lv!PutRewards(t) PROVE LevelsShape'
  <2>1. PICK table : Lv!Goto(t, "insert", Lv!Edit(Lv!Pairs(table)))
    BY <1>7 DEF Lv!PutRewards
  <2>2. Lv!Edit(Lv!Pairs(table)) \in [member : Members \cup {None}, old : Nat, new : Nat,
                                      pairs : SUBSET (RewardLevels \X LevelRoles)]
    BY DEF Lv!Edit, Lv!Pairs
  <2> QED
    BY <1>7, <2>1, <2>2 DEF Lv!PutRewards, Lv!SetRewards
<1>8. ASSUME NEW t \in Tasks, Lv!InsertReward(t) PROVE LevelsShape'
  BY <1>8 DEF Lv!InsertReward, Lv!SetRewards, Lv!Edit, Lv!data
<1>9. ASSUME NEW t \in Tasks, Lv!RefreshRead(t) \/ Lv!ReadyRead(t) PROVE LevelsShape'
  <2>1. PICK none : none = Lv!Edit({})
    OBVIOUS
  <2>2. PICK all : all = Lv!Edit(Lv!Pairs(rewards))
    OBVIOUS
  <2>3. none \in [member : Members \cup {None}, old : Nat, new : Nat,
                  pairs : SUBSET (RewardLevels \X LevelRoles)]
    BY <2>1 DEF Lv!Edit
  <2>4. all \in [member : Members \cup {None}, old : Nat, new : Nat,
                 pairs : SUBSET (RewardLevels \X LevelRoles)]
    BY <2>2 DEF Lv!Edit, Lv!Pairs
  <2>5. PICK p \in {"replace", "push"}, j \in {none, all} : Lv!Goto(t, p, j)
    <3>1. CASE Lv!RefreshRead(t)
      BY <2>1, <2>2, <3>1, Zenon DEF Lv!RefreshRead
    <3>2. CASE Lv!ReadyRead(t)
      BY <2>1, <2>2, <3>2, Zenon DEF Lv!ReadyRead
    <3> QED
      BY <1>9, <3>1, <3>2
  <2>6. UNCHANGED <<xp, rewards, known, granted, steady, pristine>>
    BY <1>9, Zenon DEF Lv!RefreshRead, Lv!ReadyRead, Lv!data
  <2> QED
    BY <2>3, <2>4, <2>5, <2>6
<1>10. ASSUME NEW t \in Tasks, Lv!Replace(t) \/ Lv!ReadyPush(t) PROVE LevelsShape'
  <2>1. CASE Lv!Replace(t)
    BY <2>1 DEF Lv!Replace
  <2>2. CASE Lv!ReadyPush(t)
    BY <2>2 DEF Lv!ReadyPush
  <2> QED
    BY <1>10, <2>1, <2>2
<1>11. ASSUME NEW u \in Members, Lv!PutMemberXp(u) \/ Lv!ResetMemberXp(u) PROVE LevelsShape'
  BY <1>11 DEF Lv!PutMemberXp, Lv!ResetMemberXp
<1>12. CASE Lv!ResetAllXp
  BY <1>12 DEF Lv!ResetAllXp
<1> QED
  BY <1>1, <1>2, <1>3, <1>4, <1>5, <1>6, <1>7, <1>8, <1>9, <1>10, <1>11, <1>12
     DEF Lv!Next, Lv!MessageStep, Lv!EditStep

\* Messages: what their XP earns is granted, or left to grant, however they overwrite
\* each other's XP.
LEMMA MessagesKeepEarned ==
    ASSUME LevelsInv, LevelsShape', NEW t \in Tasks, Lv!MessageStep(t)
    PROVE  WritersFit' /\ AllEarned'
<1> USE LevelConstants DEF LevelsInv
<1>1. CASE Lv!ReadXp(t)
  <2>1. PICK u \in Members, award \in Awards :
          Lv!Goto(t, "write", Lv!Message(u, Lv!Points(u), Lv!Points(u) + award, {}))
    BY <1>1 DEF Lv!ReadXp
  <2>2. UNCHANGED <<xp, granted, steady, pristine>> /\ step[t] = "idle"
    BY <1>1 DEF Lv!ReadXp, Lv!data
  <2>3. \A v : ToGrant(step[t], local[t], v) = {}
    BY <2>2 DEF ToGrant
  <2>4. \A v : Lv!Points(v)' = Lv!Points(v)
    BY <2>2 DEF Lv!Points
  <2>5. PICK j : j = Lv!Message(u, Lv!Points(u), Lv!Points(u) + award, {})
    OBVIOUS
  <2>6. j.member \in Members /\ j.old = Lv!Points(j.member)
    BY <2>5 DEF Lv!Message
  <2> QED
    BY <2>1, <2>2, <2>3, <2>4, <2>5, <2>6, LevelsKept
<1>2. CASE Lv!WriteXp(t)
  <2> DEFINE j == local[t]
  <2>1. /\ step[t] = "write" /\ xp' = [xp EXCEPT ![j.member] = j.new] /\ UNCHANGED <<granted, steady, pristine>>
        /\ IF Lv!LevelFromXp(j.new) > Lv!LevelFromXp(j.old)
           THEN Lv!Goto(t, "announced", j) ELSE Lv!Goto(t, "idle", Lv!NoJob)
    BY <1>2, Zenon DEF Lv!WriteXp, Lv!Finish
  <2>2. j.member \in Members /\ j.old \in Nat /\ j.new \in Nat
    BY <2>1 DEF WritersFit, LevelsShape
  <2>3. PICK p, k : Lv!Goto(t, p, k) /\ IF Lv!LevelFromXp(j.new) > Lv!LevelFromXp(j.old)
                                        THEN p = "announced" /\ k = j ELSE p = "idle" /\ k = Lv!NoJob
    BY <2>1
  <2>4. /\ step'[t] = p /\ local'[t] = k
        /\ \A s \in Tasks \ {t} : step'[s] = step[s] /\ local'[s] = local[s]
    BY <2>3, LvMoves
  <2>5. WritersFit'
    BY <2>2, <2>3, <2>4 DEF WritersFit
  <2>6. ASSUME NEW u \in pristine', NEW a, Earned(u, a) PROVE Earned(u, a)'
    <3>1. ASSUME NEW s \in Tasks PROVE ToGrant(step[s], local[s], u) \subseteq ToGrant(step[s], local[s], u)'
      BY <2>1, <2>4 DEF ToGrant
    <3> QED
      BY <2>1, <2>6, <3>1, EarnedKept
  <2>7. ASSUME NEW u \in pristine' PROVE Earned(u, Lv!Points(u))'
    <3>1. CASE u = j.member
      <4>1. Lv!Points(u)' = j.new
        BY <2>1, <2>2, <3>1 DEF Lv!Points, LevelsShape
      <4>2. PICK n, o : n = j.new /\ o = j.old
        OBVIOUS
      <4>3. Earned(u, o)'
        BY <2>1, <2>6, <2>7, <3>1, <4>2 DEF AllEarned
      <4>4. PICK top, low : top = Lv!LevelFromXp(n) /\ low = Lv!LevelFromXp(o)
        OBVIOUS
      <4>5. top \in Nat /\ low \in Nat
        BY <2>2, <4>2, <4>4, LevelNat
      <4>6. Earned(u, n)'
        <5> SUFFICES ASSUME NEW q \in steady', q[1] <= top
                     PROVE  q[2] \in granted'[u] \/ \E s \in Tasks : q \in ToGrant(step[s], local[s], u)'
          BY <4>4 DEF Earned
        <5>1. q[1] \in Nat
          <6>1. steady' \subseteq RewardLevels \X LevelRoles
            BY DEF LevelsShape
          <6>2. q \in RewardLevels \X LevelRoles
            BY <6>1
          <6>3. q[1] \in RewardLevels
            BY <6>2
          <6> QED
            BY <6>3
        <5>2. CASE q[1] <= low
          BY <4>3, <4>4, <5>2 DEF Earned
        <5>3. CASE low < q[1]
          <6>1. p = "announced" /\ k = j
            BY <2>3, <4>2, <4>4, <4>5, <5>1, <5>3
          <6>2. q \in ToGrant(step[t], local[t], u)'
            BY <2>4, <3>1, <4>2, <4>4, <5>3, <6>1 DEF ToGrant
          <6> QED
            BY <6>2
        <5> QED
          BY <4>5, <5>1, <5>2, <5>3
      <4> QED
        BY <4>1, <4>2, <4>6 DEF Earned
    <3>2. CASE u # j.member
      <4>1. PICK a : a = Lv!Points(u)
        OBVIOUS
      <4>2. Lv!Points(u)' = a
        BY <2>1, <2>7, <3>2, <4>1 DEF Lv!Points, LevelsShape
      <4>3. Earned(u, a)'
        BY <2>1, <2>6, <2>7, <4>1 DEF AllEarned
      <4> QED
        BY <4>2, <4>3 DEF Earned
    <3> QED
      BY <3>1, <3>2
  <2>8. ASSUME NEW u \in pristine', NEW s \in Tasks, step'[s] = "write", local'[s].member = u
        PROVE  Earned(u, local[s].old)'
    <3>1. s # t
      BY <2>3, <2>4, <2>8
    <3>2. PICK a : a = local[s].old
      OBVIOUS
    <3>3. Earned(u, a)'
      BY <2>1, <2>4, <2>6, <2>8, <3>1, <3>2 DEF AllEarned
    <3> QED
      BY <2>4, <3>1, <3>2, <3>3 DEF Earned
  <2> QED
    BY <2>5, <2>7, <2>8, Zenon DEF AllEarned
<1>3. CASE Lv!WriteXpFails(t)
  <2>1. Lv!Goto(t, "idle", Lv!NoJob) /\ UNCHANGED <<xp, granted, steady, pristine>> /\ step[t] = "write"
    BY <1>3 DEF Lv!WriteXpFails, Lv!Finish, Lv!data
  <2>2. \A v : Lv!Points(v)' = Lv!Points(v) /\ ToGrant(step[t], local[t], v) = {}
    BY <2>1 DEF Lv!Points, ToGrant
  <2> QED
    BY <2>1, <2>2, LevelsKept
<1>4. CASE Lv!LookUpRewards(t)
  <2> DEFINE j == local[t]
  <2>0. PICK k : k = Lv!Message(j.member, j.old, j.new, Lv!Due(j.old, j.new, known))
    OBVIOUS
  <2>1. Lv!Goto(t, "grant", k) /\ UNCHANGED <<xp, granted, steady, pristine>> /\ step[t] = "announced"
    BY <1>4, <2>0 DEF Lv!LookUpRewards, Lv!data
  <2>2. \A v : Lv!Points(v)' = Lv!Points(v)
    BY <2>1 DEF Lv!Points
  <2>3. k.member \in Members
    BY <2>0, <2>1 DEF WritersFit, Lv!Message
  <2>4. ASSUME NEW u, NEW q \in ToGrant(step[t], local[t], u) PROVE q \in ToGrant("grant", k, u)'
    <3>1. k.member = j.member /\ k.pairs = Lv!Due(j.old, j.new, known)
      BY <2>0 DEF Lv!Message
    <3>2. j.member = u /\ q \in k.pairs
      BY <2>1, <2>4, <3>1 DEF ToGrant, Lv!Due, LevelsShape
    <3> QED
      BY <3>1, <3>2 DEF ToGrant
  <2> QED
    BY <2>1, <2>2, <2>3, <2>4, LevelsKept
<1>5. CASE Lv!Grant(t)
  <2> DEFINE j == local[t]
  <2>1. UNCHANGED <<xp, steady>> /\ step[t] = "grant" /\ j.member \in Members /\ pristine' \subseteq pristine
    BY <1>5 DEF Lv!Grant, WritersFit
  <2>2. \A v : Lv!Points(v)' = Lv!Points(v)
    BY <2>1 DEF Lv!Points
  <2>3. CASE j.pairs = {} /\ Lv!Goto(t, "idle", Lv!NoJob) /\ UNCHANGED granted
    <3>1. \A v : ToGrant(step[t], local[t], v) = {}
      BY <2>1, <2>3 DEF ToGrant
    <3> QED
      BY <2>1, <2>2, <2>3, <3>1, LevelsKept
  <2>4. ASSUME NEW p \in j.pairs, Lv!Goto(t, "grant", Lv!Message(j.member, j.old, j.new, j.pairs \ {p})),
               \/ granted' = [granted EXCEPT ![j.member] = @ \cup {p[2]}]
               \/ pristine' = pristine \ {j.member} /\ UNCHANGED granted
        PROVE  WritersFit' /\ AllEarned'
    <3>0. PICK k : k = Lv!Message(j.member, j.old, j.new, j.pairs \ {p})
      OBVIOUS
    <3>1. k.member = j.member /\ k.pairs = j.pairs \ {p}
      BY <3>0 DEF Lv!Message
    <3>2. \A u \in pristine' : granted[u] \subseteq granted'[u]
      BY <2>1, <2>4 DEF LevelsShape
    <3>3. ASSUME NEW u \in pristine', NEW q \in ToGrant(step[t], local[t], u)
          PROVE  q[2] \in granted'[u] \/ q \in ToGrant("grant", k, u)'
      <4>1. u = j.member /\ q \in j.pairs
        BY <2>1, <3>3 DEF ToGrant
      <4>2. granted' = [granted EXCEPT ![j.member] = @ \cup {p[2]}]
        BY <2>4, <3>3, <4>1
      <4>3. CASE q = p
        BY <2>1, <4>1, <4>2, <4>3 DEF LevelsShape
      <4>4. CASE q # p
        BY <2>1, <3>1, <4>1, <4>4 DEF ToGrant
      <4> QED
        BY <4>3, <4>4
    <3> QED
      BY <2>1, <2>2, <2>4, <3>0, <3>1, <3>2, <3>3, LevelsKept
  <2> QED
    BY <1>5, <2>3, <2>4, Zenon DEF Lv!Grant, Lv!Finish
<1> QED
  BY <1>1, <1>2, <1>3, <1>4, <1>5 DEF Lv!MessageStep

\* Edits and ready events only change what is still to be earned.
LEMMA EditsKeepEarned ==
    ASSUME LevelsInv, LevelsShape', NEW t \in Tasks, Lv!EditStep(t) \/ Lv!ReadyRead(t) \/ Lv!ReadyPush(t)
    PROVE  WritersFit' /\ AllEarned'
<1>1. /\ step[t] \in {"idle", "insert", "refresh", "replace", "push"}
      /\ UNCHANGED <<xp, granted, pristine>> /\ steady' \subseteq steady
  BY DEF Lv!EditStep, Lv!LvReward, Lv!LvUnreward, Lv!PutRewards, Lv!InsertReward, Lv!RefreshRead,
         Lv!Replace, Lv!ReadyRead, Lv!ReadyPush, Lv!SetRewards, Lv!data
<1>2. PICK p, j : Lv!Goto(t, p, j) /\ p \in {"idle", "insert", "refresh", "replace", "push"}
  BY DEF Lv!EditStep, Lv!LvReward, Lv!LvUnreward, Lv!PutRewards, Lv!InsertReward, Lv!RefreshRead,
         Lv!Replace, Lv!ReadyRead, Lv!ReadyPush, Lv!Finish
<1>3. \A v : Lv!Points(v)' = Lv!Points(v) /\ ToGrant(step[t], local[t], v) = {}
  BY <1>1 DEF Lv!Points, ToGrant
<1> QED
  BY <1>1, <1>2, <1>3, LevelsKept DEF LevelsInv

\* What staff do to the XP of members concerns no other.
LEMMA StaffKeepEarned ==
    ASSUME LevelsInv, UNCHANGED <<steady, granted, step, local>>, pristine' \subseteq pristine,
           \A u \in pristine' : xp'[u] = xp[u]
    PROVE  WritersFit' /\ AllEarned'
<1>1. WritersFit'
  BY DEF LevelsInv, WritersFit
<1>2. \A u, a : Earned(u, a) => Earned(u, a)'
  BY DEF Earned, ToGrant
<1>3. ASSUME NEW u \in pristine'
      PROVE  /\ Earned(u, Lv!Points(u))'
             /\ \A s \in Tasks : step'[s] = "write" /\ local'[s].member = u => Earned(u, local[s].old)'
  <2>1. PICK a : a = Lv!Points(u)
    OBVIOUS
  <2>2. Lv!Points(u)' = a /\ Earned(u, a)
    BY <2>1 DEF Lv!Points, LevelsInv, AllEarned
  <2>3. ASSUME NEW s \in Tasks, step'[s] = "write", local'[s].member = u PROVE Earned(u, local[s].old)'
    <3>1. PICK b : b = local[s].old
      OBVIOUS
    <3>2. Earned(u, b)
      BY <2>3, <3>1 DEF LevelsInv, AllEarned
    <3> QED
      BY <1>2, <3>1, <3>2 DEF Earned
  <2> QED
    BY <1>2, <2>2, <2>3 DEF Earned
<1> QED
  BY <1>1, <1>3, Zenon DEF AllEarned

LEMMA LevelsStep == LevelsInv /\ [Lv!Next]_Lv!vars => LevelsInv'
<1> SUFFICES ASSUME LevelsInv, [Lv!Next]_Lv!vars PROVE LevelsInv'
  OBVIOUS
<1>1. CASE UNCHANGED Lv!vars
  BY <1>1, StaffKeepEarned DEF LevelsInv, LevelsShape, Lv!vars
<1>2. CASE Lv!Next
  <2>1. LevelsShape'
    BY <1>2, LevelsShapeStep DEF LevelsInv
  <2>2. ASSUME NEW u \in Members, Lv!PutMemberXp(u) \/ Lv!ResetMemberXp(u) PROVE LevelsInv'
    BY <2>1, <2>2, StaffKeepEarned DEF Lv!PutMemberXp, Lv!ResetMemberXp, LevelsInv, LevelsShape
  <2>3. CASE Lv!ResetAllXp
    BY <2>1, <2>3, StaffKeepEarned DEF Lv!ResetAllXp, LevelsInv
  <2> QED
    BY <1>2, <2>1, <2>2, <2>3, MessagesKeepEarned, EditsKeepEarned DEF Lv!Next, LevelsInv
<1> QED
  BY <1>1, <1>2

LEMMA LevelsInit == Lv!DataInit /\ Lv!TaskInit => LevelsInv
<1> SUFFICES ASSUME Lv!DataInit, Lv!TaskInit PROVE LevelsInv
  OBVIOUS
<1> USE LevelConstants
<1>1. LevelsShape
  BY DEF Lv!DataInit, Lv!TaskInit, Lv!NoJob, Lv!Pairs, LevelsShape
<1>2. WritersFit
  BY DEF Lv!TaskInit, WritersFit
<1>3. ASSUME NEW u \in pristine PROVE Earned(u, Lv!Points(u))
  <2>1. Lv!Points(u) = 0
    BY <1>3 DEF Lv!Points, Lv!DataInit
  <2>2. Lv!LevelFromXp(0) = 0
    <3>1. 0 \div Lv!XpForLevel(0) = 0
      BY DEF Lv!XpForLevel
    <3>2. {l \in 1 .. 0 : Lv!Total[l] <= 0} = {}
      OBVIOUS
    <3> QED
      BY <3>1, <3>2, FS_EmptySet, LvCardinality DEF Lv!LevelFromXp
  <2> QED
    <3>1. ASSUME NEW q \in steady PROVE ~(q[1] <= Lv!LevelFromXp(Lv!Points(u)))
      <4>1. q[1] \in RewardLevels
        BY <1>1 DEF LevelsShape
      <4>2. q[1] \in Nat /\ q[1] # 0
        BY <4>1
      <4> QED
        BY <4>2, <2>1, <2>2
    <3> QED
      BY <3>1 DEF Earned
<1> QED
  BY <1>1, <1>2, <1>3 DEF LevelsInv, AllEarned, Lv!TaskInit

\* No reward is lost, however a member's messages and the refreshes of the list overlap
\* (on_message, refresh_rewards_cache).
THEOREM NoRewardLost == MCSpec => []RewardsArrive
<1> DEFINE Inv == focus = "levels" => LevelsInv
<1>1. MCInit => Inv
  BY LevelsInit DEF MCInit
<1>2. Inv /\ [MCNext]_<<focus, State, step, local, budget>> => Inv'
  BY LevelsStep DEF MCNext, State, levelsVars, Lv!vars
<1>3. Inv => RewardsArrive
  <2> SUFFICES ASSUME LevelsInv, NEW u \in pristine, \A t \in Tasks : local[t].member # u,
                      NEW p \in steady, p[1] <= Lv!LevelFromXp(Lv!Points(u))
               PROVE  p[2] \in granted[u]
    BY DEF RewardsArrive, Lv!RewardsArrive
  <2> QED
    BY DEF LevelsInv, AllEarned, Earned, ToGrant
<1> QED
  BY <1>1, <1>2, <1>3, PTL DEF MCSpec

(***************************************************************************)
(* Roles given on joining.                                                 *)
(***************************************************************************)
JoinSteps == {"autoroles", "assign", "switch", "saved", "restore"}

\* The roles u still gets from a task at step p with locals j.
ToGet(p, j, u) ==
    IF p = "autoroles" THEN always \cup Jn!Restored(u)
    ELSE IF p = "assign" THEN j.set \cup Jn!Restored(u)
    ELSE IF p \in {"switch", "saved"} THEN Jn!Restored(u)
    ELSE j.set

\* What was promised to u is there or to come, from the only task at work for them.
Promised(u) ==
    owed[u] # {} =>
        /\ u \in present
        /\ \A s, t \in Tasks : local[s].member = u /\ local[t].member = u => s = t
        /\ \A t \in Tasks : local[t].member = u =>
              /\ step[t] \in JoinSteps
              /\ owed[u] \subseteq roles[u] \cup ToGet(step[t], local[t], u)
        /\ ~Jn!Busy(u) => owed[u] \subseteq roles[u]

\* Who handles a coming or going has a member.
JoinersFit == \A t \in Tasks : step[t] \in JoinSteps \cup {"leaving", "save"} => local[t].member \in Joiners

JoinInv == Jn!TypeOK /\ JoinersFit /\ (stuck => sticky) /\ \A u \in Joiners : Promised(u)

JoinLocals == [member : Joiners \cup {Nobody}, set : SUBSET JoinRoleSet]

LEMMA JoinTypes ==
    Jn!TypeOK <=>
        /\ autoroles \subseteq JoinRoleSet /\ always \subseteq autoroles /\ sticky \in BOOLEAN /\ stuck \in BOOLEAN
        /\ saved \in [Joiners -> SUBSET JoinRoleSet] /\ roles \in [Joiners -> SUBSET JoinRoleSet]
        /\ owed \in [Joiners -> SUBSET JoinRoleSet] /\ present \subseteq Joiners
        /\ step \in [Tasks -> Jn!Steps] /\ local \in [Tasks -> JoinLocals]
  BY DEF Jn!TypeOK, JoinLocals

LEMMA JnMoves ==
    ASSUME Jn!TypeOK, NEW t \in Tasks, NEW p, NEW j, Jn!Goto(t, p, j)
    PROVE  /\ step'[t] = p /\ local'[t] = j
           /\ \A s \in Tasks \ {t} : step'[s] = step[s] /\ local'[s] = local[s]
  BY DEF Jn!TypeOK, Jn!Goto

\* A task goes on with roles as before and locals of the right kind.
LEMMA JoinTypesKept ==
    ASSUME Jn!TypeOK, JoinersFit, NEW t \in Tasks, NEW p, NEW j, Jn!Goto(t, p, j),
           p \in Jn!Steps, j \in JoinLocals, p \in JoinSteps \cup {"leaving", "save"} => j.member \in Joiners
    PROVE  /\ step' \in [Tasks -> Jn!Steps] /\ local' \in [Tasks -> JoinLocals] /\ JoinersFit'
<1>1. /\ step'[t] = p /\ local'[t] = j
      /\ \A s \in Tasks \ {t} : step'[s] = step[s] /\ local'[s] = local[s]
  BY JnMoves
<1>2. step' \in [Tasks -> Jn!Steps] /\ local' \in [Tasks -> JoinLocals]
  BY JoinTypes DEF Jn!Goto
<1> QED
  BY <1>1, <1>2 DEF JoinersFit

LEMMA PromiseKept ==
    ASSUME NEW u, Promised(u), owed'[u] \subseteq owed[u] \ (always \ always'),
           owed'[u] # {} =>
              /\ u \in present' /\ roles[u] \subseteq roles'[u] /\ Jn!Restored(u)' = Jn!Restored(u)
              /\ \A s \in Tasks : local'[s].member = u =>
                    /\ local[s].member = u
                    /\ \/ step'[s] = step[s] /\ local'[s] = local[s]
                       \/ step'[s] \in JoinSteps /\ owed'[u] \subseteq roles'[u] \cup ToGet(step[s], local[s], u)'
              /\ \A s \in Tasks :
                    local[s].member = u /\ local'[s].member # u => owed'[u] \subseteq roles'[u]
    PROVE  Promised(u)'
<1> SUFFICES ASSUME owed'[u] # {} PROVE Promised(u)'
  BY DEF Promised
<1>1. /\ owed[u] # {}
      /\ \A s, t \in Tasks : local[s].member = u /\ local[t].member = u => s = t
      /\ \A t \in Tasks : local[t].member = u =>
            step[t] \in JoinSteps /\ owed[u] \subseteq roles[u] \cup ToGet(step[t], local[t], u)
      /\ ~Jn!Busy(u) => owed[u] \subseteq roles[u]
  BY DEF Promised
<1>2. ASSUME NEW t \in Tasks, local'[t].member = u
      PROVE  step'[t] \in JoinSteps /\ owed'[u] \subseteq roles'[u] \cup ToGet(step[t], local[t], u)'
  <2>1. CASE step'[t] = step[t] /\ local'[t] = local[t]
    BY <1>1, <1>2, <2>1 DEF ToGet
  <2> QED
    BY <1>2, <2>1
<1>3. ~Jn!Busy(u)' => owed'[u] \subseteq roles'[u]
  BY <1>1 DEF Jn!Busy
<1> QED
  BY <1>1, <1>2, <1>3 DEF Promised

JoinTyped == Jn!TypeOK /\ JoinersFit /\ (stuck => sticky)

LEMMA JoinTypedStep == ASSUME JoinTyped, Jn!Next PROVE JoinTyped'
<1> USE JoinConstants
<1>0. /\ Jn!TypeOK /\ JoinersFit /\ (stuck => sticky)
      /\ autoroles \subseteq JoinRoleSet /\ always \subseteq autoroles /\ sticky \in BOOLEAN /\ stuck \in BOOLEAN
      /\ saved \in [Joiners -> SUBSET JoinRoleSet] /\ roles \in [Joiners -> SUBSET JoinRoleSet]
      /\ owed \in [Joiners -> SUBSET JoinRoleSet] /\ present \subseteq Joiners
      /\ step \in [Tasks -> Jn!Steps] /\ local \in [Tasks -> JoinLocals]
  BY JoinTypes DEF JoinTyped
<1>1. ASSUME /\ autoroles' \subseteq JoinRoleSet /\ always' \subseteq autoroles'
             /\ sticky' \in BOOLEAN /\ stuck' \in BOOLEAN /\ (stuck' => sticky')
             /\ saved' \in [Joiners -> SUBSET JoinRoleSet] /\ roles' \in [Joiners -> SUBSET JoinRoleSet]
             /\ owed' \in [Joiners -> SUBSET JoinRoleSet] /\ present' \subseteq Joiners,
             \/ UNCHANGED <<step, local>>
             \/ \E t \in Tasks : \E p \in Jn!Steps, j \in JoinLocals :
                  /\ Jn!Goto(t, p, j)
                  /\ p \in JoinSteps \cup {"leaving", "save"} => j.member \in Joiners
      PROVE  JoinTyped'
  <2>1. step' \in [Tasks -> Jn!Steps] /\ local' \in [Tasks -> JoinLocals] /\ JoinersFit'
    <3>1. CASE UNCHANGED <<step, local>>
      BY <1>0, <3>1 DEF JoinersFit
    <3>2. ASSUME NEW t \in Tasks, NEW p \in Jn!Steps, NEW j \in JoinLocals, Jn!Goto(t, p, j),
                 p \in JoinSteps \cup {"leaving", "save"} => j.member \in Joiners
          PROVE  step' \in [Tasks -> Jn!Steps] /\ local' \in [Tasks -> JoinLocals] /\ JoinersFit'
      BY <1>0, <3>2, JoinTypesKept
    <3> QED
      BY <1>1, <3>1, <3>2
  <2>2. Jn!TypeOK'
    BY <1>1, <2>1 DEF Jn!TypeOK, JoinLocals
  <2> QED
    BY <1>1, <2>1, <2>2, Zenon DEF JoinTyped
<1>2. ASSUME NEW u \in Joiners PROVE Jn!Release(u) => owed' \in [Joiners -> SUBSET JoinRoleSet]
  BY <1>0 DEF Jn!Release
<1>3. \A t \in Tasks : local[t] \in JoinLocals /\ local[t].set \subseteq JoinRoleSet
  BY <1>0 DEF JoinLocals
<1>4. \A m \in Joiners \cup {Nobody}, set \in SUBSET JoinRoleSet :
        /\ Jn!Job(m, set) \in JoinLocals /\ Jn!Job(m, set).member = m /\ Jn!Job(m, set).set = set
        /\ Jn!NoJob \in JoinLocals
  BY DEF Jn!Job, Jn!NoJob, JoinLocals
<1>5. {"idle", "autoroles", "assign", "switch", "saved", "restore", "leaving", "save",
          "insert", "insertOn", "insertOff"} \subseteq Jn!Steps
  BY DEF Jn!Steps
<1>6. ASSUME NEW t \in Tasks, NEW u \in Joiners, Jn!Join(t, u) PROVE JoinTyped'
  <2>1. Jn!Restored(u) \subseteq JoinRoleSet
    BY <1>0 DEF Jn!Restored
  <2>2. owed' \in [Joiners -> SUBSET JoinRoleSet]
    BY <1>0, <1>6, <2>1 DEF Jn!Join
  <2>3. PICK j : j = Jn!Job(u, {})
    OBVIOUS
  <2>4. /\ Jn!Goto(t, "autoroles", j) /\ present' = present \cup {u}
        /\ UNCHANGED <<autoroles, sticky, saved, roles, always, stuck>>
    BY <1>6, <2>3 DEF Jn!Join
  <2>5. j \in JoinLocals /\ j.member \in Joiners /\ "autoroles" \in Jn!Steps
    BY <1>4, <1>5, <2>3
  <2> QED
    BY <1>0, <1>1, <2>2, <2>4, <2>5
<1>7. ASSUME NEW t \in Tasks, Jn!ReadAutoroles(t) PROVE JoinTyped'
  <2>1. local[t].member \in Joiners
    BY <1>0, <1>7 DEF Jn!ReadAutoroles, JoinersFit, JoinSteps
  <2>2. PICK set \in {autoroles, {}} : Jn!Goto(t, "assign", Jn!Job(local[t].member, set))
    BY <1>7 DEF Jn!ReadAutoroles
  <2>3. PICK j : j = Jn!Job(local[t].member, set)
    OBVIOUS
  <2>4. owed' \in [Joiners -> SUBSET JoinRoleSet]
    BY <1>0, <1>2, <1>7, <2>1 DEF Jn!ReadAutoroles
  <2>5. j \in JoinLocals /\ j.member \in Joiners /\ "assign" \in Jn!Steps
    BY <1>0, <1>4, <1>5, <2>1, <2>3
  <2>6. Jn!Goto(t, "assign", j)
    BY <2>2, <2>3
  <2> QED
    BY <1>0, <1>1, <1>7, <2>4, <2>5, <2>6 DEF Jn!ReadAutoroles
<1>8. ASSUME NEW t \in Tasks, NEW next \in {"assign", "restore"}, step[t] = next, Jn!AddRole(t, next)
      PROVE  /\ roles' \in [Joiners -> SUBSET JoinRoleSet] /\ owed' \in [Joiners -> SUBSET JoinRoleSet]
             /\ \E p \in Jn!Steps, j \in JoinLocals : Jn!Goto(t, p, j) /\ j.member \in Joiners
  <2>1. local[t].member \in Joiners
    BY <1>0, <1>8 DEF JoinersFit, JoinSteps
  <2>2. PICK r \in local[t].set :
          /\ Jn!Goto(t, next, Jn!Job(local[t].member, local[t].set \ {r}))
          /\ \/ roles' = [roles EXCEPT ![local[t].member] = @ \cup {r}] /\ UNCHANGED owed
             \/ UNCHANGED <<roles, owed>>
             \/ Jn!Release(local[t].member) /\ UNCHANGED roles
    BY <1>8 DEF Jn!AddRole
  <2>3. PICK j : j = Jn!Job(local[t].member, local[t].set \ {r})
    OBVIOUS
  <2>4. j \in JoinLocals /\ j.member \in Joiners /\ next \in Jn!Steps
    BY <1>3, <1>4, <1>5, <2>1, <2>3
  <2>5. roles' \in [Joiners -> SUBSET JoinRoleSet] /\ owed' \in [Joiners -> SUBSET JoinRoleSet]
    BY <1>0, <1>2, <1>3, <2>1, <2>2
  <2> QED
    BY <2>2, <2>3, <2>4, <2>5
<1>9. ASSUME NEW t \in Tasks, Jn!Assign(t) PROVE JoinTyped'
  <2>1. step[t] = "assign" /\ UNCHANGED <<autoroles, sticky, saved, present, always, stuck>>
    BY <1>9 DEF Jn!Assign
  <2>2. CASE Jn!AddRole(t, "assign")
    BY <1>0, <1>1, <1>8, <2>1, <2>2
  <2>3. CASE Jn!Goto(t, "switch", local[t]) /\ UNCHANGED <<roles, owed>>
    <3>1. local[t] \in JoinLocals /\ local[t].member \in Joiners /\ "switch" \in Jn!Steps
      BY <1>0, <1>3, <1>5, <2>1 DEF JoinersFit, JoinSteps
    <3> QED
      BY <1>0, <1>1, <2>1, <2>3, <3>1
  <2> QED
    BY <1>9, <2>2, <2>3 DEF Jn!Assign
<1>10. ASSUME NEW t \in Tasks, Jn!Restore(t) PROVE JoinTyped'
  <2>1. step[t] = "restore" /\ UNCHANGED <<autoroles, sticky, saved, present, always, stuck>>
    BY <1>10 DEF Jn!Restore
  <2>2. CASE Jn!AddRole(t, "restore")
    BY <1>0, <1>1, <1>8, <2>1, <2>2
  <2>3. CASE Jn!Goto(t, "idle", Jn!NoJob) /\ UNCHANGED <<roles, owed>>
    <3>1. Jn!NoJob \in JoinLocals /\ "idle" \in Jn!Steps /\ "idle" \notin JoinSteps \cup {"leaving", "save"}
      BY <1>4, <1>5 DEF JoinSteps
    <3> QED
      BY <1>0, <1>1, <2>1, <2>3, <3>1
  <2> QED
    BY <1>10, <2>2, <2>3 DEF Jn!Restore, Jn!Finish
<1>11. Jn!NoJob \in JoinLocals /\ "idle" \in Jn!Steps /\ "idle" \notin JoinSteps \cup {"leaving", "save"}
  BY <1>4, <1>5 DEF JoinSteps
<1>12. ASSUME NEW t \in Tasks, Jn!CheckSticky(t) PROVE JoinTyped'
  <2>1. local[t].member \in Joiners /\ local[t] \in JoinLocals /\ "saved" \in Jn!Steps
    BY <1>0, <1>3, <1>5, <1>12 DEF Jn!CheckSticky, JoinersFit, JoinSteps
  <2>2. Jn!Goto(t, "idle", Jn!NoJob) \/ Jn!Goto(t, "saved", local[t])
    BY <1>12 DEF Jn!CheckSticky, Jn!Finish
  <2>3. owed' \in [Joiners -> SUBSET JoinRoleSet]
    BY <1>0, <1>2, <1>12, <2>1 DEF Jn!CheckSticky
  <2>4. UNCHANGED <<autoroles, sticky, saved, present, roles, always, stuck>>
    BY <1>12 DEF Jn!CheckSticky
  <2> QED
    BY <1>0, <1>1, <1>11, <2>1, <2>2, <2>3, <2>4
<1>13. ASSUME NEW t \in Tasks, Jn!ReadSaved(t) PROVE JoinTyped'
  <2>1. local[t].member \in Joiners /\ local[t] \in JoinLocals /\ "restore" \in Jn!Steps
    BY <1>0, <1>3, <1>5, <1>13 DEF Jn!ReadSaved, JoinersFit, JoinSteps
  <2>2. \/ Jn!Goto(t, "idle", Jn!NoJob)
        \/ \E first \in SUBSET saved[local[t].member] : Jn!Goto(t, "restore", Jn!Job(local[t].member, first))
    BY <1>13 DEF Jn!ReadSaved, Jn!Finish
  <2>3. owed' \in [Joiners -> SUBSET JoinRoleSet]
    BY <1>0, <1>2, <1>13, <2>1 DEF Jn!ReadSaved
  <2>4. UNCHANGED <<autoroles, sticky, saved, present, roles, always, stuck>>
    BY <1>13 DEF Jn!ReadSaved
  <2>5. ASSUME NEW first \in SUBSET saved[local[t].member], Jn!Goto(t, "restore", Jn!Job(local[t].member, first))
        PROVE  JoinTyped'
    <3>1. PICK j : j = Jn!Job(local[t].member, first)
      OBVIOUS
    <3>2. j \in JoinLocals /\ j.member \in Joiners /\ Jn!Goto(t, "restore", j)
      BY <1>0, <1>4, <2>1, <2>5, <3>1
    <3> QED
      BY <1>0, <1>1, <2>1, <2>3, <2>4, <3>2
  <2> QED
    BY <1>0, <1>1, <1>11, <2>2, <2>3, <2>4, <2>5
<1>14. ASSUME NEW t \in Tasks, NEW u \in Joiners, Jn!Leave(t, u) PROVE JoinTyped'
  <2>1. PICK j : j = Jn!Job(u, roles[u])
    OBVIOUS
  <2>2. j \in JoinLocals /\ j.member \in Joiners /\ "leaving" \in Jn!Steps
    BY <1>0, <1>4, <1>5, <2>1
  <2>3. roles' \in [Joiners -> SUBSET JoinRoleSet] /\ owed' \in [Joiners -> SUBSET JoinRoleSet]
    BY <1>0, <1>2, <1>14 DEF Jn!Leave
  <2> QED
    BY <1>0, <1>1, <1>14, <2>1, <2>2, <2>3 DEF Jn!Leave
<1>15. ASSUME NEW t \in Tasks, Jn!SeeRoles(t) PROVE JoinTyped'
  <2>1. local[t].member \in Joiners /\ local[t] \in JoinLocals /\ "save" \in Jn!Steps
    BY <1>0, <1>3, <1>5, <1>15 DEF Jn!SeeRoles, JoinersFit
  <2>2. \/ Jn!Goto(t, "idle", Jn!NoJob)
        \/ \E seen \in {local[t].set, {}, roles[local[t].member]} : Jn!Goto(t, "save", Jn!Job(local[t].member, seen))
    BY <1>15 DEF Jn!SeeRoles, Jn!Finish
  <2>3. UNCHANGED <<autoroles, sticky, saved, present, roles, always, stuck, owed>>
    BY <1>15 DEF Jn!SeeRoles, Jn!data
  <2>4. ASSUME NEW seen \in {local[t].set, {}, roles[local[t].member]},
               Jn!Goto(t, "save", Jn!Job(local[t].member, seen))
        PROVE  JoinTyped'
    <3>1. PICK j : j = Jn!Job(local[t].member, seen)
      OBVIOUS
    <3>2. seen \subseteq JoinRoleSet
      BY <1>0, <1>3, <2>1
    <3>3. j \in JoinLocals /\ j.member \in Joiners /\ Jn!Goto(t, "save", j)
      BY <1>4, <2>1, <2>4, <3>1, <3>2
    <3> QED
      BY <1>0, <1>1, <2>1, <2>3, <3>3
  <2> QED
    BY <1>0, <1>1, <1>11, <2>2, <2>3, <2>4
<1>16. ASSUME NEW t \in Tasks, Jn!SaveSticky(t) PROVE JoinTyped'
  <2>1. saved' \in [Joiners -> SUBSET JoinRoleSet]
    BY <1>0, <1>3, <1>16 DEF Jn!SaveSticky
  <2> QED
    BY <1>0, <1>1, <1>11, <1>16, <2>1 DEF Jn!SaveSticky, Jn!Finish
<1>17. ASSUME NEW u \in Joiners, NEW r \in JoinRoleSet, Jn!Give(u, r) \/ Jn!Take(u, r) PROVE JoinTyped'
  <2>1. /\ roles' \in [Joiners -> SUBSET JoinRoleSet]
        /\ UNCHANGED <<autoroles, sticky, saved, present, always, stuck, step, local>>
    BY <1>0, <1>17 DEF Jn!Give, Jn!Take
  <2>2. owed' \in [Joiners -> SUBSET JoinRoleSet]
    BY <1>0, <1>2, <1>17 DEF Jn!Give, Jn!Take
  <2> QED
    BY <1>0, <1>1, <2>1, <2>2
\* Changes of the table and the switch, by commands and the dashboard.
<1>18. ASSUME NEW set \in SUBSET JoinRoleSet, Jn!List(set)
       PROVE  /\ owed' \in [Joiners -> SUBSET JoinRoleSet] /\ autoroles' \subseteq JoinRoleSet /\ always' \subseteq autoroles'
              /\ UNCHANGED <<sticky, saved, present, roles, stuck>>
  BY <1>0, <1>18 DEF Jn!List
<1>19. ASSUME NEW on \in BOOLEAN, Jn!Turn(on)
       PROVE  /\ owed' \in [Joiners -> SUBSET JoinRoleSet] /\ sticky' \in BOOLEAN /\ stuck' \in BOOLEAN
              /\ (stuck' => sticky') /\ UNCHANGED <<autoroles, saved, present, roles, always>>
  BY <1>0, <1>19 DEF Jn!Turn
<1>20. ASSUME NEW t \in Tasks, NEW p \in {"insert", "insertOn", "insertOff"}, NEW set \in SUBSET JoinRoleSet,
              Jn!Goto(t, p, Jn!Job(Nobody, set))
       PROVE  \E q \in Jn!Steps, j \in JoinLocals :
                 Jn!Goto(t, q, j) /\ (q \in JoinSteps \cup {"leaving", "save"} => j.member \in Joiners)
  <2>1. p \in Jn!Steps /\ Jn!Job(Nobody, set) \in JoinLocals /\ p \notin JoinSteps \cup {"leaving", "save"}
    BY <1>4, <1>5 DEF JoinSteps
  <2> QED
    BY <1>20, <2>1
<1>21. ASSUME NEW t \in Tasks, Jn!Editing(t) PROVE JoinTyped'
  <2>1. CASE Jn!AutoroleSet(t)
    <3>1. PICK r \in JoinRoleSet : Jn!Goto(t, "insert", Jn!Job(Nobody, {r})) /\ Jn!List({})
      BY <2>1 DEF Jn!AutoroleSet
    <3> QED
      BY <1>0, <1>1, <1>18, <1>20, <3>1
  <2>2. CASE Jn!AutoroleAdd(t) \/ Jn!InsertRegardless(t)
    <3>1. PICK r \in JoinRoleSet : Jn!Goto(t, "insert", Jn!Job(Nobody, {r})) /\ UNCHANGED Jn!data
      BY <2>2 DEF Jn!AutoroleAdd, Jn!InsertRegardless
    <3> QED
      BY <1>0, <1>1, <1>20, <3>1 DEF Jn!data
  <2>3. CASE Jn!PutRoles(t)
    <3>1. PICK set \in SUBSET JoinRoleSet, turn \in {"insertOn", "insertOff"} :
            Jn!Goto(t, turn, Jn!Job(Nobody, set)) /\ Jn!List({})
      BY <2>3 DEF Jn!PutRoles
    <3> QED
      BY <1>0, <1>1, <1>18, <1>20, <3>1
  <2>4. CASE Jn!InsertAutorole(t)
    <3>1. PICK r \in local[t].set :
            /\ Jn!Goto(t, step[t], Jn!Job(Nobody, local[t].set \ {r}))
            /\ Jn!List(autoroles \cup {r}) \/ UNCHANGED Jn!data
      BY <2>4 DEF Jn!InsertAutorole
    <3>2. step[t] \in {"insert", "insertOn", "insertOff"}
      BY <2>4 DEF Jn!InsertAutorole
    <3>3. autoroles \cup {r} \in SUBSET JoinRoleSet /\ local[t].set \ {r} \in SUBSET JoinRoleSet
      BY <1>0, <1>3
    <3>4. CASE Jn!List(autoroles \cup {r})
      BY <1>0, <1>1, <1>18, <1>20, <3>1, <3>2, <3>3, <3>4
    <3>5. CASE UNCHANGED Jn!data
      BY <1>0, <1>1, <1>20, <3>1, <3>2, <3>3, <3>5 DEF Jn!data
    <3> QED
      BY <3>1, <3>4, <3>5
  <2>5. CASE Jn!EndInserts(t)
    <3>1. Jn!Goto(t, "idle", Jn!NoJob) /\ (Jn!Turn(TRUE) \/ Jn!Turn(FALSE) \/ UNCHANGED Jn!data)
      BY <2>5 DEF Jn!EndInserts, Jn!Finish
    <3>2. CASE Jn!Turn(TRUE) \/ Jn!Turn(FALSE)
      BY <1>0, <1>1, <1>11, <1>19, <3>1, <3>2
    <3>3. CASE UNCHANGED Jn!data
      BY <1>0, <1>1, <1>11, <3>1, <3>3 DEF Jn!data
    <3> QED
      BY <3>1, <3>2, <3>3
  <2> QED
    BY <1>21, <2>1, <2>2, <2>3, <2>4, <2>5 DEF Jn!Editing
<1>22. ASSUME Jn!AutoroleRemove \/ Jn!AutoroleClear PROVE JoinTyped'
  <2>1. UNCHANGED <<step, local>> /\ \E set \in SUBSET JoinRoleSet : Jn!List(set)
    BY <1>0, <1>22 DEF Jn!AutoroleRemove, Jn!AutoroleClear
  <2> QED
    BY <1>0, <1>1, <1>18, <2>1
<1>23. ASSUME Jn!StickyroleSwitch PROVE JoinTyped'
  <2>1. UNCHANGED <<step, local>>
    BY <1>23, Zenon DEF Jn!StickyroleSwitch
  <2>2. Jn!Turn(~sticky)
    BY <1>23, Zenon DEF Jn!StickyroleSwitch
  <2>3. (~sticky) \in BOOLEAN
    BY Zenon
  <2>4. PICK on \in BOOLEAN : Jn!Turn(on)
    BY <2>2, <2>3, Zenon
  <2> QED
    BY <1>0, <1>1, <1>19, <2>1, <2>4
<1> QED
  BY <1>6, <1>7, <1>9, <1>10, <1>12, <1>13, <1>14, <1>15, <1>16, <1>17, <1>21, <1>22, <1>23
     DEF Jn!Next, Jn!Coming, Jn!Going

\* The promise to u through a step of one task.
LEMMA PromiseMoves ==
    ASSUME Jn!TypeOK, NEW u \in Joiners, Promised(u), NEW t \in Tasks, NEW p, NEW j, Jn!Goto(t, p, j),
           owed'[u] \subseteq owed[u] \ (always \ always'),
           owed'[u] # {} =>
              /\ u \in present' /\ roles[u] \subseteq roles'[u] /\ Jn!Restored(u)' = Jn!Restored(u)
              /\ j.member = u => /\ local[t].member = u /\ p \in JoinSteps
                                 /\ owed'[u] \subseteq roles'[u] \cup ToGet(p, j, u)'
              /\ local[t].member = u /\ j.member # u => owed'[u] \subseteq roles'[u]
    PROVE  Promised(u)'
<1>1. /\ step'[t] = p /\ local'[t] = j
      /\ \A s \in Tasks \ {t} : step'[s] = step[s] /\ local'[s] = local[s]
  BY JnMoves
<1>2. ASSUME owed'[u] # {}, NEW s \in Tasks, local'[s].member = u
      PROVE  /\ local[s].member = u
             /\ \/ step'[s] = step[s] /\ local'[s] = local[s]
                \/ step'[s] \in JoinSteps /\ owed'[u] \subseteq roles'[u] \cup ToGet(step[s], local[s], u)'
  <2>1. CASE s # t
    BY <1>1, <1>2, <2>1
  <2>2. CASE s = t
    <3>1. step'[s] = p /\ local'[s] = j /\ j.member = u
      BY <1>1, <1>2, <2>2
    <3>2. ToGet(step[s], local[s], u)' = ToGet(p, j, u)'
      BY <3>1 DEF ToGet
    <3> QED
      BY <1>2, <2>2, <3>1, <3>2
  <2> QED
    BY <2>1, <2>2
<1>3. ASSUME owed'[u] # {}, NEW s \in Tasks, local[s].member = u, local'[s].member # u
      PROVE  owed'[u] \subseteq roles'[u]
  BY <1>1, <1>3
<1> QED
  BY <1>2, <1>3, PromiseKept

\* A task that handles no join has nothing of a promise.
LEMMA PromiseElsewhere ==
    ASSUME Jn!TypeOK, NEW u \in Joiners, Promised(u), NEW t \in Tasks, NEW p, NEW j, Jn!Goto(t, p, j),
           step[t] \notin JoinSteps, j.member # u \/ j.member = local[t].member,
           owed'[u] \subseteq owed[u] \ (always \ always'),
           owed'[u] # {} => u \in present' /\ roles[u] \subseteq roles'[u] /\ Jn!Restored(u)' = Jn!Restored(u)
    PROVE  Promised(u)'
<1>1. owed'[u] # {} => local[t].member # u
  BY DEF Promised
<1> QED
  BY <1>1, PromiseMoves

LEMMA JnCardinality == \A S : Jn!Cardinality(S) = Cardinality(S)
  BY DEF Jn!Cardinality, Cardinality, Jn!IsFiniteSet, IsFiniteSet

LEMMA PromisedStep == ASSUME JoinInv, Jn!Next, NEW v \in Joiners PROVE Promised(v)'
<1>0. /\ Jn!TypeOK /\ JoinersFit /\ (stuck => sticky) /\ Promised(v) /\ Nobody # v
      /\ autoroles \subseteq JoinRoleSet /\ always \subseteq autoroles /\ sticky \in BOOLEAN /\ stuck \in BOOLEAN
      /\ saved \in [Joiners -> SUBSET JoinRoleSet] /\ roles \in [Joiners -> SUBSET JoinRoleSet]
      /\ owed \in [Joiners -> SUBSET JoinRoleSet] /\ present \subseteq Joiners
      /\ step \in [Tasks -> Jn!Steps] /\ local \in [Tasks -> JoinLocals]
  BY JoinTypes, JoinConstants DEF JoinInv
<1>1. owed[v] # {} =>
        /\ v \in present
        /\ \A t \in Tasks : local[t].member = v =>
              step[t] \in JoinSteps /\ owed[v] \subseteq roles[v] \cup ToGet(step[t], local[t], v)
  BY <1>0 DEF Promised
<1>2. ASSUME NEW u \in Joiners, Jn!Release(u)
      PROVE  owed'[u] = {} /\ (v # u => owed'[v] = owed[v])
  BY <1>0, <1>2 DEF Jn!Release
<1>3. UNCHANGED <<saved, stuck>> => Jn!Restored(v)' = Jn!Restored(v)
  BY DEF Jn!Restored
<1>4. {} \subseteq owed[v] \ (always \ always')
  OBVIOUS
<1>5. always' = always => owed[v] \ (always \ always') = owed[v]
  OBVIOUS
<1>6. ASSUME NEW t \in Tasks, NEW u \in Joiners, Jn!Join(t, u) PROVE Promised(v)'
  <2>1. PICK j : j = Jn!Job(u, {})
    OBVIOUS
  <2>2. /\ Jn!Goto(t, "autoroles", j) /\ present' = present \cup {u} /\ step[t] = "idle" /\ j.member = u
        /\ UNCHANGED <<autoroles, sticky, saved, roles, always, stuck>>
        /\ owed' = [owed EXCEPT ![u] = IF Jn!Busy(u) THEN {} ELSE always \cup Jn!Restored(u)]
    BY <1>6, <2>1 DEF Jn!Join, Jn!Job
  <2>3. CASE v # u
    <3>1. owed'[v] = owed[v] /\ step[t] \notin JoinSteps
      BY <1>0, <2>2, <2>3 DEF JoinSteps
    <3> QED
      BY <1>0, <1>1, <1>3, <1>5, <2>2, <2>3, <3>1, PromiseElsewhere
  <2>4. CASE v = u
    <3> SUFFICES ASSUME owed'[v] # {} PROVE Promised(v)'
      BY DEF Promised
    <3>1. ~Jn!Busy(v) /\ owed'[v] = always \cup Jn!Restored(v)
      BY <1>0, <2>2, <2>4
    <3>2. /\ step'[t] = "autoroles" /\ local'[t] = j
          /\ \A s \in Tasks \ {t} : step'[s] = step[s] /\ local'[s] = local[s]
      BY <1>0, <2>2, JnMoves
    <3>3. \A s \in Tasks : local'[s].member = v => s = t
      BY <3>1, <3>2 DEF Jn!Busy
    <3>4. ToGet(step[t], local[t], v)' = always \cup Jn!Restored(v)
      BY <1>3, <2>2, <3>2 DEF ToGet
    <3>5. Jn!Busy(v)'
      BY <2>2, <2>4, <3>2 DEF Jn!Busy
    <3>6. v \in present' /\ "autoroles" \in JoinSteps
      BY <2>2, <2>4 DEF JoinSteps
    <3>7. \A s \in Tasks : local'[s].member = v =>
            step'[s] \in JoinSteps /\ owed'[v] \subseteq roles'[v] \cup ToGet(step[s], local[s], v)'
      BY <3>1, <3>2, <3>3, <3>4, <3>6
    <3> QED
      BY <3>3, <3>5, <3>6, <3>7 DEF Promised
  <2> QED
    BY <2>3, <2>4
<1>7. ASSUME NEW t \in Tasks, Jn!ReadAutoroles(t) PROVE Promised(v)'
  <2>1. local[t].member \in Joiners /\ step[t] = "autoroles"
    BY <1>0, <1>7 DEF Jn!ReadAutoroles, JoinersFit, JoinSteps
  <2>2. UNCHANGED <<autoroles, sticky, saved, present, roles, always, stuck>>
    BY <1>7 DEF Jn!ReadAutoroles
  <2>3. PICK set \in {autoroles, {}} :
          /\ Jn!Goto(t, "assign", Jn!Job(local[t].member, set))
          /\ (set = autoroles /\ UNCHANGED owed) \/ Jn!Release(local[t].member)
    BY <1>7 DEF Jn!ReadAutoroles
  <2>4. PICK j : j = Jn!Job(local[t].member, set)
    OBVIOUS
  <2>5. Jn!Goto(t, "assign", j) /\ j.member = local[t].member /\ j.set = set
    BY <2>3, <2>4 DEF Jn!Job
  <2>6. owed'[v] \subseteq owed[v] /\ (owed'[v] # {} => owed'[v] = owed[v])
    BY <1>2, <2>1, <2>3
  <2>7. ASSUME owed'[v] # {}, j.member = v
        PROVE  owed'[v] \subseteq roles'[v] \cup ToGet("assign", j, v)'
    <3>1. set = autoroles /\ owed'[v] = owed[v]
      BY <1>2, <2>1, <2>3, <2>5, <2>6, <2>7
    <3>2. owed[v] \subseteq roles[v] \cup (always \cup Jn!Restored(v))
      BY <1>1, <2>1, <2>5, <2>6, <2>7 DEF ToGet
    <3>3. ToGet("assign", j, v)' = autoroles \cup Jn!Restored(v)
      BY <1>3, <2>2, <2>5, <3>1 DEF ToGet
    <3> QED
      BY <1>0, <2>2, <3>1, <3>2, <3>3
  <2> QED
    BY <1>0, <1>1, <1>3, <1>5, <2>2, <2>5, <2>6, <2>7, PromiseMoves DEF JoinSteps
<1>8. ASSUME NEW t \in Tasks, NEW next \in {"assign", "restore"}, step[t] = next, Jn!AddRole(t, next),
             UNCHANGED <<autoroles, sticky, saved, present, always, stuck>>
      PROVE  Promised(v)'
  <2>1. local[t].member \in Joiners
    BY <1>0, <1>8 DEF JoinersFit, JoinSteps
  <2>2. PICK r \in local[t].set :
          /\ Jn!Goto(t, next, Jn!Job(local[t].member, local[t].set \ {r}))
          /\ \/ roles' = [roles EXCEPT ![local[t].member] = @ \cup {r}] /\ UNCHANGED owed
             \/ local[t].member \notin present /\ UNCHANGED <<roles, owed>>
             \/ Jn!Release(local[t].member) /\ UNCHANGED roles
    BY <1>8 DEF Jn!AddRole
  <2>3. PICK j : j = Jn!Job(local[t].member, local[t].set \ {r})
    OBVIOUS
  <2>4. Jn!Goto(t, next, j) /\ j.member = local[t].member /\ j.set = local[t].set \ {r}
    BY <2>2, <2>3 DEF Jn!Job
  <2>5. owed'[v] \subseteq owed[v] /\ roles[v] \subseteq roles'[v] /\ (owed'[v] # {} => owed'[v] = owed[v])
    BY <1>0, <1>2, <2>1, <2>2
  <2>6. ASSUME owed'[v] # {}, j.member = v
        PROVE  owed'[v] \subseteq roles'[v] \cup ToGet(next, j, v)'
    <3>1. roles'[v] = roles[v] \cup {r}
      BY <1>0, <1>1, <1>2, <2>1, <2>2, <2>4, <2>5, <2>6
    <3>2. owed[v] \subseteq roles[v] \cup ToGet(next, local[t], v)
      BY <1>1, <1>8, <2>4, <2>5, <2>6
    <3>3. ToGet(next, local[t], v) \subseteq {r} \cup ToGet(next, j, v)'
      BY <1>3, <1>8, <2>4 DEF ToGet
    <3> QED
      BY <2>5, <2>6, <3>1, <3>2, <3>3
  <2> QED
    BY <1>0, <1>1, <1>3, <1>5, <1>8, <2>4, <2>5, <2>6, PromiseMoves DEF JoinSteps
<1>9. ASSUME NEW t \in Tasks, Jn!Assign(t) PROVE Promised(v)'
  <2>1. step[t] = "assign" /\ UNCHANGED <<autoroles, sticky, saved, present, always, stuck>>
    BY <1>9 DEF Jn!Assign
  <2>2. CASE Jn!AddRole(t, "assign")
    BY <1>8, <2>1, <2>2
  <2>3. CASE local[t].set = {} /\ Jn!Goto(t, "switch", local[t]) /\ UNCHANGED <<roles, owed>>
    <3>1. PICK j : j = local[t]
      OBVIOUS
    <3>2. ASSUME owed'[v] # {}, j.member = v
          PROVE  owed'[v] \subseteq roles'[v] \cup ToGet("switch", j, v)'
      <4>1. owed[v] \subseteq roles[v] \cup ToGet("assign", local[t], v)
        BY <1>1, <2>1, <2>3, <3>1, <3>2
      <4>2. ToGet("assign", local[t], v) = Jn!Restored(v) /\ ToGet("switch", j, v)' = Jn!Restored(v)
        BY <1>3, <2>1, <2>3 DEF ToGet
      <4> QED
        BY <2>3, <4>1, <4>2
    <3> QED
      BY <1>0, <1>1, <1>3, <1>5, <2>1, <2>3, <3>1, <3>2, PromiseMoves DEF JoinSteps
  <2> QED
    BY <1>9, <2>2, <2>3 DEF Jn!Assign
<1>10. Jn!NoJob.member # v
  BY <1>0 DEF Jn!NoJob, Jn!Job
\* Who is done has given all there was to give.
<1>11. ASSUME NEW t \in Tasks, Jn!Finish(t), UNCHANGED <<saved, present, roles, always, stuck>>,
              owed'[v] \subseteq owed[v],
              owed'[v] # {} /\ local[t].member = v => owed'[v] \subseteq roles[v]
       PROVE  Promised(v)'
  <2>1. owed'[v] # {} => v \in present
    BY <1>1, <1>11
  <2> QED
    BY <1>0, <1>3, <1>5, <1>10, <1>11, <2>1, PromiseMoves DEF Jn!Finish
<1>12. ASSUME NEW t \in Tasks, Jn!Restore(t) PROVE Promised(v)'
  <2>1. step[t] = "restore" /\ UNCHANGED <<autoroles, sticky, saved, present, always, stuck>>
    BY <1>12 DEF Jn!Restore
  <2>2. CASE Jn!AddRole(t, "restore")
    BY <1>8, <2>1, <2>2
  <2>3. CASE local[t].set = {} /\ Jn!Finish(t) /\ UNCHANGED <<roles, owed>>
    <3>1. owed[v] # {} /\ local[t].member = v => owed[v] \subseteq roles[v]
      BY <1>1, <2>1, <2>3 DEF ToGet
    <3> QED
      BY <1>11, <2>1, <2>3, <3>1
  <2> QED
    BY <1>12, <2>2, <2>3 DEF Jn!Restore
<1>13. ASSUME NEW t \in Tasks, Jn!CheckSticky(t) PROVE Promised(v)'
  <2>1. local[t].member \in Joiners /\ step[t] = "switch"
    BY <1>0, <1>13 DEF Jn!CheckSticky, JoinersFit, JoinSteps
  <2>2. UNCHANGED <<autoroles, sticky, saved, present, roles, always, stuck>>
    BY <1>13 DEF Jn!CheckSticky
  <2>3. owed[v] # {} /\ local[t].member = v => owed[v] \subseteq roles[v] \cup Jn!Restored(v)
    BY <1>1, <2>1 DEF ToGet
  <2>4. CASE sticky /\ Jn!Goto(t, "saved", local[t]) /\ UNCHANGED owed
    <3>1. PICK j : j = local[t]
      OBVIOUS
    <3>2. ToGet("saved", j, v)' = Jn!Restored(v)
      BY <1>3, <2>2 DEF ToGet
    <3> QED
      BY <1>0, <1>1, <1>3, <1>5, <2>2, <2>3, <2>4, <3>1, <3>2, PromiseMoves DEF JoinSteps
  <2>5. CASE ~sticky /\ Jn!Finish(t) /\ UNCHANGED owed
    <3>1. Jn!Restored(v) = {}
      BY <1>0, <2>5 DEF Jn!Restored
    <3> QED
      BY <1>11, <2>2, <2>3, <2>5, <3>1
  <2>6. CASE Jn!Finish(t) /\ Jn!Release(local[t].member)
    BY <1>2, <1>11, <2>1, <2>2, <2>6
  <2> QED
    BY <1>13, <2>4, <2>5, <2>6 DEF Jn!CheckSticky
<1>14. ASSUME NEW t \in Tasks, Jn!ReadSaved(t) PROVE Promised(v)'
  <2>1. local[t].member \in Joiners /\ step[t] = "saved"
    BY <1>0, <1>14 DEF Jn!ReadSaved, JoinersFit, JoinSteps
  <2>2. UNCHANGED <<autoroles, sticky, saved, present, roles, always, stuck>>
    BY <1>14 DEF Jn!ReadSaved
  <2>3. owed[v] # {} /\ local[t].member = v => owed[v] \subseteq roles[v] \cup Jn!Restored(v)
    BY <1>1, <2>1 DEF ToGet
  <2>4. ASSUME NEW first \in SUBSET saved[local[t].member],
               Jn!Cardinality(first) <= MaxAutoroles,
               first = saved[local[t].member] \/ Jn!Cardinality(first) = MaxAutoroles,
               Jn!Goto(t, "restore", Jn!Job(local[t].member, first)), UNCHANGED owed
        PROVE  Promised(v)'
    <3>1. PICK j : j = Jn!Job(local[t].member, first)
      OBVIOUS
    <3>2. Jn!Goto(t, "restore", j) /\ j.member = local[t].member /\ j.set = first
      BY <2>4, <3>1 DEF Jn!Job
    <3>3. ASSUME j.member = v PROVE Jn!Restored(v) \subseteq first
      <4>1. IsFiniteSet(saved[v])
        BY <1>0, JoinConstants, FS_Subset
      <4>2. first \in SUBSET saved[v] /\ Cardinality(saved[v]) \in Nat /\ Cardinality(first) \in Nat
        BY <2>4, <3>2, <3>3, <4>1, FS_Subset, FS_CardinalityType
      <4>3. first # saved[v] => Cardinality(first) < Cardinality(saved[v])
        BY <4>1, <4>2, FS_Subset
      <4>4. first # saved[v] => ~(Cardinality(saved[v]) <= MaxAutoroles)
        BY <2>4, <3>2, <3>3, <4>2, <4>3, JnCardinality, JoinConstants, SMT
      <4> QED
        BY <4>4, JnCardinality DEF Jn!Restored
    <3>4. ToGet("restore", j, v)' = first
      BY <3>2 DEF ToGet
    <3> QED
      BY <1>0, <1>1, <1>3, <1>5, <2>2, <2>3, <2>4, <3>2, <3>3, <3>4, PromiseMoves DEF JoinSteps
  <2>5. CASE Jn!Finish(t) /\ Jn!Release(local[t].member)
    BY <1>2, <1>11, <2>1, <2>2, <2>5
  <2> QED
    BY <1>14, <2>4, <2>5 DEF Jn!ReadSaved
<1>15. ASSUME NEW t \in Tasks, NEW u \in Joiners, Jn!Leave(t, u) PROVE Promised(v)'
  <2>1. PICK j : j = Jn!Job(u, roles[u])
    OBVIOUS
  <2>2. Jn!Goto(t, "leaving", j) /\ step[t] \notin JoinSteps /\ j.member = u
    BY <1>15, <2>1 DEF Jn!Leave, Jn!Job, JoinSteps
  <2>3. CASE v = u
    BY <1>2, <1>15, <2>3 DEF Jn!Leave, Promised
  <2>4. CASE v # u
    <3>1. owed'[v] = owed[v] /\ roles'[v] = roles[v] /\ present' = present \ {u} /\ UNCHANGED <<always, saved, stuck>>
      BY <1>0, <1>2, <1>15, <2>4 DEF Jn!Leave
    <3> QED
      BY <1>0, <1>1, <1>3, <1>5, <2>2, <2>4, <3>1, PromiseElsewhere
  <2> QED
    BY <2>3, <2>4
<1>16. ASSUME NEW t \in Tasks, Jn!SeeRoles(t) PROVE Promised(v)'
  <2>1. /\ step[t] \notin JoinSteps
        /\ UNCHANGED <<autoroles, sticky, saved, present, roles, always, stuck, owed>>
    BY <1>16 DEF Jn!SeeRoles, Jn!data, JoinSteps
  <2>2. ASSUME NEW p, NEW j, Jn!Goto(t, p, j), j.member # v \/ j.member = local[t].member
        PROVE  Promised(v)'
    BY <1>0, <1>1, <1>3, <1>5, <2>1, <2>2, PromiseElsewhere
  <2>3. CASE Jn!Goto(t, "idle", Jn!NoJob)
    BY <1>10, <2>2, <2>3
  <2>4. ASSUME NEW seen, Jn!Goto(t, "save", Jn!Job(local[t].member, seen)) PROVE Promised(v)'
    BY <2>2, <2>4 DEF Jn!Job
  <2> QED
    BY <1>16, <2>3, <2>4 DEF Jn!SeeRoles, Jn!Finish
<1>17. ASSUME NEW t \in Tasks, Jn!SaveSticky(t) PROVE Promised(v)'
  <2>1. /\ step[t] = "save" /\ Jn!Finish(t) /\ UNCHANGED <<autoroles, sticky, present, roles, always, stuck, owed>>
        /\ saved' = [saved EXCEPT ![local[t].member] = local[t].set] \/ saved' = saved
    BY <1>17 DEF Jn!SaveSticky
  <2>2. owed[v] # {} => Jn!Restored(v)' = Jn!Restored(v)
    BY <1>0, <1>1, <2>1 DEF JoinSteps, Jn!Restored
  <2> QED
    BY <1>0, <1>1, <1>5, <1>10, <2>1, <2>2, PromiseElsewhere DEF JoinSteps, Jn!Finish
<1>18. ASSUME owed'[v] \subseteq owed[v] \ (always \ always'), roles[v] \subseteq roles'[v] \/ owed'[v] = {},
              UNCHANGED <<saved, present, stuck, step, local>> \/ (owed'[v] = {})
       PROVE  Promised(v)'
  BY <1>0, <1>1, <1>3, <1>18, PromiseKept DEF Promised
<1>19. ASSUME NEW u \in Joiners, NEW r \in JoinRoleSet, Jn!Give(u, r) \/ Jn!Take(u, r) PROVE Promised(v)'
  <2>1. UNCHANGED <<autoroles, sticky, saved, present, always, stuck, step, local>>
    BY <1>19 DEF Jn!Give, Jn!Take
  <2>2. owed'[v] \subseteq owed[v] /\ (roles[v] \subseteq roles'[v] \/ owed'[v] = {})
    BY <1>0, <1>2, <1>19 DEF Jn!Give, Jn!Take
  <2> QED
    BY <1>5, <1>18, <2>1, <2>2
\* Changes of the table and the switch, by commands and the dashboard.
<1>20. ASSUME NEW set, Jn!List(set)
       PROVE  /\ owed'[v] \subseteq owed[v] \ (always \ always') /\ UNCHANGED <<saved, present, roles, stuck>>
  BY <1>20 DEF Jn!List
<1>21. ASSUME NEW on \in BOOLEAN, Jn!Turn(on)
       PROVE  /\ owed'[v] \subseteq owed[v] \ (always \ always') /\ UNCHANGED <<saved, present, roles>>
              /\ owed'[v] # {} => stuck' = stuck
  BY <1>0, <1>21 DEF Jn!Turn
<1>22. UNCHANGED Jn!data => /\ owed'[v] \subseteq owed[v] \ (always \ always')
                            /\ UNCHANGED <<saved, present, roles, stuck>>
  BY DEF Jn!data
<1>23. ASSUME NEW t \in Tasks, step[t] \notin JoinSteps, NEW p, NEW j, Jn!Goto(t, p, j), j.member # v,
              owed'[v] \subseteq owed[v] \ (always \ always'), UNCHANGED <<saved, present, roles>>,
              owed'[v] # {} => stuck' = stuck
       PROVE  Promised(v)'
  <2>1. owed'[v] # {} => v \in present' /\ roles[v] \subseteq roles'[v] /\ Jn!Restored(v)' = Jn!Restored(v)
    BY <1>1, <1>3, <1>23
  <2> QED
    BY <1>0, <1>23, <2>1, PromiseElsewhere
<1>24. \A set : Jn!Job(Nobody, set).member # v
  BY <1>0 DEF Jn!Job
<1>25. ASSUME NEW t \in Tasks, Jn!Editing(t) PROVE Promised(v)'
  <2>1. CASE Jn!AutoroleSet(t)
    <3>1. PICK r \in JoinRoleSet : Jn!Goto(t, "insert", Jn!Job(Nobody, {r})) /\ Jn!List({})
      BY <2>1 DEF Jn!AutoroleSet
    <3>2. step[t] \notin JoinSteps
      BY <2>1 DEF Jn!AutoroleSet, JoinSteps
    <3> QED
      BY <1>20, <1>23, <1>24, <3>1, <3>2
  <2>2. CASE Jn!AutoroleAdd(t) \/ Jn!InsertRegardless(t)
    <3>1. PICK r \in JoinRoleSet : Jn!Goto(t, "insert", Jn!Job(Nobody, {r})) /\ UNCHANGED Jn!data
      BY <2>2 DEF Jn!AutoroleAdd, Jn!InsertRegardless
    <3>2. step[t] \notin JoinSteps
      BY <2>2 DEF Jn!AutoroleAdd, Jn!InsertRegardless, JoinSteps
    <3> QED
      BY <1>22, <1>23, <1>24, <3>1, <3>2
  <2>3. CASE Jn!PutRoles(t)
    <3>1. PICK set \in SUBSET JoinRoleSet, turn \in {"insertOn", "insertOff"} :
            Jn!Goto(t, turn, Jn!Job(Nobody, set)) /\ Jn!List({})
      BY <2>3 DEF Jn!PutRoles
    <3>2. step[t] \notin JoinSteps
      BY <2>3 DEF Jn!PutRoles, JoinSteps
    <3> QED
      BY <1>20, <1>23, <1>24, <3>1, <3>2
  <2>4. CASE Jn!InsertAutorole(t)
    <3>1. PICK r \in local[t].set :
            /\ Jn!Goto(t, step[t], Jn!Job(Nobody, local[t].set \ {r}))
            /\ Jn!List(autoroles \cup {r}) \/ UNCHANGED Jn!data
      BY <2>4 DEF Jn!InsertAutorole
    <3>2. step[t] \notin JoinSteps
      BY <2>4 DEF Jn!InsertAutorole, JoinSteps
    <3> QED
      BY <1>20, <1>22, <1>23, <1>24, <3>1, <3>2
  <2>5. CASE Jn!EndInserts(t)
    <3>1. Jn!Goto(t, "idle", Jn!NoJob) /\ (Jn!Turn(TRUE) \/ Jn!Turn(FALSE) \/ UNCHANGED Jn!data)
      BY <2>5 DEF Jn!EndInserts, Jn!Finish
    <3>2. step[t] \notin JoinSteps
      BY <2>5 DEF Jn!EndInserts, JoinSteps
    <3> QED
      BY <1>10, <1>21, <1>22, <1>23, <3>1, <3>2
  <2> QED
    BY <1>25, <2>1, <2>2, <2>3, <2>4, <2>5 DEF Jn!Editing
<1>26. ASSUME Jn!AutoroleRemove \/ Jn!AutoroleClear PROVE Promised(v)'
  <2>1. UNCHANGED <<step, local>> /\ \E set : Jn!List(set)
    BY <1>26 DEF Jn!AutoroleRemove, Jn!AutoroleClear
  <2> QED
    BY <1>18, <1>20, <2>1
<1>27. ASSUME Jn!StickyroleSwitch PROVE Promised(v)'
  <2>1. UNCHANGED <<step, local>>
    BY <1>27, Zenon DEF Jn!StickyroleSwitch
  <2>2. Jn!Turn(~sticky) /\ (~sticky) \in BOOLEAN
    BY <1>27, Zenon DEF Jn!StickyroleSwitch
  <2>3. PICK on \in BOOLEAN : Jn!Turn(on)
    BY <2>2, Zenon
  <2> QED
    BY <1>18, <1>21, <2>1, <2>3 DEF Promised
<1> QED
  BY <1>6, <1>7, <1>9, <1>12, <1>13, <1>14, <1>15, <1>16, <1>17, <1>19, <1>25, <1>26, <1>27
     DEF JoinInv, Jn!Next, Jn!Coming, Jn!Going

LEMMA JoinStep == JoinInv /\ [Jn!Next]_(Jn!vars) => JoinInv'
<1>1. CASE Jn!Next /\ JoinInv
  BY <1>1, JoinTypedStep, PromisedStep DEF JoinInv, JoinTyped
<1>2. CASE UNCHANGED Jn!vars /\ JoinInv
  <2>1. UNCHANGED <<autoroles, sticky, saved, present, roles, always, stuck, owed, step, local>>
    BY <1>2 DEF Jn!vars
  <2> QED
    BY <1>2, <2>1 DEF JoinInv, Jn!TypeOK, JoinersFit, Promised, ToGet, Jn!Restored, Jn!Busy
<1> QED
  BY <1>1, <1>2

LEMMA JoinInit == Jn!DataInit /\ Jn!TaskInit => JoinInv
  BY JoinConstants DEF Jn!DataInit, Jn!TaskInit, JoinInv, Jn!TypeOK, JoinersFit, JoinSteps, Promised,
     Jn!NoJob, Jn!Job, Jn!Steps

\* However joins, leaves and the commands that change the list overlap, whoever joined
\* has, once the handler is through, the autoroles that were listed all along and what
\* they left with, unless a call failed or staff took it away (apply_autoroles,
\* apply_sticky_roles, save_sticky_roles).
THEOREM JoinersGetTheirs == MCSpec => []JoinersGetTheirRoles
<1> DEFINE Inv == focus = "joining" => JoinInv
<1>1. MCInit => Inv
  BY JoinInit DEF MCInit
<1>2. Inv /\ [MCNext]_<<focus, State, step, local, budget>> => Inv'
  BY JoinStep DEF MCNext, State, joinVars, Jn!vars
<1>3. Inv => JoinersGetTheirRoles
  BY DEF JoinersGetTheirRoles, Jn!JoinersGetTheirRoles, JoinInv, Jn!TypeOK, Promised
<1> QED
  BY <1>1, <1>2, <1>3, PTL DEF MCSpec

(***************************************************************************)
(* AFK notices.                                                            *)
(***************************************************************************)
AfkNotice == Away!Entry \cup {NoNotice}

AfkShape ==
    /\ afkRows \in [People -> AfkNotice] /\ afkCache \in [People -> AfkNotice]
    /\ now \in 0 .. MaxNow /\ upset \subseteq People
    /\ step \in [Tasks -> {"idle", "store", "remove", "delete", "hydrate"}]
    /\ local \in [Tasks -> [user : People \cup {Nobody}, entry : AfkNotice,
                            rows : {NoSnapshot} \cup [People -> AfkNotice]]]
    /\ \A t \in Tasks : /\ step[t] = "idle" => local[t] = Away!NoJob
                        /\ step[t] \in {"store", "remove", "delete"} =>
                              local[t].user \in People /\ local[t].rows = NoSnapshot
                        /\ step[t] = "hydrate" => local[t].user = Nobody /\ local[t].rows # NoSnapshot

\* Task t may change what is known about u.
Touches(t, u) == local[t].user = u \/ local[t].rows # NoSnapshot

\* What a task at step p with locals j, the only one at it, relies on about u.
AfkFits(p, j, u) ==
    /\ p = "store" => afkCache[u] = j.entry
    /\ p = "remove" => afkCache[u] = afkRows[u]
    /\ p = "delete" => afkCache[u] = NoNotice
    /\ p = "hydrate" => j.rows[u] = afkRows[u] /\ (afkRows[u] = NoNotice => afkCache[u] = NoNotice)

AfkTendedFor(u) ==
    /\ \A s, t \in Tasks : Touches(s, u) /\ Touches(t, u) => s = t
    /\ \A t \in Tasks : Touches(t, u) => AfkFits(step[t], local[t], u)
    /\ (\A t \in Tasks : ~Touches(t, u)) => afkCache[u] = afkRows[u]

AfkTended == \A u \in People \ upset : AfkTendedFor(u)

AfkInv == AfkShape /\ AfkTended

LEMMA AfkMoves ==
    ASSUME AfkShape, NEW t \in Tasks, NEW p, NEW j, Away!Goto(t, p, j)
    PROVE  /\ step'[t] = p /\ local'[t] = j
           /\ \A s \in Tasks \ {t} : step'[s] = step[s] /\ local'[s] = local[s]
  BY DEF AfkShape, Away!Goto

LEMMA AfkIdle ==
    ASSUME AfkShape, NEW t \in Tasks, step[t] = "idle", NEW u \in People
    PROVE  ~Touches(t, u)
  BY AfkConstants DEF AfkShape, Touches, Away!NoJob, Away!Job

\* A step of one task, about one person.
LEMMA AfkTaskStep ==
    ASSUME AfkShape, NEW t \in Tasks, NEW p, NEW j, Away!Goto(t, p, j), NEW u,
           AfkTendedFor(u) \/ \A s \in Tasks : ~Touches(s, u),
           \A s \in Tasks \ {t} : Touches(s, u) =>
               /\ afkRows'[u] = afkRows[u] /\ afkCache'[u] = afkCache[u]
               /\ ~(j.user = u \/ j.rows # NoSnapshot),
           j.user = u \/ j.rows # NoSnapshot => AfkFits(p, j, u)',
           (j.user # u /\ j.rows = NoSnapshot /\ \A s \in Tasks \ {t} : ~Touches(s, u)) =>
               afkCache'[u] = afkRows'[u]
    PROVE  AfkTendedFor(u)'
<1>1. /\ step'[t] = p /\ local'[t] = j
      /\ \A s \in Tasks \ {t} : step'[s] = step[s] /\ local'[s] = local[s]
  BY AfkMoves
<1>2. /\ \A s \in Tasks \ {t} : Touches(s, u)' = Touches(s, u)
      /\ Touches(t, u)' = (j.user = u \/ j.rows # NoSnapshot)
  BY <1>1, Zenon DEF Touches
<1>3. \A s, r \in Tasks : Touches(s, u)' /\ Touches(r, u)' => s = r
  BY <1>2 DEF AfkTendedFor
<1>4. ASSUME NEW s \in Tasks, Touches(s, u)' PROVE AfkFits(step[s], local[s], u)'
  <2>1. CASE s = t
    BY <1>1, <1>2, <1>4, <2>1 DEF AfkFits
  <2>2. CASE s # t
    BY <1>1, <1>2, <1>4, <2>2 DEF AfkFits, AfkTendedFor
  <2> QED
    BY <2>1, <2>2
<1>5. (\A s \in Tasks : ~Touches(s, u)') => afkCache'[u] = afkRows'[u]
  BY <1>2
<1> QED
  BY <1>3, <1>4, <1>5 DEF AfkTendedFor

LEMMA AfkShapeStep == ASSUME AfkShape, Away!Next PROVE AfkShape'
<1> USE AfkConstants DEF AfkNotice, Away!NoJob, Away!Job
<1>1. ASSUME NEW t \in Tasks, NEW p, NEW j, Away!Goto(t, p, j),
             p \in {"idle", "store", "remove", "delete", "hydrate"},
             j \in [user : People \cup {Nobody}, entry : AfkNotice,
                    rows : {NoSnapshot} \cup [People -> AfkNotice]],
             p = "idle" => j = Away!NoJob,
             p \in {"store", "remove", "delete"} => j.user \in People /\ j.rows = NoSnapshot,
             p = "hydrate" => j.user = Nobody /\ j.rows # NoSnapshot,
             afkRows' \in [People -> AfkNotice], afkCache' \in [People -> AfkNotice],
             now' \in 0 .. MaxNow, upset' \subseteq People
      PROVE  AfkShape'
  <2>1. /\ step'[t] = p /\ local'[t] = j
        /\ \A s \in Tasks \ {t} : step'[s] = step[s] /\ local'[s] = local[s]
    BY <1>1, AfkMoves
  <2>2. /\ step' \in [Tasks -> {"idle", "store", "remove", "delete", "hydrate"}]
        /\ local' \in [Tasks -> [user : People \cup {Nobody}, entry : AfkNotice,
                                 rows : {NoSnapshot} \cup [People -> AfkNotice]]]
    BY <1>1 DEF AfkShape, Away!Goto
  <2> QED
    BY <1>1, <2>1, <2>2 DEF AfkShape
<1>2. ASSUME NEW t \in Tasks, Away!SetAfk(t) PROVE AfkShape'
  <2>1. PICK u \in People, m \in Notices :
          /\ afkCache' = [afkCache EXCEPT ![u] = [message |-> m, set_at |-> now]]
          /\ Away!Goto(t, "store", Away!Job(u, [message |-> m, set_at |-> now], NoSnapshot))
          /\ upset' = IF Away!UnderWay(u) THEN upset \cup {u} ELSE upset \ {u}
    BY <1>2, Zenon DEF Away!SetAfk
  <2>2. UNCHANGED <<afkRows, now>>
    BY <1>2 DEF Away!SetAfk
  <2>3. PICK entry : entry = [message |-> m, set_at |-> now]
    OBVIOUS
  <2>4. entry \in AfkNotice
    BY <2>3 DEF AfkShape, Away!Entry
  <2>5. PICK j : j = Away!Job(u, entry, NoSnapshot)
    OBVIOUS
  <2> QED
    BY <1>1, <2>1, <2>2, <2>3, <2>4, <2>5 DEF AfkShape
<1>3. ASSUME NEW t \in Tasks, Away!Store(t) PROVE AfkShape'
  BY <1>1, <1>3 DEF Away!Store, Away!Finish, AfkShape
<1>4. ASSUME NEW t \in Tasks, Away!WriteFails(t) PROVE AfkShape'
  BY <1>1, <1>4 DEF Away!WriteFails, Away!Finish, AfkShape
<1>5. ASSUME NEW t \in Tasks, Away!ManageAfk(t) PROVE AfkShape'
  <2>1. PICK u \in People :
          /\ Away!Goto(t, "remove", Away!Job(u, NoNotice, NoSnapshot))
          /\ upset' = IF Away!UnderWay(u) THEN upset \cup {u} ELSE upset
    BY <1>5 DEF Away!ManageAfk
  <2> QED
    BY <1>1, <1>5, <2>1 DEF Away!ManageAfk, AfkShape
<1>6. ASSUME NEW t \in Tasks, Away!Remove(t) PROVE AfkShape'
  <2>1. /\ afkCache' = [afkCache EXCEPT ![local[t].user] = NoNotice]
        /\ UNCHANGED <<afkRows, now, upset>> /\ step[t] = "remove"
    BY <1>6 DEF Away!Remove
  <2>2. Away!Goto(t, "idle", Away!NoJob) \/ Away!Goto(t, "delete", local[t])
    BY <1>6 DEF Away!Remove, Away!Finish
  <2> QED
    BY <1>1, <2>1, <2>2 DEF AfkShape
<1>7. ASSUME NEW t \in Tasks, Away!Delete(t) PROVE AfkShape'
  BY <1>1, <1>7 DEF Away!Delete, Away!Finish, AfkShape
<1>8. ASSUME NEW t \in Tasks, Away!ReadyRead(t) PROVE AfkShape'
  BY <1>1, <1>8 DEF Away!ReadyRead, AfkShape
<1>9. ASSUME NEW t \in Tasks, Away!ReadyInsert(t) PROVE AfkShape'
  <2>1. afkCache' \in [People -> AfkNotice]
    BY <1>9 DEF Away!ReadyInsert, AfkShape
  <2> QED
    BY <1>1, <1>9, <2>1 DEF Away!ReadyInsert, Away!Finish, AfkShape
<1>10. CASE Away!Crash
  BY <1>10 DEF Away!Crash, AfkShape
<1>11. CASE Away!Tick
  BY <1>11 DEF Away!Tick, AfkShape
<1> QED
  BY <1>2, <1>3, <1>4, <1>5, <1>6, <1>7, <1>8, <1>9, <1>10, <1>11 DEF Away!Next

\* Whoever begins something about u is the only one, or u is upset.
LEMMA AfkAlone ==
    ASSUME AfkInv, NEW u \in People \ upset, NEW t \in Tasks, Touches(t, u)
    PROVE  (\A s \in Tasks \ {t} : ~Touches(s, u)) /\ AfkFits(step[t], local[t], u)
  BY DEF AfkInv, AfkTended, AfkTendedFor

LEMMA AfkTendedStep == ASSUME AfkInv, Away!Next PROVE AfkTended'
<1> USE AfkConstants
<1>0. AfkShape
  BY DEF AfkInv
<1>1. ASSUME NEW t \in Tasks, Away!SetAfk(t), NEW u \in People, u \notin upset' PROVE AfkTendedFor(u)'
  <2>0. PICK v \in People : \E entry :
          /\ afkCache' = [afkCache EXCEPT ![v] = entry]
          /\ Away!Goto(t, "store", Away!Job(v, entry, NoSnapshot))
          /\ upset' = IF Away!UnderWay(v) THEN upset \cup {v} ELSE upset \ {v}
    BY <1>1, Zenon DEF Away!SetAfk
  <2>1. PICK entry :
          /\ afkCache' = [afkCache EXCEPT ![v] = entry]
          /\ Away!Goto(t, "store", Away!Job(v, entry, NoSnapshot))
          /\ upset' = IF Away!UnderWay(v) THEN upset \cup {v} ELSE upset \ {v}
    BY <2>0
  <2>2. step[t] = "idle" /\ afkRows' = afkRows
    BY <1>1 DEF Away!SetAfk
  <2>3. PICK j : j = Away!Job(v, entry, NoSnapshot)
    OBVIOUS
  <2>4. j.user = v /\ j.rows = NoSnapshot /\ j.entry = entry
    BY <2>3 DEF Away!Job
  <2>5. CASE u = v
    <3>1. \A s \in Tasks : ~Touches(s, u)
      BY <1>1, <2>1, <2>5 DEF Away!UnderWay, Touches
    <3>2. AfkFits("store", j, u)'
      BY <1>0, <2>1, <2>4, <2>5 DEF AfkFits, AfkShape
    <3> QED
      BY <1>0, <2>1, <2>3, <2>4, <2>5, <3>1, <3>2, AfkTaskStep
  <2>6. CASE u # v
    <3>1. AfkTendedFor(u)
      BY <1>1, <2>1, <2>6 DEF AfkInv, AfkTended
    <3>2. ~Touches(t, u)
      BY <1>0, <2>2, AfkIdle
    <3>3. afkCache'[u] = afkCache[u]
      BY <1>0, <2>1, <2>6 DEF AfkShape
    <3>4. (\A s \in Tasks \ {t} : ~Touches(s, u)) => afkCache'[u] = afkRows'[u]
      BY <2>2, <3>1, <3>2, <3>3 DEF AfkTendedFor
    <3> QED
      BY <1>0, <2>1, <2>2, <2>3, <2>4, <2>6, <3>1, <3>3, <3>4, AfkTaskStep
  <2> QED
    BY <2>5, <2>6
\* A task is through with its member: row and entry are alike.
<1>2. ASSUME NEW t \in Tasks, step[t] \in {"store", "remove", "delete"}, Away!Goto(t, "idle", Away!NoJob),
             NEW u \in People, u \notin upset, upset \subseteq upset',
             \A v \in People \ {local[t].user} : afkRows'[v] = afkRows[v] /\ afkCache'[v] = afkCache[v],
             u = local[t].user => afkCache'[u] = afkRows'[u]
      PROVE  AfkTendedFor(u)'
  <2>1. PICK j : j = Away!NoJob
    OBVIOUS
  <2>2. j.user = Nobody /\ j.rows = NoSnapshot
    BY <2>1 DEF Away!NoJob, Away!Job
  <2>3. local[t].rows = NoSnapshot
    BY <1>0, <1>2 DEF AfkShape
  <2>4. AfkTendedFor(u)
    BY <1>2 DEF AfkInv, AfkTended
  <2>5. CASE u = local[t].user
    <3>1. \A s \in Tasks \ {t} : ~Touches(s, u)
      BY <1>2, <2>5, AfkAlone DEF Touches
    <3> QED
      BY <1>0, <1>2, <2>1, <2>2, <2>4, <2>5, <3>1, AfkTaskStep
  <2>6. CASE u # local[t].user
    <3>1. (\A s \in Tasks \ {t} : ~Touches(s, u)) => afkCache'[u] = afkRows'[u]
      BY <1>2, <2>3, <2>4, <2>6 DEF AfkTendedFor, Touches
    <3> QED
      BY <1>0, <1>2, <2>1, <2>2, <2>4, <2>6, <3>1, AfkTaskStep
  <2> QED
    BY <2>5, <2>6
<1>3. ASSUME NEW t \in Tasks, Away!Store(t), NEW u \in People, u \notin upset' PROVE AfkTendedFor(u)'
  <2>1. /\ step[t] = "store" /\ Away!Goto(t, "idle", Away!NoJob)
        /\ afkRows' = [afkRows EXCEPT ![local[t].user] = local[t].entry] /\ UNCHANGED <<afkCache, upset>>
    BY <1>3 DEF Away!Store, Away!Finish
  <2>2. u = local[t].user => afkCache'[u] = afkRows'[u]
    BY <1>0, <1>3, <2>1, AfkAlone DEF AfkFits, AfkShape, Touches
  <2> QED
    BY <1>0, <1>2, <1>3, <2>1, <2>2 DEF AfkShape
<1>4. ASSUME NEW t \in Tasks, Away!WriteFails(t), NEW u \in People, u \notin upset' PROVE AfkTendedFor(u)'
  <2>1. /\ step[t] \in {"store", "delete"} /\ Away!Goto(t, "idle", Away!NoJob)
        /\ upset' = upset \cup {local[t].user} /\ UNCHANGED <<afkRows, afkCache>>
    BY <1>4 DEF Away!WriteFails, Away!Finish
  <2> QED
    BY <1>2, <1>4, <2>1
<1>5. ASSUME NEW t \in Tasks, Away!ManageAfk(t), NEW u \in People, u \notin upset' PROVE AfkTendedFor(u)'
  <2>1. PICK v \in People :
          /\ Away!Goto(t, "remove", Away!Job(v, NoNotice, NoSnapshot))
          /\ upset' = IF Away!UnderWay(v) THEN upset \cup {v} ELSE upset
    BY <1>5 DEF Away!ManageAfk
  <2>2. step[t] = "idle" /\ UNCHANGED <<afkRows, afkCache>>
    BY <1>5 DEF Away!ManageAfk
  <2>3. PICK j : j = Away!Job(v, NoNotice, NoSnapshot)
    OBVIOUS
  <2>4. j.user = v /\ j.rows = NoSnapshot
    BY <2>3 DEF Away!Job
  <2>5. AfkTendedFor(u) /\ ~Touches(t, u)
    BY <1>0, <1>5, <2>1, <2>2, AfkIdle DEF AfkInv, AfkTended
  <2>6. CASE u = v
    <3>1. \A s \in Tasks : ~Touches(s, u)
      BY <1>5, <2>1, <2>6 DEF Away!UnderWay, Touches
    <3>2. AfkFits("remove", j, u)'
      BY <2>2, <2>5, <3>1 DEF AfkFits, AfkTendedFor
    <3> QED
      BY <1>0, <2>1, <2>3, <2>4, <2>6, <3>1, <3>2, AfkTaskStep
  <2>7. CASE u # v
    <3>1. (\A s \in Tasks \ {t} : ~Touches(s, u)) => afkCache'[u] = afkRows'[u]
      BY <2>2, <2>5 DEF AfkTendedFor
    <3> QED
      BY <1>0, <2>1, <2>2, <2>3, <2>4, <2>5, <2>7, <3>1, AfkTaskStep
  <2> QED
    BY <2>6, <2>7
<1>6. ASSUME NEW t \in Tasks, Away!Remove(t), NEW u \in People, u \notin upset' PROVE AfkTendedFor(u)'
  <2> DEFINE v == local[t].user
  <2>1. /\ step[t] = "remove" /\ UNCHANGED <<afkRows, upset>>
        /\ afkCache' = [afkCache EXCEPT ![v] = NoNotice]
        /\ IF afkCache[v] = NoNotice THEN Away!Goto(t, "idle", Away!NoJob) ELSE Away!Goto(t, "delete", local[t])
    BY <1>6 DEF Away!Remove, Away!Finish
  <2>2. u = v => afkCache[u] = afkRows[u]
    BY <1>6, <2>1, AfkAlone DEF AfkFits, Touches
  <2>3. CASE afkCache[v] = NoNotice
    <3>1. u = v => afkCache'[u] = afkRows'[u]
      BY <1>0, <2>1, <2>2, <2>3 DEF AfkShape
    <3> QED
      BY <1>0, <1>2, <1>6, <2>1, <2>3, <3>1 DEF AfkShape
  <2>4. CASE afkCache[v] # NoNotice
    <3>1. PICK j : j = local[t]
      OBVIOUS
    <3>2. j.user = v /\ j.rows = NoSnapshot /\ AfkTendedFor(u)
      BY <1>0, <1>6, <2>1, <3>1 DEF AfkShape, AfkInv, AfkTended
    <3>3. j.user = u => \A s \in Tasks \ {t} : ~Touches(s, u)
      BY <1>6, <2>1, <3>1, AfkAlone DEF Touches
    <3>4. j.user = u => AfkFits("delete", j, u)'
      BY <1>0, <2>1, <3>1 DEF AfkFits, AfkShape
    <3>5. j.user # u => afkCache'[u] = afkCache[u]
      BY <1>0, <2>1, <3>1 DEF AfkShape
    <3>6. (j.user # u /\ \A s \in Tasks \ {t} : ~Touches(s, u)) => afkCache'[u] = afkRows'[u]
      BY <2>1, <3>1, <3>2, <3>5 DEF AfkTendedFor, Touches
    <3>7. Away!Goto(t, "delete", j)
      BY <2>1, <2>4, <3>1
    <3> QED
      BY <1>0, <2>1, <3>2, <3>3, <3>4, <3>5, <3>6, <3>7, AfkTaskStep
  <2> QED
    BY <2>3, <2>4
<1>7. ASSUME NEW t \in Tasks, Away!Delete(t), NEW u \in People, u \notin upset' PROVE AfkTendedFor(u)'
  <2>1. /\ step[t] = "delete" /\ Away!Goto(t, "idle", Away!NoJob)
        /\ afkRows' = [afkRows EXCEPT ![local[t].user] = NoNotice] /\ UNCHANGED <<afkCache, upset>>
    BY <1>7 DEF Away!Delete, Away!Finish
  <2>2. u = local[t].user => afkCache'[u] = afkRows'[u]
    BY <1>0, <1>7, <2>1, AfkAlone DEF AfkFits, AfkShape, Touches
  <2> QED
    BY <1>0, <1>2, <1>7, <2>1, <2>2 DEF AfkShape
<1>8. ASSUME NEW t \in Tasks, Away!ReadyRead(t), NEW u \in People, u \notin upset' PROVE AfkTendedFor(u)'
  <2>1. /\ step[t] = "idle" /\ Away!Goto(t, "hydrate", Away!Job(Nobody, NoNotice, afkRows))
        /\ upset' = {v \in upset : afkRows[v] = NoNotice} \cup {v \in People : Away!UnderWay(v)}
        /\ UNCHANGED <<afkRows, afkCache>>
    BY <1>8 DEF Away!ReadyRead
  <2>2. PICK j : j = Away!Job(Nobody, NoNotice, afkRows)
    OBVIOUS
  <2>3. j.rows = afkRows
    BY <2>2 DEF Away!Job
  <2>4. \A s \in Tasks : ~Touches(s, u)
    BY <1>8, <2>1 DEF Away!UnderWay, Touches
  <2>5. afkRows[u] = NoNotice => afkCache[u] = NoNotice
    BY <1>8, <2>1, <2>4 DEF AfkInv, AfkTended, AfkTendedFor
  <2>6. AfkFits("hydrate", j, u)'
    BY <2>1, <2>3, <2>5 DEF AfkFits
  <2>7. j.rows # NoSnapshot
    BY <1>0, <2>3 DEF AfkShape, AfkNotice
  <2>8. Away!Goto(t, "hydrate", j)
    BY <2>1, <2>2
  <2> QED
    BY <1>0, <2>4, <2>6, <2>7, <2>8, AfkTaskStep
<1>9. ASSUME NEW t \in Tasks, Away!ReadyInsert(t), NEW u \in People, u \notin upset' PROVE AfkTendedFor(u)'
  <2>1. /\ step[t] = "hydrate" /\ Away!Goto(t, "idle", Away!NoJob) /\ UNCHANGED <<afkRows, upset>>
        /\ afkCache'[u] = IF local[t].rows[u] = NoNotice THEN afkCache[u] ELSE local[t].rows[u]
    BY <1>9 DEF Away!ReadyInsert, Away!Finish
  <2>2. PICK j : j = Away!NoJob
    OBVIOUS
  <2>3. j.user = Nobody /\ j.rows = NoSnapshot
    BY <2>2 DEF Away!NoJob, Away!Job
  <2>4. Touches(t, u)
    BY <1>0, <2>1 DEF AfkShape, Touches
  <2>5. (\A s \in Tasks \ {t} : ~Touches(s, u)) /\ AfkFits("hydrate", local[t], u) /\ AfkTendedFor(u)
    BY <1>9, <2>1, <2>4, AfkAlone DEF AfkInv, AfkTended
  <2>6. afkCache'[u] = afkRows'[u]
    BY <2>1, <2>5 DEF AfkFits
  <2>7. Away!Goto(t, "idle", j)
    BY <2>1, <2>2
  <2> QED
    BY <1>0, <1>9, <2>3, <2>5, <2>6, <2>7, AfkTaskStep
<1>10. ASSUME Away!Crash, NEW u \in People, u \notin upset' PROVE AfkTendedFor(u)'
  <2>1. /\ afkCache'[u] = NoNotice /\ afkRows'[u] = NoNotice
        /\ \A t \in Tasks : local'[t] = Away!NoJob
    BY <1>10 DEF Away!Crash
  <2>2. \A t \in Tasks : ~Touches(t, u)'
    BY <2>1 DEF Touches, Away!NoJob, Away!Job
  <2> QED
    BY <2>1, <2>2 DEF AfkTendedFor
<1>11. CASE Away!Tick
  BY <1>11 DEF Away!Tick, AfkInv, AfkTended, AfkTendedFor, Touches, AfkFits
<1> QED
  BY <1>1, <1>3, <1>4, <1>5, <1>6, <1>7, <1>8, <1>9, <1>10, <1>11, Zenon DEF Away!Next, AfkTended

LEMMA AfkStep == AfkInv /\ [Away!Next]_Away!vars => AfkInv'
<1>1. CASE UNCHANGED Away!vars
  BY <1>1 DEF Away!vars, AfkInv, AfkShape, AfkTended, AfkTendedFor, Touches, AfkFits
<1>2. CASE Away!Next
  BY <1>2, AfkShapeStep, AfkTendedStep DEF AfkInv
<1> QED
  BY <1>1, <1>2

LEMMA AfkInit == Away!DataInit /\ Away!TaskInit => AfkInv
  BY AfkConstants DEF Away!DataInit, Away!TaskInit, AfkInv, AfkShape, AfkTended, AfkTendedFor, Touches,
     AfkFits, AfkNotice, Away!NoJob, Away!Job

(***************************************************************************)
(* The settings of Sentinel and Decancer.                                  *)
(***************************************************************************)
\* A statement and the change that follows it.
SnPart(a) ==
    /\ a = [how |-> a.how, table |-> a.table, to |-> a.to]
    /\ a.how \in {"upsert", "ensure", "update", "put", "hydrate", "reset"}
    /\ a.table \in {"sentinel", "decancer"} /\ DOMAIN a.to \subseteq Sn!FieldsOf(a.table)
    /\ a.how = "ensure" => a.table = "decancer" /\ DOMAIN a.to = {}
    /\ a.how = "update" /\ a.table = "sentinel" => \A f \in DOMAIN a.to : a.to[f] = Sn!Default[f]
    /\ a.how = "reset" => /\ a.table = "sentinel" /\ DOMAIN a.to = Sn!FieldsOf("sentinel")
                          /\ \A f \in DOMAIN a.to : a.to[f] = Sn!Default[f]

\* One that is not executed yet is about the whole row if it reads it.
SnPending(a) == SnPart(a) /\ (a.how = "hydrate" => DOMAIN a.to = Sn!FieldsOf(a.table))

\* A list of one statement, or of two about different settings.
SnAlone(parts, a) == parts = <<a>>
SnBoth(parts, a, b) ==
    /\ parts = <<a, b>> /\ SnPending(b) /\ DOMAIN a.to \cap DOMAIN b.to = {}
    /\ (a.how = "put" => b.how = "put") /\ (b.how = "update" => a.how = "ensure")

SnJob(p, j) ==
    /\ j = [parts |-> j.parts, fields |-> j.fields, before |-> j.before]
    /\ \/ p = "idle" /\ j = Sn!NoJob
       \/ /\ p \in {"write", "mirror"}
          /\ \E a : /\ IF p = "write" THEN SnPending(a) ELSE SnPart(a) /\ a.how # "ensure"
                    /\ DOMAIN a.to \subseteq j.fields
                    /\ \/ SnAlone(j.parts, a)
                       \/ \E b : SnBoth(j.parts, a, b) /\ DOMAIN b.to \subseteq j.fields

SnShape ==
    /\ exists \subseteq {"sentinel", "decancer"} /\ unsure \subseteq Sn!Settings
    /\ stored = [f \in Sn!Settings |-> stored[f]] /\ copy = [f \in Sn!Settings |-> copy[f]]
    /\ \A f \in Sn!Settings : Sn!TableOf(f) \notin exists => stored[f] = Sn!Default[f]
    /\ step = [t \in Tasks |-> step[t]] /\ local = [t \in Tasks |-> local[t]]
    /\ \A t \in Tasks : SnJob(step[t], local[t])

\* What a statement yet to be executed relies on about the setting f.
SnAwaits(a, j, f) ==
    f \in DOMAIN a.to =>
        /\ a.how \in {"put", "hydrate"} /\ f \notin j.before => copy[f] = stored[f]
        /\ a.how = "hydrate" /\ f \in j.before => Sn!TableOf(f) \in exists

\* What the next statement, or the change that follows it, relies on.
SnNext(p, a, j, f) ==
    IF p = "write"
    THEN /\ SnAwaits(a, j, f)
         /\ f \in DOMAIN a.to /\ a.how = "update" /\ a.table = "decancer" => Sn!TableOf(f) \in exists
    ELSE f \in DOMAIN a.to => a.to[f] = stored[f]

SnFits(p, j, f) ==
    \E a :
        /\ SnNext(p, a, j, f)
        /\ \/ SnAlone(j.parts, a) /\ (f \notin DOMAIN a.to => copy[f] = stored[f])
           \/ \E b : /\ SnBoth(j.parts, a, b) /\ SnAwaits(b, j, f)
                     /\ f \notin DOMAIN a.to \cup DOMAIN b.to => copy[f] = stored[f]

SnTendedFor(f) ==
    /\ \A s, t \in Tasks : f \in local[s].fields /\ f \in local[t].fields => s = t
    /\ \A t \in Tasks : f \in local[t].fields => SnFits(step[t], local[t], f)
    /\ (\A t \in Tasks : f \notin local[t].fields) => copy[f] = stored[f]

SnTended == \A f \in Sn!Settings \ unsure : SnTendedFor(f)

SnInv == SnShape /\ SnTended


\* What is asked for is a list of one or two statements that is begun at its head; the
\* ready event's read, and only they.
SnAsked(parts, ready) ==
    \E a : /\ SnPending(a) /\ (a.how = "update" => a.table = "sentinel") /\ (a.how = "hydrate" <=> ready)
           /\ \/ SnAlone(parts, a)
              \/ \E b : SnBoth(parts, a, b) /\ (b.how = "hydrate" <=> ready)

LEMMA SnSettings ==
    /\ Sn!Settings = {"enabled", "channel", "threshold", "delete", "cleaning", "log"}
    /\ Sn!FieldsOf("sentinel") = {"enabled", "channel", "threshold", "delete"}
    /\ Sn!FieldsOf("decancer") = {"cleaning", "log"}
    /\ Sn!Default["enabled"] = FALSE /\ DOMAIN Sn!Default = Sn!Settings
  BY DEF Sn!Settings, Sn!Default, Sn!FieldsOf, Sn!TableOf

\* What one statement is about, and what two are.
LEMMA SnFieldsIn ==
    /\ \A a : Sn!FieldsIn(<<a>>) = DOMAIN a.to
    /\ \A a, b : Sn!FieldsIn(<<a, b>>) = DOMAIN a.to \cup DOMAIN b.to
  BY DEF Sn!FieldsIn

\* An upsert is well formed, whichever settings of Sentinel it writes.
LEMMA SnUpsert ==
    ASSUME NEW to, DOMAIN to \subseteq Sn!FieldsOf("sentinel")
    PROVE  /\ SnPending(Sn!Upsert(to)) /\ Sn!Upsert(to).how = "upsert" /\ Sn!Upsert(to).to = to
           /\ SnAsked(<<Sn!Upsert(to)>>, FALSE) /\ Sn!FieldsIn(<<Sn!Upsert(to)>>) = DOMAIN to
<1>1. PICK a : a = Sn!Upsert(to)
  OBVIOUS
<1>2. SnPending(a) /\ a.how = "upsert" /\ a.to = to
  BY <1>1 DEF Sn!Upsert, Sn!Part, SnPending, SnPart
<1> QED
  BY <1>1, <1>2, SnFieldsIn DEF SnAsked, SnAlone

\* So is an update of Decancer after its row is ensured.
LEMMA SnUpdate ==
    ASSUME NEW to, DOMAIN to \subseteq Sn!FieldsOf("decancer")
    PROVE  SnAsked(<<Sn!Ensure, Sn!Update("decancer", to)>>, FALSE)
<1>1. PICK a, b : a = Sn!Ensure /\ b = Sn!Update("decancer", to)
  OBVIOUS
<1>2. SnPending(a) /\ SnPending(b) /\ a.how = "ensure" /\ b.how = "update" /\ DOMAIN a.to = {}
  BY <1>1 DEF Sn!Ensure, Sn!Update, Sn!Part, SnPending, SnPart
<1> QED
  BY <1>1, <1>2 DEF SnAsked, SnBoth

LEMMA SnRequested == \A parts \in Sn!Requests \cup {Sn!SettingsReset} : SnAsked(parts, FALSE)
<1>1. SnAsked(Sn!SentinelEnable, FALSE)
  BY SnUpsert, SnSettings DEF Sn!SentinelEnable
<1>2. SnAsked(Sn!SentinelDisable, FALSE)
  <2>1. PICK to : to = [enabled |-> FALSE]
    BY Zenon
  <2>2. DOMAIN to = {"enabled"} /\ to["enabled"] = FALSE
    BY <2>1
  <2>3. PICK a : a = [how |-> "update", table |-> "sentinel", to |-> to]
    OBVIOUS
  <2>4. SnPending(a) /\ a.how = "update" /\ a.table = "sentinel"
    BY <2>2, <2>3, SnSettings DEF SnPending, SnPart
  <2> QED
    BY <2>1, <2>3, <2>4 DEF Sn!SentinelDisable, Sn!Update, Sn!Part, SnAsked, SnAlone
<1>3. ASSUME NEW c PROVE SnAsked(Sn!SetLogChannel(c), FALSE)
  BY SnUpsert, SnSettings DEF Sn!SetLogChannel
<1>4. ASSUME NEW v PROVE SnAsked(Sn!SetThreshold(v), FALSE)
  BY SnUpsert, SnSettings DEF Sn!SetThreshold
<1>5. ASSUME NEW v, NEW c PROVE SnAsked(Sn!OnModal(v, c), FALSE)
  <2>1. PICK a, b : a = Sn!Upsert([threshold |-> v]) /\ b = Sn!Upsert([channel |-> c])
    OBVIOUS
  <2>2. DOMAIN [threshold |-> v] = {"threshold"} /\ DOMAIN [channel |-> c] = {"channel"}
    OBVIOUS
  <2>3. /\ SnPending(a) /\ a.how = "upsert" /\ DOMAIN a.to = {"threshold"}
        /\ SnPending(b) /\ b.how = "upsert" /\ DOMAIN b.to = {"channel"}
    BY <2>1, <2>2, SnUpsert, SnSettings
  <2>4. Sn!OnModal(v, c) = <<a, b>>
    BY <2>1 DEF Sn!OnModal
  <2> QED
    BY <2>3, <2>4 DEF SnAsked, SnBoth
<1>6. ASSUME NEW on PROVE SnAsked(Sn!SentinelDelete(on), FALSE)
  BY SnUpsert, SnSettings DEF Sn!SentinelDelete
<1>7. ASSUME NEW on PROVE SnAsked(Sn!SetDecancerEnabled(on), FALSE)
  BY SnUpdate, SnSettings DEF Sn!SetDecancerEnabled
<1>8. ASSUME NEW c PROVE SnAsked(Sn!DecancerLogs(c), FALSE)
  BY SnUpdate, SnSettings DEF Sn!DecancerLogs
<1>9. ASSUME NEW c PROVE SnAsked(Sn!SentinelDefault(c), FALSE)
  BY SnUpsert, SnSettings DEF Sn!SentinelDefault
<1>10. ASSUME NEW on, NEW c, NEW v, NEW delete, NEW clean, NEW log
       PROVE  SnAsked(Sn!PutSentinel(on, c, v, delete, clean, log), FALSE)
  <2>1. PICK a, b : /\ a = Sn!Put("sentinel", [enabled |-> on, channel |-> c, threshold |-> v, delete |-> delete])
                    /\ b = Sn!Put("decancer", [cleaning |-> clean, log |-> log])
    OBVIOUS
  <2>2. /\ SnPending(a) /\ a.how = "put" /\ DOMAIN a.to = {"enabled", "channel", "threshold", "delete"}
        /\ SnPending(b) /\ b.how = "put" /\ DOMAIN b.to = {"cleaning", "log"}
    BY <2>1, SnSettings DEF Sn!Put, Sn!Part, SnPending, SnPart
  <2> QED
    BY <2>1, <2>2 DEF Sn!PutSentinel, SnAsked, SnBoth
<1>11. SnAsked(Sn!SettingsReset, FALSE)
  <2>1. PICK a : a = Sn!Part("reset", "sentinel", Sn!Restrict(Sn!Default, Sn!FieldsOf("sentinel")))
    OBVIOUS
  <2>2. SnPending(a) /\ a.how = "reset"
    BY <2>1, SnSettings DEF Sn!Part, Sn!Restrict, SnPending, SnPart
  <2> QED
    BY <2>1, <2>2 DEF Sn!SettingsReset, SnAsked, SnAlone
<1> QED
  <2> SUFFICES ASSUME NEW parts \in Sn!Requests PROVE SnAsked(parts, FALSE)
    BY <1>11
  <2>1. CASE parts \in {Sn!SentinelEnable, Sn!SentinelDisable}
    BY <1>1, <1>2, <2>1
  <2>2. \/ parts \in {Sn!SentinelEnable, Sn!SentinelDisable}
        \/ \E c : parts = Sn!SetLogChannel(c) \/ parts = Sn!DecancerLogs(c) \/ parts = Sn!SentinelDefault(c)
        \/ \E v : parts = Sn!SetThreshold(v)
        \/ \E v, c : parts = Sn!OnModal(v, c)
        \/ \E on : parts = Sn!SentinelDelete(on) \/ parts = Sn!SetDecancerEnabled(on)
        \/ \E on, c, v : parts = Sn!PutSentinel(on, c, v, on, on, c)
    BY SMTT(30) DEF Sn!Requests
  <2> QED
    BY <1>3, <1>4, <1>5, <1>6, <1>7, <1>8, <1>9, <1>10, <2>1, <2>2, Zenon

LEMMA SnOnReady == SnAsked(Sn!OnReady, TRUE) /\ Sn!FieldsIn(Sn!OnReady) = Sn!Settings
<1>1. PICK a, b : a = Sn!Hydrate("sentinel") /\ b = Sn!Hydrate("decancer")
  OBVIOUS
<1>2. /\ SnPending(a) /\ a.how = "hydrate" /\ DOMAIN a.to = {"enabled", "channel", "threshold", "delete"}
      /\ SnPending(b) /\ b.how = "hydrate" /\ DOMAIN b.to = {"cleaning", "log"}
  BY <1>1, SnSettings DEF Sn!Hydrate, Sn!Part, Sn!Restrict, SnPending, SnPart
<1> QED
  BY <1>1, <1>2, SnFieldsIn, SnSettings DEF Sn!OnReady, SnAsked, SnBoth

LEMMA SnMoves ==
    ASSUME SnShape, NEW t \in Tasks, NEW p, NEW j, Sn!Goto(t, p, j)
    PROVE  /\ step'[t] = p /\ local'[t] = j
           /\ \A s \in Tasks \ {t} : step'[s] = step[s] /\ local'[s] = local[s]
           /\ step' = [s \in Tasks |-> step'[s]] /\ local' = [s \in Tasks |-> local'[s]]
  BY DEF SnShape, Sn!Goto

\* The task at work, and its list.
LEMMA SnAtWork ==
    ASSUME SnShape, NEW t \in Tasks, step[t] # "idle"
    PROVE  \E a : /\ SnPart(a) /\ (step[t] = "write" => SnPending(a)) /\ DOMAIN a.to \subseteq local[t].fields
                  /\ Sn!Head(local[t].parts) = a
                  /\ \/ SnAlone(local[t].parts, a)
                     \/ \E b : SnBoth(local[t].parts, a, b) /\ DOMAIN b.to \subseteq local[t].fields
<1>1. SnJob(step[t], local[t])
  BY DEF SnShape
<1>2. PICK a : /\ IF step[t] = "write" THEN SnPending(a) ELSE SnPart(a) /\ a.how # "ensure"
               /\ DOMAIN a.to \subseteq local[t].fields
               /\ \/ SnAlone(local[t].parts, a)
                  \/ \E b : SnBoth(local[t].parts, a, b) /\ DOMAIN b.to \subseteq local[t].fields
  BY <1>1, Zenon DEF SnJob
<1>3. Sn!Head(local[t].parts) = a
  BY <1>2 DEF SnAlone, SnBoth
<1>4. SnPart(a)
  BY <1>2, Zenon DEF SnPending
<1> QED
  BY <1>2, <1>3, <1>4, Zenon

\* After its head a list is done with, or goes on with the other.
LEMMA SnTail ==
    ASSUME NEW t \in Tasks, NEW a
    PROVE  /\ SnAlone(local[t].parts, a) /\ Sn!To(t, Sn!Tail(local[t].parts)) => Sn!Goto(t, "idle", Sn!NoJob)
           /\ \A b : SnBoth(local[t].parts, a, b) /\ Sn!To(t, Sn!Tail(local[t].parts)) =>
                 Sn!Goto(t, "write", [local[t] EXCEPT !.parts = <<b>>])
<1>1. ASSUME SnAlone(local[t].parts, a), Sn!To(t, Sn!Tail(local[t].parts)) PROVE Sn!Goto(t, "idle", Sn!NoJob)
  <2>1. Sn!Tail(local[t].parts) = <<>>
    BY <1>1 DEF SnAlone
  <2> QED
    BY <1>1, <2>1, Zenon DEF Sn!To
<1>2. ASSUME NEW b, SnBoth(local[t].parts, a, b), Sn!To(t, Sn!Tail(local[t].parts))
      PROVE  Sn!Goto(t, "write", [local[t] EXCEPT !.parts = <<b>>])
  <2>1. Sn!Tail(local[t].parts) = <<b>> /\ <<b>> # <<>>
    BY <1>2 DEF SnBoth
  <2> QED
    BY <1>2, <2>1, Zenon DEF Sn!To
<1> QED
  BY <1>1, <1>2

LEMMA SnTailJob ==
    ASSUME SnShape, NEW t \in Tasks, step[t] # "idle", NEW b, SnPending(b), DOMAIN b.to \subseteq local[t].fields
    PROVE  /\ SnJob("write", [local[t] EXCEPT !.parts = <<b>>])
           /\ [local[t] EXCEPT !.parts = <<b>>] = [parts |-> <<b>>, fields |-> local[t].fields, before |-> local[t].before]
<1>1. PICK l : l = local[t]
  OBVIOUS
<1>2. l = [parts |-> l.parts, fields |-> l.fields, before |-> l.before]
  BY <1>1 DEF SnShape, SnJob
<1>3. PICK j : j = [parts |-> <<b>>, fields |-> l.fields, before |-> l.before]
  OBVIOUS
<1>4. [l EXCEPT !.parts = <<b>>] = j
  BY <1>2, <1>3
<1>5. j.parts = <<b>> /\ j.fields = l.fields /\ j = [parts |-> j.parts, fields |-> j.fields, before |-> j.before]
  BY <1>3
<1>6. SnJob("write", j)
  BY <1>1, <1>5 DEF SnJob, SnAlone
<1> QED
  BY <1>1, <1>3, <1>4, <1>6

\* The next part of a list is known, and with it the job.
LEMMA SnMirrorJob ==
    ASSUME SnShape, NEW t \in Tasks, step[t] = "write", NEW a, Sn!Head(local[t].parts) = a,
           SnAlone(local[t].parts, a) \/ \E b : SnBoth(local[t].parts, a, b) /\ DOMAIN b.to \subseteq local[t].fields,
           SnPart(a), NEW to, DOMAIN to \subseteq DOMAIN a.to, DOMAIN a.to \subseteq local[t].fields, a.how = "hydrate"
    PROVE  LET j == [local[t] EXCEPT !.parts[1].to = to]
               h == [how |-> a.how, table |-> a.table, to |-> to]
           IN  /\ SnJob("mirror", j) /\ SnPart(h) /\ j.fields = local[t].fields /\ j.before = local[t].before
               /\ SnAlone(local[t].parts, a) => SnAlone(j.parts, h)
               /\ \A b : SnBoth(local[t].parts, a, b) => SnBoth(j.parts, h, b)
<1>1. PICK l : l = local[t]
  OBVIOUS
<1>2. l = [parts |-> l.parts, fields |-> l.fields, before |-> l.before]
  BY <1>1 DEF SnShape, SnJob
<1>3. PICK h : h = [how |-> a.how, table |-> a.table, to |-> to]
  OBVIOUS
<1>4. SnPart(h) /\ h.to = to /\ h.how = "hydrate"
  BY <1>3 DEF SnPart
<1>5. PICK j : j = [l EXCEPT !.parts[1].to = to]
  OBVIOUS
<1>6. j = [parts |-> [l.parts EXCEPT ![1].to = to], fields |-> l.fields, before |-> l.before]
  BY <1>2, <1>5
<1>7. j.fields = l.fields /\ j.before = l.before /\ j = [parts |-> j.parts, fields |-> j.fields, before |-> j.before]
  BY <1>6
<1>8. [a EXCEPT !.to = to] = h
  BY <1>3 DEF SnPart
<1>9. SnAlone(l.parts, a) => j.parts = <<h>>
  BY <1>6, <1>8 DEF SnAlone
<1>10. \A b : SnBoth(l.parts, a, b) => j.parts = <<h, b>>
  BY <1>6, <1>8 DEF SnBoth
<1>11. \A b : SnBoth(l.parts, a, b) => SnBoth(j.parts, h, b)
  <2> SUFFICES ASSUME NEW b, SnBoth(l.parts, a, b) PROVE SnBoth(j.parts, h, b)
    OBVIOUS
  <2>1. DOMAIN h.to \cap DOMAIN b.to = {} /\ b.how # "update" /\ SnPending(b)
    BY <1>4 DEF SnBoth
  <2> QED
    BY <1>4, <1>10, <2>1 DEF SnBoth
<1>12. SnJob("mirror", j)
  <2>1. /\ SnPart(h) /\ h.how # "ensure" /\ DOMAIN h.to \subseteq j.fields
        /\ SnAlone(j.parts, h) \/ \E b : SnBoth(j.parts, h, b) /\ DOMAIN b.to \subseteq j.fields
    BY <1>1, <1>4, <1>7, <1>9, <1>11 DEF SnAlone
  <2> QED
    BY <1>7, <2>1, Zenon DEF SnJob
<1> QED
  BY <1>1, <1>3, <1>4, <1>5, <1>7, <1>9, <1>11, <1>12 DEF SnAlone

LEMMA SnShapeKept ==
    ASSUME SnShape, NEW t \in Tasks, NEW p, NEW j, Sn!Goto(t, p, j), SnJob(p, j),
           exists' \subseteq {"sentinel", "decancer"}, unsure' \subseteq Sn!Settings,
           stored' = [f \in Sn!Settings |-> stored'[f]], copy' = [f \in Sn!Settings |-> copy'[f]],
           \A f \in Sn!Settings : Sn!TableOf(f) \notin exists' => stored'[f] = Sn!Default[f]
    PROVE  SnShape'
<1>1. /\ step'[t] = p /\ local'[t] = j
      /\ \A s \in Tasks \ {t} : step'[s] = step[s] /\ local'[s] = local[s]
      /\ step' = [s \in Tasks |-> step'[s]] /\ local' = [s \in Tasks |-> local'[s]]
  BY SnMoves
<1>2. \A s \in Tasks : SnJob(step'[s], local'[s])
  BY <1>1, Zenon DEF SnShape
<1> QED
  BY <1>1, <1>2 DEF SnShape

\* A change of some settings of a row, or of a copy.
LEMMA SnOver ==
    ASSUME NEW row, row = [f \in Sn!Settings |-> row[f]], NEW to
    PROVE  /\ Sn!Over(to, row) = [f \in Sn!Settings |-> Sn!Over(to, row)[f]]
           /\ \A f \in Sn!Settings : Sn!Over(to, row)[f] = IF f \in DOMAIN to THEN to[f] ELSE row[f]
<1>1. DOMAIN row = Sn!Settings
  <2>1. PICK S : S = Sn!Settings
    OBVIOUS
  <2>2. row = [f \in S |-> row[f]]
    BY <2>1
  <2>3. DOMAIN [f \in S |-> row[f]] = S
    OBVIOUS
  <2> QED
    BY <2>1, <2>2, <2>3, Zenon
<1> QED
  BY <1>1, Zenon DEF Sn!Over

\* What a statement does to the rows.
LEMMA SnStatement ==
    ASSUME SnShape, NEW t \in Tasks, Sn!Write(t), NEW a, Sn!Head(local[t].parts) = a, SnPart(a)
    PROVE  /\ step[t] = "write" /\ copy' = copy /\ unsure' = unsure
           /\ exists' \subseteq {"sentinel", "decancer"} /\ stored' = [f \in Sn!Settings |-> stored'[f]]
           /\ \A f \in Sn!Settings : Sn!TableOf(f) \notin exists' => stored'[f] = Sn!Default[f]
           /\ \A f \in Sn!Settings \ DOMAIN a.to :
                 stored'[f] = stored[f] /\ (Sn!TableOf(f) \in exists => Sn!TableOf(f) \in exists')
           /\ a.how # "hydrate" =>
                 \A f \in DOMAIN a.to :
                     (a.how = "update" /\ a.table = "decancer" => Sn!TableOf(f) \in exists) => stored'[f] = a.to[f]
           /\ a.how = "hydrate" => stored' = stored /\ exists' = exists
           /\ a.how = "ensure" => "decancer" \in exists'
<1>1. /\ step[t] = "write" /\ copy' = copy /\ unsure' = unsure
      /\ exists' = IF a.how \in {"upsert", "ensure", "put"} THEN exists \cup {a.table}
                   ELSE IF a.how = "reset" THEN exists \ {a.table} ELSE exists
      /\ stored' = IF a.how = "hydrate" \/ (a.how = "update" /\ a.table \notin exists)
                   THEN stored ELSE Sn!Over(a.to, stored)
  BY Zenon DEF Sn!Write, Sn!Row
<1>2. PICK o : o = Sn!Over(a.to, stored)
  OBVIOUS
<1>3. /\ o = [f \in Sn!Settings |-> o[f]]
      /\ \A f \in Sn!Settings : o[f] = IF f \in DOMAIN a.to THEN a.to[f] ELSE stored[f]
  <2>1. stored = [f \in Sn!Settings |-> stored[f]]
    BY DEF SnShape
  <2>2. PICK to : to = a.to
    OBVIOUS
  <2>3. /\ Sn!Over(to, stored) = [f \in Sn!Settings |-> Sn!Over(to, stored)[f]]
        /\ \A f \in Sn!Settings : Sn!Over(to, stored)[f] = IF f \in DOMAIN to THEN to[f] ELSE stored[f]
    BY <2>1, SnOver
  <2> QED
    BY <1>2, <2>2, <2>3, Zenon
<1>4. exists' \subseteq {"sentinel", "decancer"}
  BY <1>1 DEF SnShape, SnPart
<1>5. stored' = [f \in Sn!Settings |-> stored'[f]]
  BY <1>1, <1>2, <1>3, Zenon DEF SnShape
<1>6. \A f : f \in DOMAIN a.to => f \in Sn!Settings /\ Sn!TableOf(f) = a.table
  BY DEF SnPart, Sn!FieldsOf
<1>7. a.how = "reset" => \A f \in Sn!Settings : Sn!TableOf(f) = a.table => f \in DOMAIN a.to /\ a.to[f] = Sn!Default[f]
  BY DEF SnPart, Sn!FieldsOf
<1>8. \A f \in Sn!Settings \ DOMAIN a.to :
         stored'[f] = stored[f] /\ (Sn!TableOf(f) \in exists => Sn!TableOf(f) \in exists')
  BY <1>1, <1>2, <1>3, <1>7
<1>9. ASSUME a.how # "hydrate", NEW f \in DOMAIN a.to,
             a.how = "update" /\ a.table = "decancer" => Sn!TableOf(f) \in exists
      PROVE  stored'[f] = a.to[f]
  <2>1. f \in Sn!Settings /\ Sn!TableOf(f) = a.table
    BY <1>6
  <2>2. CASE a.how = "update" /\ a.table \notin exists
    <3>1. a.table = "sentinel"
      BY <1>9, <2>1, <2>2 DEF SnPart
    <3>2. a.to[f] = Sn!Default[f]
      BY <2>2, <3>1 DEF SnPart
    <3>3. stored[f] = Sn!Default[f]
      BY <2>1, <2>2 DEF SnShape
    <3> QED
      BY <1>1, <2>2, <3>2, <3>3
  <2>3. CASE ~(a.how = "update" /\ a.table \notin exists)
    BY <1>1, <1>2, <1>3, <1>9, <2>1, <2>3
  <2> QED
    BY <2>2, <2>3
<1>10. ASSUME NEW f \in Sn!Settings, Sn!TableOf(f) \notin exists' PROVE stored'[f] = Sn!Default[f]
  <2>1. CASE a.how = "reset" /\ Sn!TableOf(f) = a.table
    BY <1>1, <1>2, <1>3, <1>7, <2>1
  <2>2. CASE ~(a.how = "reset" /\ Sn!TableOf(f) = a.table)
    <3>1. Sn!TableOf(f) \notin exists
      BY <1>1, <1>10, <2>2
    <3>2. stored[f] = Sn!Default[f]
      BY <3>1 DEF SnShape
    <3>3. CASE f \in DOMAIN a.to
      <4>1. Sn!TableOf(f) = a.table
        BY <1>6, <3>3
      <4>2. a.how \in {"hydrate", "update"}
        BY <1>1, <1>10, <2>2, <4>1 DEF SnPart
      <4> QED
        BY <1>1, <3>1, <3>2, <4>1, <4>2
    <3>4. CASE f \notin DOMAIN a.to
      BY <1>8, <3>2, <3>4
    <3> QED
      BY <3>3, <3>4
  <2> QED
    BY <2>1, <2>2
<1>11. a.how = "ensure" => "decancer" \in exists'
  BY <1>1 DEF SnPart
<1> QED
  BY <1>1, <1>4, <1>5, <1>8, <1>9, <1>10, <1>11

LEMMA SnIdleJob == SnJob("idle", Sn!NoJob) /\ Sn!NoJob.fields = {}
  BY DEF SnJob, Sn!NoJob

LEMMA SnToMirror ==
    ASSUME SnShape, NEW t \in Tasks, step[t] = "write", Sn!Head(local[t].parts).how # "ensure"
    PROVE  SnJob("mirror", local[t])
<1>1. PICK l : l = local[t]
  OBVIOUS
<1>2. SnJob("write", l)
  BY <1>1 DEF SnShape
<1>3. PICK a : /\ SnPending(a) /\ DOMAIN a.to \subseteq l.fields
               /\ SnAlone(l.parts, a) \/ \E b : SnBoth(l.parts, a, b) /\ DOMAIN b.to \subseteq l.fields
  BY <1>2, Zenon DEF SnJob
<1>4. Sn!Head(l.parts) = a
  BY <1>3 DEF SnAlone, SnBoth
<1>5. SnPart(a) /\ a.how # "ensure"
  BY <1>1, <1>3, <1>4 DEF SnPending
<1> QED
  BY <1>1, <1>2, <1>3, <1>5, Zenon DEF SnJob

\* What the hydration found is about no more than it read.
LEMMA SnFound ==
    ASSUME SnShape, NEW a, SnPending(a), a.how = "hydrate", NEW to,
           to = <<>> \/ to = Sn!Restrict(stored, Sn!FieldsOf(a.table))
    PROVE  DOMAIN to \subseteq DOMAIN a.to
  BY DEF SnPending, SnPart, Sn!Restrict

\* A task goes on after its statement, or the failure of one.
LEMMA SnGoesOn ==
    ASSUME SnShape, NEW t \in Tasks, step[t] # "idle",
           exists' \subseteq {"sentinel", "decancer"}, unsure' \subseteq Sn!Settings,
           stored' = [f \in Sn!Settings |-> stored'[f]], copy' = [f \in Sn!Settings |-> copy'[f]],
           \A f \in Sn!Settings : Sn!TableOf(f) \notin exists' => stored'[f] = Sn!Default[f],
           \/ Sn!To(t, Sn!Tail(local[t].parts))
           \/ step[t] = "write" /\ Sn!Head(local[t].parts).how # "ensure" /\ Sn!Goto(t, "mirror", local[t])
           \/ /\ step[t] = "write" /\ Sn!Head(local[t].parts).how = "hydrate"
              /\ \E to : /\ Sn!Goto(t, "mirror", [local[t] EXCEPT !.parts[1].to = to])
                         /\ to = <<>> \/ to = Sn!Restrict(stored, Sn!FieldsOf(Sn!Head(local[t].parts).table))
           \/ Sn!Goto(t, "idle", Sn!NoJob)
    PROVE  SnShape'
<1>1. PICK a : /\ SnPart(a) /\ (step[t] = "write" => SnPending(a)) /\ DOMAIN a.to \subseteq local[t].fields
               /\ Sn!Head(local[t].parts) = a
               /\ \/ SnAlone(local[t].parts, a)
                  \/ \E b : SnBoth(local[t].parts, a, b) /\ DOMAIN b.to \subseteq local[t].fields
  BY SnAtWork
<1>2. CASE Sn!Goto(t, "idle", Sn!NoJob)
  BY <1>2, SnIdleJob, SnShapeKept
<1>3. CASE Sn!To(t, Sn!Tail(local[t].parts))
  <2>1. CASE SnAlone(local[t].parts, a)
    BY <1>2, <1>3, <2>1, SnTail
  <2>2. CASE \E b : SnBoth(local[t].parts, a, b) /\ DOMAIN b.to \subseteq local[t].fields
    <3>1. PICK b : SnBoth(local[t].parts, a, b) /\ DOMAIN b.to \subseteq local[t].fields
      BY <2>2
    <3>2. PICK j : j = [local[t] EXCEPT !.parts = <<b>>]
      OBVIOUS
    <3>3. SnPending(b)
      BY <3>1 DEF SnBoth
    <3>4. SnJob("write", j)
      BY <3>1, <3>2, <3>3, SnTailJob
    <3>5. Sn!Goto(t, "write", j)
      BY <1>3, <3>1, <3>2, SnTail, Zenon
    <3> QED
      BY <3>4, <3>5, SnShapeKept
  <2> QED
    BY <1>1, <2>1, <2>2
<1>4. CASE step[t] = "write" /\ Sn!Head(local[t].parts).how # "ensure" /\ Sn!Goto(t, "mirror", local[t])
  BY <1>4, SnToMirror, SnShapeKept
<1>5. ASSUME step[t] = "write", a.how = "hydrate", NEW to,
             Sn!Goto(t, "mirror", [local[t] EXCEPT !.parts[1].to = to]),
             to = <<>> \/ to = Sn!Restrict(stored, Sn!FieldsOf(a.table))
      PROVE  SnShape'
  <2>1. DOMAIN to \subseteq DOMAIN a.to
    BY <1>1, <1>5, SnFound
  <2>2. PICK j : j = [local[t] EXCEPT !.parts[1].to = to]
    OBVIOUS
  <2>3. SnJob("mirror", j)
    BY <1>1, <1>5, <2>1, <2>2, SnMirrorJob
  <2> QED
    BY <1>5, <2>2, <2>3, SnShapeKept
<1> QED
  BY <1>1, <1>2, <1>3, <1>4, <1>5, Zenon

LEMMA SnBeginJob ==
    ASSUME NEW parts, NEW ready, SnAsked(parts, ready), NEW before
    PROVE  SnJob("write", [parts |-> parts, fields |-> Sn!FieldsIn(parts), before |-> before])
<1>1. PICK a : /\ SnPending(a)
               /\ SnAlone(parts, a) \/ \E b : SnBoth(parts, a, b)
  BY Zenon DEF SnAsked
<1>2. PICK j : j = [parts |-> parts, fields |-> Sn!FieldsIn(parts), before |-> before]
  OBVIOUS
<1>3. /\ j.parts = parts /\ j.fields = Sn!FieldsIn(parts)
      /\ j = [parts |-> j.parts, fields |-> j.fields, before |-> j.before]
  BY <1>2
<1>4. CASE SnAlone(parts, a)
  <2>1. DOMAIN a.to = j.fields
    BY <1>3, <1>4, SnFieldsIn DEF SnAlone
  <2> QED
    BY <1>1, <1>2, <1>3, <1>4, <2>1 DEF SnJob
<1>5. ASSUME NEW b, SnBoth(parts, a, b)
      PROVE  SnJob("write", j)
  <2>1. DOMAIN a.to \cup DOMAIN b.to = j.fields
    BY <1>3, <1>5, SnFieldsIn DEF SnBoth
  <2> QED
    BY <1>1, <1>2, <1>3, <1>5, <2>1 DEF SnJob
<1> QED
  BY <1>1, <1>2, <1>4, <1>5

LEMMA SnShapeStep == ASSUME SnShape, Sn!Next PROVE SnShape'
<1> USE DEF Sn!Spend
<1>0. /\ exists \subseteq {"sentinel", "decancer"} /\ unsure \subseteq Sn!Settings
      /\ stored = [f \in Sn!Settings |-> stored[f]] /\ copy = [f \in Sn!Settings |-> copy[f]]
      /\ \A f \in Sn!Settings : Sn!TableOf(f) \notin exists => stored[f] = Sn!Default[f]
  BY DEF SnShape
<1>1. ASSUME NEW t \in Tasks, NEW parts, NEW sure, NEW ready, SnAsked(parts, ready), Sn!Begin(t, parts, sure)
      PROVE  SnShape'
  <2>1. PICK j : j = [parts |-> parts, fields |-> Sn!FieldsIn(parts), before |-> unsure]
    OBVIOUS
  <2>2. SnJob("write", j)
    BY <1>1, <2>1, SnBeginJob
  <2>3. /\ Sn!Goto(t, "write", j) /\ exists' = exists /\ stored' = stored /\ copy' = copy
        /\ unsure' = (unsure \ sure) \cup {f \in Sn!FieldsIn(parts) : Sn!UnderWay(f)}
    BY <1>1, <2>1, Zenon DEF Sn!Begin
  <2>4. Sn!FieldsIn(parts) \subseteq Sn!Settings
    <3>1. PICK a : SnPending(a) /\ (SnAlone(parts, a) \/ \E b : SnBoth(parts, a, b))
      BY <1>1, Zenon DEF SnAsked
    <3>2. \A b : SnPending(b) => DOMAIN b.to \subseteq Sn!Settings
      BY DEF SnPending, SnPart, Sn!FieldsOf
    <3>3. ASSUME NEW b, SnBoth(parts, a, b) PROVE SnPending(b)
      BY <3>3 DEF SnBoth
    <3> QED
      BY <3>1, <3>2, <3>3, SnFieldsIn DEF SnAlone, SnBoth
  <2>5. unsure' \subseteq Sn!Settings
    BY <1>0, <2>3, <2>4
  <2> QED
    BY <1>0, <2>2, <2>3, <2>5, SnShapeKept
<1>2. ASSUME NEW t \in Tasks, Sn!Change(t) PROVE SnShape'
  <2>1. PICK parts \in Sn!Requests \cup {Sn!SettingsReset} : Sn!Begin(t, parts, Sn!FieldsIn(parts))
    BY <1>2, Zenon DEF Sn!Change
  <2> QED
    BY <1>1, <2>1, SnRequested
<1>3. ASSUME NEW t \in Tasks, Sn!Ready(t) PROVE SnShape'
  BY <1>1, <1>3, SnOnReady DEF Sn!Ready
<1>4. ASSUME NEW t \in Tasks, Sn!Write(t) PROVE SnShape'
  <2>1. step[t] = "write"
    BY <1>4 DEF Sn!Write
  <2>2. PICK a : SnPart(a) /\ Sn!Head(local[t].parts) = a
    BY <2>1, SnAtWork
  <2>3. /\ copy' = copy /\ unsure' = unsure
        /\ exists' \subseteq {"sentinel", "decancer"} /\ stored' = [f \in Sn!Settings |-> stored'[f]]
        /\ \A f \in Sn!Settings : Sn!TableOf(f) \notin exists' => stored'[f] = Sn!Default[f]
    BY <1>4, <2>2, SnStatement
  <2>4. \/ Sn!To(t, Sn!Tail(local[t].parts))
        \/ a.how # "ensure" /\ Sn!Goto(t, "mirror", local[t])
        \/ /\ a.how = "hydrate"
           /\ \E to : /\ Sn!Goto(t, "mirror", [local[t] EXCEPT !.parts[1].to = to])
                      /\ to = <<>> \/ to = Sn!Restrict(stored, Sn!FieldsOf(a.table))
    <3>1. IF a.how = "ensure" THEN Sn!To(t, Sn!Tail(local[t].parts))
          ELSE IF a.how = "hydrate"
          THEN Sn!Goto(t, "mirror", [local[t] EXCEPT !.parts[1].to =
                   IF a.table \in exists THEN Sn!Restrict(stored, Sn!FieldsOf(a.table)) ELSE <<>>])
          ELSE Sn!Goto(t, "mirror", local[t])
      BY <1>4, <2>2, Zenon DEF Sn!Write
    <3>2. PICK to : to = IF a.table \in exists THEN Sn!Restrict(stored, Sn!FieldsOf(a.table)) ELSE <<>>
      OBVIOUS
    <3>3. to = <<>> \/ to = Sn!Restrict(stored, Sn!FieldsOf(a.table))
      BY <3>2
    <3> QED
      BY <3>1, <3>2, <3>3, Zenon
  <2> QED
    BY <1>0, <2>1, <2>2, <2>3, <2>4, SnGoesOn
<1>5. ASSUME NEW t \in Tasks, Sn!WriteFails(t) PROVE SnShape'
  <2>1. step[t] = "write" /\ exists' = exists /\ stored' = stored /\ copy' = copy
    BY <1>5 DEF Sn!WriteFails
  <2>2. unsure' \subseteq Sn!Settings
    <3>1. local[t].before \cap Sn!FieldsIn(local[t].parts) \subseteq Sn!Settings
          /\ Sn!FieldsIn(local[t].parts) \subseteq Sn!Settings
      <4>1. PICK a : SnPart(a) /\ (SnAlone(local[t].parts, a) \/ \E b : SnBoth(local[t].parts, a, b))
        BY <2>1, SnAtWork, Zenon
      <4>2. \A b : SnPart(b) => DOMAIN b.to \subseteq Sn!Settings
        BY DEF SnPart, Sn!FieldsOf
      <4>3. ASSUME NEW b, SnBoth(local[t].parts, a, b) PROVE SnPart(b)
        BY <4>3 DEF SnBoth, SnPending
      <4> QED
        BY <4>1, <4>2, <4>3, SnFieldsIn DEF SnAlone, SnBoth
    <3> QED
      BY <1>0, <1>5, <3>1 DEF Sn!WriteFails
  <2>3. \/ Sn!To(t, Sn!Tail(local[t].parts))
        \/ Sn!Head(local[t].parts).how # "ensure" /\ Sn!Goto(t, "mirror", local[t])
        \/ Sn!Goto(t, "idle", Sn!NoJob)
        \/ /\ Sn!Head(local[t].parts).how = "hydrate"
           /\ Sn!Goto(t, "mirror", [local[t] EXCEPT !.parts[1].to = <<>>])
    BY <1>5, Zenon DEF Sn!WriteFails
  <2> QED
    BY <1>0, <2>1, <2>2, <2>3, SnGoesOn
<1>6. ASSUME NEW t \in Tasks, Sn!Mirror(t) PROVE SnShape'
  <2>1. PICK a : SnPart(a) /\ Sn!Head(local[t].parts) = a
    BY <1>6, SnAtWork DEF Sn!Mirror
  <2>2. /\ step[t] = "mirror" /\ exists' = exists /\ stored' = stored /\ Sn!To(t, Sn!Tail(local[t].parts))
        /\ copy' = Sn!Over(Sn!Mirrored(a), copy)
        /\ unsure' = unsure \cup (DOMAIN a.to \ DOMAIN Sn!Mirrored(a))
    BY <1>6, <2>1, Zenon DEF Sn!Mirror
  <2>3. copy' = [f \in Sn!Settings |-> copy'[f]]
    BY <1>0, <2>2, SnOver
  <2>4. unsure' \subseteq Sn!Settings
    BY <1>0, <2>1, <2>2 DEF SnPart, Sn!FieldsOf
  <2> QED
    BY <1>0, <2>2, <2>3, <2>4, SnGoesOn
<1>7. CASE Sn!Crash
  <2>1. /\ step' = [t \in Tasks |-> "idle"] /\ local' = [t \in Tasks |-> Sn!NoJob]
        /\ exists' = exists /\ stored' = stored /\ copy' = Sn!Default
        /\ unsure' = {f \in Sn!Settings : stored[f] # Sn!Default[f]}
    BY <1>7 DEF Sn!Crash
  <2>2. Sn!Default = [f \in Sn!Settings |-> Sn!Default[f]]
    BY DEF Sn!Default, Sn!Settings
  <2>3. \A t \in Tasks : SnJob(step'[t], local'[t])
    BY <2>1, SnIdleJob, Zenon
  <2>4. step' = [t \in Tasks |-> step'[t]] /\ local' = [t \in Tasks |-> local'[t]]
    BY <2>1
  <2> QED
    BY <1>0, <2>1, <2>2, <2>3, <2>4 DEF SnShape
<1> QED
  BY <1>2, <1>3, <1>4, <1>5, <1>6, <1>7, Zenon DEF Sn!Next

\* A step of one task, about one setting.
LEMMA SnTaskStep ==
    ASSUME SnShape, NEW t \in Tasks, NEW p, NEW j, Sn!Goto(t, p, j), NEW f, SnTendedFor(f),
           f \in j.fields => f \in local[t].fields,
           f \in local[t].fields => /\ f \in j.fields => SnFits(p, j, f)'
                                    /\ f \notin j.fields => copy'[f] = stored'[f],
           f \notin local[t].fields => /\ stored'[f] = stored[f] /\ copy'[f] = copy[f]
                                       /\ Sn!TableOf(f) \in exists => Sn!TableOf(f) \in exists'
    PROVE  SnTendedFor(f)'
<1>1. /\ step'[t] = p /\ local'[t] = j
      /\ \A s \in Tasks \ {t} : step'[s] = step[s] /\ local'[s] = local[s]
  BY SnMoves
<1>2. \A s, r \in Tasks : f \in local'[s].fields /\ f \in local'[r].fields => s = r
  BY <1>1 DEF SnTendedFor
<1>3. ASSUME NEW s \in Tasks, f \in local'[s].fields PROVE SnFits(step[s], local[s], f)'
  <2>1. CASE s = t
    BY <1>1, <1>3, <2>1 DEF SnFits, SnNext, SnAwaits
  <2>2. CASE s # t
    <3>1. step'[s] = step[s] /\ local'[s] = local[s]
      BY <1>1, <2>2
    <3>2. f \notin local[t].fields /\ SnFits(step[s], local[s], f)
      BY <1>3, <2>2, <3>1 DEF SnTendedFor
    <3>3. /\ stored'[f] = stored[f] /\ copy'[f] = copy[f]
          /\ Sn!TableOf(f) \in exists => Sn!TableOf(f) \in exists'
      BY <3>2
    <3>4. PICK k, q : k = local[s] /\ q = step[s]
      OBVIOUS
    <3>5. \A a : (SnAwaits(a, k, f) => SnAwaits(a, k, f)') /\ (SnNext(q, a, k, f) => SnNext(q, a, k, f)')
      BY <3>3 DEF SnAwaits, SnNext
    <3>6. SnFits(q, k, f) => SnFits(q, k, f)'
      BY <3>3, <3>5, Zenon DEF SnFits
    <3> QED
      BY <3>1, <3>2, <3>4, <3>6
  <2> QED
    BY <2>1, <2>2
<1>4. (\A s \in Tasks : f \notin local'[s].fields) => copy'[f] = stored'[f]
  <2>1. CASE f \in local[t].fields
    BY <1>1, <2>1
  <2>2. CASE f \notin local[t].fields
    <3>1. (\A s \in Tasks : f \notin local'[s].fields) => \A s \in Tasks : f \notin local[s].fields
      BY <1>1, <2>2
    <3> QED
      BY <2>2, <3>1 DEF SnTendedFor
  <2> QED
    BY <2>1, <2>2
<1> QED
  BY <1>2, <1>3, <1>4 DEF SnTendedFor

\* What the next statement relies on, at the head that is there.
LEMMA SnFitsAt ==
    ASSUME SnShape, NEW t \in Tasks, step[t] # "idle", NEW f, SnFits(step[t], local[t], f)
    PROVE  \E a : /\ SnPart(a) /\ (step[t] = "write" => SnPending(a)) /\ Sn!Head(local[t].parts) = a
                  /\ DOMAIN a.to \subseteq local[t].fields /\ SnNext(step[t], a, local[t], f)
                  /\ \/ SnAlone(local[t].parts, a) /\ (f \notin DOMAIN a.to => copy[f] = stored[f])
                     \/ \E b : /\ SnBoth(local[t].parts, a, b) /\ SnAwaits(b, local[t], f)
                               /\ DOMAIN b.to \subseteq local[t].fields
                               /\ f \notin DOMAIN a.to \cup DOMAIN b.to => copy[f] = stored[f]
<1>1. PICK a : /\ SnPart(a) /\ (step[t] = "write" => SnPending(a)) /\ DOMAIN a.to \subseteq local[t].fields
               /\ Sn!Head(local[t].parts) = a
               /\ \/ SnAlone(local[t].parts, a)
                  \/ \E b : SnBoth(local[t].parts, a, b) /\ DOMAIN b.to \subseteq local[t].fields
  BY SnAtWork
<1>2. PICK c : /\ SnNext(step[t], c, local[t], f)
               /\ \/ SnAlone(local[t].parts, c) /\ (f \notin DOMAIN c.to => copy[f] = stored[f])
                  \/ \E b : /\ SnBoth(local[t].parts, c, b) /\ SnAwaits(b, local[t], f)
                            /\ f \notin DOMAIN c.to \cup DOMAIN b.to => copy[f] = stored[f]
  BY Zenon DEF SnFits
<1>3. c = a
  BY <1>1, <1>2 DEF SnAlone, SnBoth
<1>4. \A b, d : SnBoth(local[t].parts, a, b) /\ SnBoth(local[t].parts, a, d) => b = d
  BY DEF SnBoth
<1>5. \A b : ~(SnAlone(local[t].parts, a) /\ SnBoth(local[t].parts, a, b))
  BY DEF SnAlone, SnBoth
<1> QED
  BY <1>1, <1>2, <1>3, <1>4, <1>5, Zenon

\* The task goes on with the second of two.
LEMMA SnSecond ==
    ASSUME SnShape, NEW t \in Tasks, step[t] # "idle", NEW a, NEW b, SnBoth(local[t].parts, a, b),
           DOMAIN b.to \subseteq local[t].fields, Sn!To(t, Sn!Tail(local[t].parts)), NEW f, SnTendedFor(f),
           f \in local[t].fields =>
               /\ f \in DOMAIN b.to =>
                     /\ b.how \in {"put", "hydrate"} /\ f \notin local[t].before => copy'[f] = stored'[f]
                     /\ b.how = "hydrate" /\ f \in local[t].before => Sn!TableOf(f) \in exists'
                     /\ b.how = "update" /\ b.table = "decancer" => Sn!TableOf(f) \in exists'
               /\ f \notin DOMAIN b.to => copy'[f] = stored'[f],
           f \notin local[t].fields => /\ stored'[f] = stored[f] /\ copy'[f] = copy[f]
                                       /\ Sn!TableOf(f) \in exists => Sn!TableOf(f) \in exists'
    PROVE  SnTendedFor(f)'
<1>1. PICK j : j = [local[t] EXCEPT !.parts = <<b>>]
  OBVIOUS
<1>2. SnPending(b)
  BY DEF SnBoth
<1>3. Sn!Goto(t, "write", j)
  BY <1>1, SnTail, Zenon
<1>4. j = [parts |-> <<b>>, fields |-> local[t].fields, before |-> local[t].before]
  BY <1>1, <1>2, SnTailJob
<1>5. j.parts = <<b>> /\ j.fields = local[t].fields /\ j.before = local[t].before
  BY <1>4
<1>6. f \in local[t].fields => SnFits("write", j, f)'
  BY <1>5 DEF SnFits, SnNext, SnAwaits, SnAlone
<1> QED
  BY <1>3, <1>5, <1>6, SnTaskStep

\* The task is through.
LEMMA SnThrough ==
    ASSUME SnShape, NEW t \in Tasks, Sn!Goto(t, "idle", Sn!NoJob), NEW f, SnTendedFor(f),
           f \in local[t].fields => copy'[f] = stored'[f],
           f \notin local[t].fields => /\ stored'[f] = stored[f] /\ copy'[f] = copy[f]
                                       /\ Sn!TableOf(f) \in exists => Sn!TableOf(f) \in exists'
    PROVE  SnTendedFor(f)'
<1>1. PICK j : j = Sn!NoJob
  OBVIOUS
<1>2. j.fields = {}
  BY <1>1, SnIdleJob
<1> QED
  BY <1>1, <1>2, SnTaskStep

LEMMA SnWriteTended ==
    ASSUME SnInv, NEW t \in Tasks, Sn!Write(t), NEW f \in Sn!Settings, f \notin unsure
    PROVE  SnTendedFor(f)'
<1>0. SnShape /\ SnTendedFor(f) /\ step[t] = "write"
  BY DEF SnInv, SnTended, Sn!Write
<1>1. PICK a : /\ SnPending(a) /\ SnPart(a) /\ Sn!Head(local[t].parts) = a /\ DOMAIN a.to \subseteq local[t].fields
               /\ f \in local[t].fields => SnNext("write", a, local[t], f)
               /\ \/ SnAlone(local[t].parts, a) /\ (f \in local[t].fields /\ f \notin DOMAIN a.to => copy[f] = stored[f])
                  \/ \E b : /\ SnBoth(local[t].parts, a, b) /\ DOMAIN b.to \subseteq local[t].fields
                            /\ f \in local[t].fields =>
                                  /\ SnAwaits(b, local[t], f)
                                  /\ f \notin DOMAIN a.to \cup DOMAIN b.to => copy[f] = stored[f]
  <2>1. CASE f \in local[t].fields
    <3>1. SnFits(step[t], local[t], f)
      BY <1>0, <2>1 DEF SnTendedFor
    <3> QED
      BY <1>0, <2>1, <3>1, SnFitsAt, Zenon
  <2>2. CASE f \notin local[t].fields
    BY <1>0, <2>2, SnAtWork, Zenon
  <2> QED
    BY <2>1, <2>2
<1>2. /\ copy' = copy
      /\ \A g \in Sn!Settings \ DOMAIN a.to :
            stored'[g] = stored[g] /\ (Sn!TableOf(g) \in exists => Sn!TableOf(g) \in exists')
      /\ a.how # "hydrate" =>
            \A g \in DOMAIN a.to :
                (a.how = "update" /\ a.table = "decancer" => Sn!TableOf(g) \in exists) => stored'[g] = a.to[g]
      /\ a.how = "hydrate" => stored' = stored /\ exists' = exists
      /\ a.how = "ensure" => "decancer" \in exists'
  BY <1>0, <1>1, SnStatement
<1>3. f \notin local[t].fields => /\ stored'[f] = stored[f] /\ copy'[f] = copy[f]
                                  /\ Sn!TableOf(f) \in exists => Sn!TableOf(f) \in exists'
  BY <1>1, <1>2
<1>4. IF a.how = "ensure" THEN Sn!To(t, Sn!Tail(local[t].parts))
      ELSE IF a.how = "hydrate"
      THEN Sn!Goto(t, "mirror", [local[t] EXCEPT !.parts[1].to =
               IF a.table \in exists THEN Sn!Restrict(stored, Sn!FieldsOf(a.table)) ELSE <<>>])
      ELSE Sn!Goto(t, "mirror", local[t])
  BY <1>1, Zenon DEF Sn!Write
<1>5. CASE a.how = "ensure"
  <2>1. DOMAIN a.to = {}
    BY <1>1, <1>5 DEF SnPart
  <2>2. CASE SnAlone(local[t].parts, a) /\ (f \in local[t].fields /\ f \notin DOMAIN a.to => copy[f] = stored[f])
    <3>1. Sn!Goto(t, "idle", Sn!NoJob)
      BY <1>4, <1>5, <2>2, SnTail
    <3> QED
      BY <1>0, <1>2, <1>3, <2>1, <2>2, <3>1, SnThrough
  <2>3. ASSUME NEW b, SnBoth(local[t].parts, a, b), DOMAIN b.to \subseteq local[t].fields,
               f \in local[t].fields => /\ SnAwaits(b, local[t], f)
                                        /\ f \notin DOMAIN a.to \cup DOMAIN b.to => copy[f] = stored[f]
        PROVE  SnTendedFor(f)'
    <3>1. f \in DOMAIN b.to => Sn!TableOf(f) = b.table
      BY <2>3 DEF SnBoth, SnPending, SnPart, Sn!FieldsOf
    <3>2. stored'[f] = stored[f] /\ (Sn!TableOf(f) \in exists => Sn!TableOf(f) \in exists')
      BY <1>2, <2>1
    <3>3. f \in local[t].fields =>
               /\ f \in DOMAIN b.to =>
                     /\ b.how \in {"put", "hydrate"} /\ f \notin local[t].before => copy'[f] = stored'[f]
                     /\ b.how = "hydrate" /\ f \in local[t].before => Sn!TableOf(f) \in exists'
                     /\ b.how = "update" /\ b.table = "decancer" => Sn!TableOf(f) \in exists'
               /\ f \notin DOMAIN b.to => copy'[f] = stored'[f]
      BY <1>2, <1>5, <2>1, <2>3, <3>1, <3>2 DEF SnAwaits
    <3> QED
      BY <1>0, <1>3, <1>4, <1>5, <2>3, <3>3, SnSecond
  <2> QED
    BY <1>1, <2>2, <2>3
<1>6. CASE a.how = "hydrate"
  <2>1. PICK to : to = IF a.table \in exists THEN Sn!Restrict(stored, Sn!FieldsOf(a.table)) ELSE <<>>
    OBVIOUS
  <2>2. DOMAIN to \subseteq DOMAIN a.to
    BY <1>0, <1>1, <1>6, <2>1, SnFound
  <2>3. PICK j, h : /\ j = [local[t] EXCEPT !.parts[1].to = to]
                    /\ h = [how |-> a.how, table |-> a.table, to |-> to]
    OBVIOUS
  <2>4. /\ j.fields = local[t].fields /\ j.before = local[t].before /\ h.to = to
        /\ SnAlone(local[t].parts, a) => SnAlone(j.parts, h)
        /\ \A b : SnBoth(local[t].parts, a, b) => SnBoth(j.parts, h, b)
    BY <1>0, <1>1, <1>6, <2>2, <2>3, SnMirrorJob
  <2>5. Sn!Goto(t, "mirror", j)
    BY <1>4, <1>6, <2>1, <2>3
  <2>6. f \in DOMAIN to => to[f] = stored[f]
    BY <2>1 DEF Sn!Restrict
  <2>7. f \in local[t].fields /\ f \in DOMAIN a.to /\ f \notin DOMAIN to => copy[f] = stored[f]
    <3>1. f \in DOMAIN a.to => Sn!TableOf(f) = a.table /\ f \in Sn!FieldsOf(a.table)
      BY <1>1 DEF SnPart, Sn!FieldsOf
    <3>2. f \in DOMAIN a.to /\ f \notin DOMAIN to => a.table \notin exists
      BY <2>1, <3>1 DEF Sn!Restrict
    <3> QED
      BY <1>1, <1>6, <3>1, <3>2 DEF SnNext, SnAwaits
  <2>8. SnNext("mirror", h, j, f)'
    BY <1>2, <1>6, <2>4, <2>6 DEF SnNext
  <2>9. f \in local[t].fields => SnFits("mirror", j, f)'
    <3>1. CASE SnAlone(local[t].parts, a) /\ (f \in local[t].fields /\ f \notin DOMAIN a.to => copy[f] = stored[f])
      BY <1>2, <1>6, <2>4, <2>7, <2>8, <3>1, Zenon DEF SnFits
    <3>2. ASSUME f \in local[t].fields, NEW b, SnBoth(local[t].parts, a, b), SnAwaits(b, local[t], f),
                 f \notin DOMAIN a.to \cup DOMAIN b.to => copy[f] = stored[f]
          PROVE  SnFits("mirror", j, f)'
      <4>1. SnBoth(j.parts, h, b) /\ SnAwaits(b, j, f)'
        BY <1>2, <1>6, <2>4, <3>2 DEF SnAwaits
      <4>2. (f \notin DOMAIN h.to \cup DOMAIN b.to => copy[f] = stored[f])'
        BY <1>2, <1>6, <2>4, <2>7, <3>2
      <4> QED
        BY <2>8, <4>1, <4>2, Zenon DEF SnFits
    <3> QED
      BY <1>1, <3>1, <3>2
  <2> QED
    BY <1>0, <1>3, <2>4, <2>5, <2>9, SnTaskStep
<1>7. CASE a.how \notin {"ensure", "hydrate"}
  <2>1. PICK j : j = local[t]
    OBVIOUS
  <2>2. f \in j.fields => SnNext("mirror", a, j, f)'
    BY <1>1, <1>2, <1>7, <2>1 DEF SnNext
  <2>3. f \in j.fields => SnFits("mirror", j, f)'
    <3>1. CASE SnAlone(j.parts, a) /\ (f \in j.fields /\ f \notin DOMAIN a.to => copy[f] = stored[f])
      <4>1. f \in j.fields => (f \notin DOMAIN a.to => copy[f] = stored[f])'
        BY <1>2, <3>1
      <4> QED
        BY <2>2, <3>1, <4>1, Zenon DEF SnFits
    <3>2. ASSUME f \in j.fields, NEW b, SnBoth(j.parts, a, b), SnAwaits(b, j, f),
                 f \notin DOMAIN a.to \cup DOMAIN b.to => copy[f] = stored[f]
          PROVE  SnFits("mirror", j, f)'
      <4>1. f \in DOMAIN b.to => f \notin DOMAIN a.to
        BY <3>2 DEF SnBoth
      <4>2. SnAwaits(b, j, f)'
        BY <1>2, <3>2, <4>1 DEF SnAwaits
      <4>3. (f \notin DOMAIN a.to \cup DOMAIN b.to => copy[f] = stored[f])'
        BY <1>2, <3>2
      <4> QED
        BY <2>2, <3>2, <4>2, <4>3, Zenon DEF SnFits
    <3> QED
      BY <1>1, <2>1, <3>1, <3>2
  <2>4. Sn!Goto(t, "mirror", j)
    BY <1>4, <1>7, <2>1
  <2> QED
    BY <1>0, <1>3, <2>1, <2>3, <2>4, SnTaskStep
<1> QED
  BY <1>5, <1>6, <1>7

\* The list of a task at work, and what is relied on if it is about f.
LEMMA SnHeadOf ==
    ASSUME SnInv, NEW t \in Tasks, step[t] # "idle", NEW f \in Sn!Settings, f \notin unsure
    PROVE  \E a : /\ SnPart(a) /\ Sn!Head(local[t].parts) = a /\ DOMAIN a.to \subseteq local[t].fields
                  /\ f \in local[t].fields => SnNext(step[t], a, local[t], f)
                  /\ \/ SnAlone(local[t].parts, a) /\ (f \in local[t].fields /\ f \notin DOMAIN a.to => copy[f] = stored[f])
                     \/ \E b : /\ SnBoth(local[t].parts, a, b) /\ DOMAIN b.to \subseteq local[t].fields
                               /\ f \in local[t].fields =>
                                     /\ SnAwaits(b, local[t], f)
                                     /\ f \notin DOMAIN a.to \cup DOMAIN b.to => copy[f] = stored[f]
<1>1. SnShape /\ SnTendedFor(f)
  BY DEF SnInv, SnTended
<1>2. CASE f \in local[t].fields
  <2>1. SnFits(step[t], local[t], f)
    BY <1>1, <1>2 DEF SnTendedFor
  <2> QED
    BY <1>1, <1>2, <2>1, SnFitsAt, Zenon
<1>3. CASE f \notin local[t].fields
  BY <1>1, <1>3, SnAtWork, Zenon
<1> QED
  BY <1>2, <1>3

LEMMA SnFailTended ==
    ASSUME SnInv, NEW t \in Tasks, Sn!WriteFails(t), NEW f \in Sn!Settings, f \notin unsure'
    PROVE  SnTendedFor(f)'
<1>0. SnShape /\ step[t] = "write" /\ exists' = exists /\ stored' = stored /\ copy' = copy /\ f \notin unsure
  BY DEF SnInv, Sn!WriteFails
<1>1. SnTendedFor(f)
  BY <1>0 DEF SnInv, SnTended
<1>2. PICK a : /\ SnPart(a) /\ Sn!Head(local[t].parts) = a /\ DOMAIN a.to \subseteq local[t].fields
               /\ f \in local[t].fields => SnNext("write", a, local[t], f)
               /\ \/ SnAlone(local[t].parts, a) /\ (f \in local[t].fields /\ f \notin DOMAIN a.to => copy[f] = stored[f])
                  \/ \E b : /\ SnBoth(local[t].parts, a, b) /\ DOMAIN b.to \subseteq local[t].fields
                            /\ f \in local[t].fields =>
                                  /\ SnAwaits(b, local[t], f)
                                  /\ f \notin DOMAIN a.to \cup DOMAIN b.to => copy[f] = stored[f]
  BY <1>0, SnHeadOf
<1>3. /\ SnAlone(local[t].parts, a) => Sn!FieldsIn(local[t].parts) = DOMAIN a.to
      /\ \A b : SnBoth(local[t].parts, a, b) => Sn!FieldsIn(local[t].parts) = DOMAIN a.to \cup DOMAIN b.to
  BY SnFieldsIn DEF SnAlone, SnBoth
<1>4. CASE a.how = "put"
  <2>1. /\ Sn!Goto(t, "idle", Sn!NoJob)
        /\ unsure' = unsure \cup (local[t].before \cap Sn!FieldsIn(local[t].parts))
    BY <1>2, <1>4, Zenon DEF Sn!WriteFails
  <2>2. f \in DOMAIN a.to /\ f \in local[t].fields => copy[f] = stored[f]
    BY <1>2, <1>3, <1>4, <2>1 DEF SnNext, SnAwaits
  <2>3. ASSUME NEW b, SnBoth(local[t].parts, a, b), SnAwaits(b, local[t], f), f \in DOMAIN b.to
        PROVE  copy[f] = stored[f]
    <3>1. b.how = "put" /\ f \notin local[t].before
      BY <1>3, <1>4, <2>1, <2>3 DEF SnBoth
    <3> QED
      BY <2>3, <3>1 DEF SnAwaits
  <2>4. f \in local[t].fields => copy[f] = stored[f]
    BY <1>2, <2>2, <2>3
  <2> QED
    BY <1>0, <1>1, <2>1, <2>4, SnThrough
<1>5. CASE a.how # "put"
  <2>1. /\ IF a.how = "ensure" THEN Sn!To(t, Sn!Tail(local[t].parts))
           ELSE IF a.how = "hydrate" THEN Sn!Goto(t, "mirror", [local[t] EXCEPT !.parts[1].to = <<>>])
           ELSE Sn!Goto(t, "mirror", local[t])
        /\ unsure' = unsure \cup (Sn!FieldsIn(local[t].parts) \cap
                                IF a.how = "hydrate" THEN local[t].before ELSE Sn!Settings)
    BY <1>2, <1>5, Zenon DEF Sn!WriteFails
  <2>2. a.how # "hydrate" => f \notin Sn!FieldsIn(local[t].parts)
    BY <2>1
  <2>3. a.how # "hydrate" /\ f \in local[t].fields => copy[f] = stored[f]
    BY <1>2, <1>3, <2>2
  <2>4. CASE a.how = "ensure"
    <3>1. CASE SnAlone(local[t].parts, a)
      BY <1>0, <1>1, <2>1, <2>3, <2>4, <3>1, SnTail, SnThrough
    <3>2. ASSUME NEW b, SnBoth(local[t].parts, a, b), DOMAIN b.to \subseteq local[t].fields PROVE SnTendedFor(f)'
      <4>1. f \notin DOMAIN b.to
        BY <1>3, <2>2, <2>4, <3>2
      <4> QED
        BY <1>0, <1>1, <2>1, <2>3, <2>4, <3>2, <4>1, SnSecond
    <3> QED
      BY <1>2, <3>1, <3>2
  <2>5. CASE a.how = "hydrate"
    <3>1. PICK to, j, h : /\ to = <<>> /\ j = [local[t] EXCEPT !.parts[1].to = to]
                          /\ h = [how |-> a.how, table |-> a.table, to |-> to]
      OBVIOUS
    <3>2. DOMAIN to = {}
      BY <3>1
    <3>3. /\ j.fields = local[t].fields /\ j.before = local[t].before /\ h.to = to
          /\ SnAlone(local[t].parts, a) => SnAlone(j.parts, h)
          /\ \A b : SnBoth(local[t].parts, a, b) => SnBoth(j.parts, h, b)
      BY <1>0, <1>2, <2>5, <3>1, <3>2, SnMirrorJob
    <3>4. Sn!Goto(t, "mirror", j)
      BY <2>1, <2>5, <3>1
    <3>5. SnNext("mirror", h, j, f)'
      BY <3>2, <3>3 DEF SnNext
    <3>6. f \in local[t].fields /\ f \in DOMAIN a.to => copy[f] = stored[f]
      <4>1. f \in DOMAIN a.to => f \in Sn!FieldsIn(local[t].parts)
        BY <1>2, <1>3
      <4>2. f \in DOMAIN a.to => f \notin local[t].before
        BY <2>1, <2>5, <4>1
      <4> QED
        BY <1>2, <2>5, <4>2 DEF SnNext, SnAwaits
    <3>7. f \in j.fields => SnFits("mirror", j, f)'
      <4>1. CASE SnAlone(local[t].parts, a) /\ (f \in local[t].fields /\ f \notin DOMAIN a.to => copy[f] = stored[f])
        <5>1. SnAlone(j.parts, h) /\ (f \in j.fields => copy'[f] = stored'[f])
          BY <1>0, <3>3, <3>6, <4>1
        <5> QED
          BY <3>5, <5>1, Zenon DEF SnFits
      <4>2. ASSUME f \in j.fields, NEW b, SnBoth(local[t].parts, a, b), SnAwaits(b, local[t], f),
                   f \notin DOMAIN a.to \cup DOMAIN b.to => copy[f] = stored[f]
            PROVE  SnFits("mirror", j, f)'
        <5>1. SnBoth(j.parts, h, b) /\ SnAwaits(b, j, f)'
          BY <1>0, <3>3, <4>2 DEF SnAwaits
        <5>2. (f \notin DOMAIN h.to \cup DOMAIN b.to => copy[f] = stored[f])'
          BY <1>0, <3>3, <3>6, <4>2
        <5> QED
          BY <3>5, <5>1, <5>2, Zenon DEF SnFits
      <4> QED
        BY <1>2, <3>3, <4>1, <4>2
    <3> QED
      BY <1>0, <1>1, <3>3, <3>4, <3>7, SnTaskStep
  <2>6. CASE a.how \notin {"ensure", "hydrate"}
    <3>1. PICK j : j = local[t]
      OBVIOUS
    <3>2. Sn!Goto(t, "mirror", j)
      BY <2>1, <2>6, <3>1
    <3>3. f \notin DOMAIN a.to /\ \A b : SnBoth(j.parts, a, b) => f \notin DOMAIN b.to
      BY <1>2, <1>3, <2>2, <2>6, <3>1
    <3>4. SnNext("mirror", a, j, f)' /\ \A b : SnBoth(j.parts, a, b) => SnAwaits(b, j, f)'
      BY <3>3 DEF SnNext, SnAwaits
    <3>5. f \in j.fields => copy'[f] = stored'[f]
      BY <1>0, <2>3, <2>6, <3>1
    <3>6. f \in j.fields => SnFits("mirror", j, f)'
      <4>1. SnAlone(j.parts, a) \/ \E b : SnBoth(j.parts, a, b)
        BY <1>2, <3>1, Zenon
      <4> QED
        BY <3>4, <3>5, <4>1, Zenon DEF SnFits
    <3> QED
      BY <1>0, <1>1, <3>1, <3>2, <3>6, SnTaskStep
  <2> QED
    BY <2>4, <2>5, <2>6
<1> QED
  BY <1>4, <1>5

LEMMA SnMirrorTended ==
    ASSUME SnInv, NEW t \in Tasks, Sn!Mirror(t), NEW f \in Sn!Settings, f \notin unsure'
    PROVE  SnTendedFor(f)'
<1>0. SnShape /\ step[t] = "mirror" /\ exists' = exists /\ stored' = stored /\ f \notin unsure
  BY DEF SnInv, Sn!Mirror
<1>1. SnTendedFor(f)
  BY <1>0 DEF SnInv, SnTended
<1>2. PICK a : /\ SnPart(a) /\ Sn!Head(local[t].parts) = a /\ DOMAIN a.to \subseteq local[t].fields
               /\ f \in local[t].fields => SnNext("mirror", a, local[t], f)
               /\ \/ SnAlone(local[t].parts, a) /\ (f \in local[t].fields /\ f \notin DOMAIN a.to => copy[f] = stored[f])
                  \/ \E b : /\ SnBoth(local[t].parts, a, b) /\ DOMAIN b.to \subseteq local[t].fields
                            /\ f \in local[t].fields =>
                                  /\ SnAwaits(b, local[t], f)
                                  /\ f \notin DOMAIN a.to \cup DOMAIN b.to => copy[f] = stored[f]
  BY <1>0, SnHeadOf
<1>3. /\ Sn!To(t, Sn!Tail(local[t].parts)) /\ copy' = Sn!Over(Sn!Mirrored(a), copy)
      /\ unsure' = unsure \cup (DOMAIN a.to \ DOMAIN Sn!Mirrored(a))
  BY <1>2, Zenon DEF Sn!Mirror
<1>4. PICK new : new = Sn!Mirrored(a)
  OBVIOUS
<1>5. DOMAIN new \subseteq DOMAIN a.to /\ \A g \in DOMAIN new : new[g] = a.to[g]
  BY <1>4 DEF Sn!Mirrored, Sn!Restrict
<1>6. copy'[f] = IF f \in DOMAIN new THEN new[f] ELSE copy[f]
  <2>1. copy = [g \in Sn!Settings |-> copy[g]]
    BY <1>0 DEF SnShape
  <2>2. \A g \in Sn!Settings : Sn!Over(new, copy)[g] = IF g \in DOMAIN new THEN new[g] ELSE copy[g]
    BY <2>1, SnOver
  <2> QED
    BY <1>3, <1>4, <2>2, Zenon
<1>7. f \in DOMAIN a.to => f \in DOMAIN new
  BY <1>3, <1>4
<1>8. f \in local[t].fields /\ f \in DOMAIN a.to => copy'[f] = stored'[f]
  BY <1>0, <1>2, <1>5, <1>6, <1>7 DEF SnNext
<1>9. f \notin DOMAIN a.to => copy'[f] = copy[f]
  BY <1>5, <1>6
<1>10. CASE SnAlone(local[t].parts, a) /\ (f \in local[t].fields /\ f \notin DOMAIN a.to => copy[f] = stored[f])
  <2>1. Sn!Goto(t, "idle", Sn!NoJob)
    BY <1>3, <1>10, SnTail
  <2>2. f \in local[t].fields => copy'[f] = stored'[f]
    BY <1>0, <1>8, <1>9, <1>10
  <2>3. f \notin local[t].fields => copy'[f] = copy[f]
    BY <1>2, <1>9
  <2> QED
    BY <1>0, <1>1, <2>1, <2>2, <2>3, SnThrough
<1>11. ASSUME NEW b, SnBoth(local[t].parts, a, b), DOMAIN b.to \subseteq local[t].fields,
              f \in local[t].fields => /\ SnAwaits(b, local[t], f)
                                       /\ f \notin DOMAIN a.to \cup DOMAIN b.to => copy[f] = stored[f]
       PROVE  SnTendedFor(f)'
  <2>1. b.how # "update"
    <3>1. a.how # "ensure"
      BY <1>0, <1>2 DEF SnShape, SnJob, SnAlone, SnBoth
    <3> QED
      BY <1>11, <3>1 DEF SnBoth
  <2>2. f \in DOMAIN b.to => f \notin DOMAIN a.to
    BY <1>11 DEF SnBoth
  <2>3. f \in local[t].fields =>
               /\ f \in DOMAIN b.to =>
                     /\ b.how \in {"put", "hydrate"} /\ f \notin local[t].before => copy'[f] = stored'[f]
                     /\ b.how = "hydrate" /\ f \in local[t].before => Sn!TableOf(f) \in exists'
                     /\ b.how = "update" /\ b.table = "decancer" => Sn!TableOf(f) \in exists'
               /\ f \notin DOMAIN b.to => copy'[f] = stored'[f]
    BY <1>0, <1>8, <1>9, <1>11, <2>1, <2>2 DEF SnAwaits
  <2>4. f \notin local[t].fields => copy'[f] = copy[f]
    BY <1>2, <1>9
  <2> QED
    BY <1>0, <1>1, <1>3, <1>11, <2>3, <2>4, SnSecond
<1> QED
  BY <1>2, <1>10, <1>11

LEMMA SnBeginTended ==
    ASSUME SnInv, NEW t \in Tasks, NEW parts, NEW sure, NEW ready \in BOOLEAN,
           SnAsked(parts, ready), Sn!Begin(t, parts, sure),
           sure = IF ready THEN {f \in Sn!Settings : Sn!TableOf(f) \in exists} ELSE Sn!FieldsIn(parts),
           ready => Sn!FieldsIn(parts) = Sn!Settings,
           NEW f \in Sn!Settings, f \notin unsure'
    PROVE  SnTendedFor(f)'
<1>1. PICK j : j = [parts |-> parts, fields |-> Sn!FieldsIn(parts), before |-> unsure]
  OBVIOUS
<1>2. /\ step[t] = "idle" /\ Sn!Goto(t, "write", j)
      /\ exists' = exists /\ stored' = stored /\ copy' = copy
      /\ unsure' = (unsure \ sure) \cup {g \in Sn!FieldsIn(parts) : Sn!UnderWay(g)}
  BY <1>1, Zenon DEF Sn!Begin
<1>3. j.parts = parts /\ j.fields = Sn!FieldsIn(parts) /\ j.before = unsure
  BY <1>1
<1>4. SnShape /\ local[t].fields = {}
  <2>1. local[t] = Sn!NoJob
    BY <1>2 DEF SnInv, SnShape, SnJob
  <2> QED
    BY <2>1, SnIdleJob DEF SnInv
<1>5. CASE f \in Sn!FieldsIn(parts)
  <2>1. \A s \in Tasks : f \notin local[s].fields
    BY <1>2, <1>5 DEF Sn!UnderWay
  <2>2. f \notin unsure => copy[f] = stored[f]
    BY <2>1 DEF SnInv, SnTended, SnTendedFor
  <2>3. ready /\ f \in unsure => Sn!TableOf(f) \in exists
    BY <1>2
  <2>4. PICK a : /\ SnPending(a) /\ (a.how = "update" => a.table = "sentinel") /\ (a.how = "hydrate" <=> ready)
                 /\ \/ SnAlone(parts, a)
                    \/ \E b : SnBoth(parts, a, b) /\ (b.how = "hydrate" <=> ready)
    BY Zenon DEF SnAsked
  <2>5. SnNext("write", a, j, f)'
    BY <1>2, <1>3, <2>2, <2>3, <2>4 DEF SnNext, SnAwaits
  <2>6. \A b : (b.how = "hydrate" <=> ready) => SnAwaits(b, j, f)'
    BY <1>2, <1>3, <2>2, <2>3 DEF SnAwaits
  <2>7. /\ SnAlone(parts, a) => f \in DOMAIN a.to
        /\ \A b : SnBoth(parts, a, b) => f \in DOMAIN a.to \cup DOMAIN b.to
    BY <1>5, SnFieldsIn DEF SnAlone, SnBoth
  <2>8. SnFits("write", j, f)'
    BY <1>3, <2>4, <2>5, <2>6, <2>7, Zenon DEF SnFits
  <2>9. /\ step'[t] = "write" /\ local'[t] = j
        /\ \A s \in Tasks \ {t} : local'[s] = local[s]
    BY <1>2, <1>4, SnMoves
  <2>10. \A s \in Tasks : f \in local'[s].fields => s = t
    BY <2>1, <2>9
  <2>11. SnFits(step[t], local[t], f)'
    BY <2>8, <2>9 DEF SnFits, SnNext, SnAwaits
  <2>12. f \in local'[t].fields
    BY <1>3, <1>5, <2>9
  <2> QED
    BY <2>10, <2>11, <2>12 DEF SnTendedFor
<1>6. CASE f \notin Sn!FieldsIn(parts)
  <2>1. SnTendedFor(f)
    BY <1>2, <1>6 DEF SnInv, SnTended
  <2> QED
    BY <1>2, <1>3, <1>4, <1>6, <2>1, SnTaskStep
<1> QED
  BY <1>5, <1>6

LEMMA SnTendedStep == ASSUME SnInv, Sn!Next PROVE SnTended'
<1> SUFFICES ASSUME NEW f \in Sn!Settings, f \notin unsure' PROVE SnTendedFor(f)'
  BY DEF SnTended
<1>1. ASSUME NEW t \in Tasks, Sn!Change(t) PROVE SnTendedFor(f)'
  <2>1. PICK parts \in Sn!Requests \cup {Sn!SettingsReset} : Sn!Begin(t, parts, Sn!FieldsIn(parts))
    BY <1>1, Zenon DEF Sn!Change
  <2>2. SnAsked(parts, FALSE)
    BY SnRequested
  <2> QED
    BY <2>1, <2>2, SnBeginTended
<1>2. ASSUME NEW t \in Tasks, Sn!Ready(t) PROVE SnTendedFor(f)'
  BY <1>2, SnOnReady, SnBeginTended DEF Sn!Ready
<1>3. ASSUME NEW t \in Tasks, Sn!Write(t) PROVE SnTendedFor(f)'
  <2>1. f \notin unsure
    BY <1>3 DEF Sn!Write
  <2> QED
    BY <1>3, <2>1, SnWriteTended
<1>4. ASSUME NEW t \in Tasks, Sn!WriteFails(t) PROVE SnTendedFor(f)'
  BY <1>4, SnFailTended
<1>5. ASSUME NEW t \in Tasks, Sn!Mirror(t) PROVE SnTendedFor(f)'
  BY <1>5, SnMirrorTended
<1>6. CASE Sn!Crash
  <2>1. /\ local' = [t \in Tasks |-> Sn!NoJob] /\ stored' = stored /\ copy' = Sn!Default
        /\ unsure' = {g \in Sn!Settings : stored[g] # Sn!Default[g]}
    BY <1>6 DEF Sn!Crash
  <2>2. \A t \in Tasks : f \notin local'[t].fields
    BY <2>1, SnIdleJob
  <2>3. copy'[f] = stored'[f]
    BY <2>1
  <2> QED
    BY <2>2, <2>3 DEF SnTendedFor
<1> QED
  BY <1>1, <1>2, <1>3, <1>4, <1>5, <1>6, Zenon DEF Sn!Next

LEMMA SnStep == SnInv /\ [Sn!Next]_Sn!vars => SnInv'
<1>1. CASE UNCHANGED Sn!vars
  BY <1>1 DEF Sn!vars, SnInv, SnShape, SnTended, SnTendedFor, SnFits, SnNext, SnAwaits
<1>2. CASE Sn!Next
  BY <1>2, SnShapeStep, SnTendedStep DEF SnInv
<1> QED
  BY <1>1, <1>2

LEMMA SnInit == Sn!DataInit /\ Sn!TaskInit => SnInv
<1> SUFFICES ASSUME Sn!DataInit, Sn!TaskInit PROVE SnInv
  OBVIOUS
<1>1. Sn!Default = [f \in Sn!Settings |-> Sn!Default[f]]
  BY DEF Sn!Default, Sn!Settings
<1>2. /\ exists = {} /\ unsure = {} /\ stored = Sn!Default /\ copy = Sn!Default
      /\ step = [t \in Tasks |-> "idle"] /\ local = [t \in Tasks |-> Sn!NoJob]
  BY DEF Sn!DataInit, Sn!TaskInit
<1>3. \A t \in Tasks : SnJob(step[t], local[t]) /\ local[t].fields = {}
  BY <1>2, SnIdleJob
<1>4. step = [t \in Tasks |-> step[t]] /\ local = [t \in Tasks |-> local[t]]
  BY <1>2
<1> QED
  BY <1>1, <1>2, <1>3, <1>4 DEF SnInv, SnShape, SnTended, SnTendedFor

\* Once nothing about a member, or a setting, is under way, what memory holds of it is
\* what the database holds: an AFK notice, unless two changes overlapped or one failed,
\* and a setting of Sentinel or Decancer, unless one of those or a restart left it be
\* since the last change of both sides (set_afk, manage_afk, update_sentinel_cache,
\* update_decancer_cache, put_sentinel).
THEOREM CopiesKeptInStep == MCSpec => []CopiesInStep
<1> DEFINE Inv == (focus = "afk" => AfkInv) /\ (focus = "sentinel" => SnInv)
<1>1. MCInit => Inv
  BY AfkInit, SnInit DEF MCInit
<1>2. Inv /\ [MCNext]_<<focus, State, step, local, budget>> => Inv'
  BY AfkStep, SnStep DEF MCNext, State, awayVars, sentinelVars, Away!vars, Sn!vars
<1>3. Inv => CopiesInStep
  <2>1. AfkInv => Away!AfkInStep
    BY DEF AfkInv, AfkShape, AfkTended, AfkTendedFor, Touches, Away!AfkInStep, Away!UnderWay
  <2>2. SnInv => Sn!SentinelInStep
    BY DEF SnInv, SnTended, SnTendedFor, Sn!SentinelInStep, Sn!UnderWay
  <2> QED
    BY <2>1, <2>2 DEF CopiesInStep
<1> QED
  BY <1>1, <1>2, <1>3, PTL DEF MCSpec

(***************************************************************************)
(* The guilds the bot is in.                                               *)
(***************************************************************************)
\* The steps at which a task is about a guild.
AboutOne == {"created", "judge", "leave", "deleted", "unavailable"}

GuildShape ==
    /\ step \in [Tasks -> AboutOne \cup {"idle", "ready", "baseline"}]
    /\ DOMAIN local = Tasks
    /\ \A t \in Tasks : local[t].guild \in Guilds <=> step[t] \in AboutOne
    /\ inside \subseteq Guilds /\ cached \subseteq Guilds /\ guildSet \subseteq Guilds
    /\ settled \subseteq inside /\ rejudged = {}
    /\ online => inside \subseteq cached
    /\ (\E t \in Tasks : step[t] # "idle") => inside \ cached \subseteq missed

\* What guild_set is, or setup will make of it.
Seen(g) == g \in guildSet \/ (~setUp /\ g \in cached)

\* What the only task about g at step p relies on.
GuildFits(p, g) ==
    /\ p \in {"created", "judge", "leave"} => g \in inside /\ g \in cached
    /\ p \in {"judge", "leave"} => g \in guildSet
    /\ p = "deleted" => g \notin inside /\ g \notin cached
    /\ g \in missed => p = "unavailable"

\* A guild of which no events overlapped has one task at most; while none changes it,
\* guild_set agrees with Discord unless the change was missed; a guild that is settled is
\* known, or will be when on_ready ends.
Clear(g) ==
    /\ \A s, t \in Tasks : local[s].guild = g /\ local[t].guild = g => s = t
    /\ \A t \in Tasks : local[t].guild = g => GuildFits(step[t], g)
    /\ g \notin missed /\ (\A t \in Tasks : local[t].guild = g => step[t] = "unavailable") =>
         /\ Seen(g) => g \in inside
         /\ (setUp \/ online) /\ g \in inside => Seen(g)
    /\ \A t \in Tasks : step[t] = "baseline" /\ g \in inside /\ g \in cached => g \in local[t].guilds
    /\ g \in settled /\ (\E t \in Tasks : step[t] # "idle") => g \in cached
    /\ g \in settled /\ readySeen => \/ g \in knownGuilds
                                     \/ /\ \E t \in Tasks : step[t] = "baseline"
                                        /\ \A t \in Tasks : local[t].guild # g

GuildInv == GuildShape /\ \A g \in Guilds \ unclear : Clear(g)

LEMMA GuildMovesOn ==
    ASSUME GuildShape, NEW t \in Tasks, NEW p, NEW j, Gt!Goto(t, p, j)
    PROVE  /\ step'[t] = p /\ local'[t] = j
           /\ \A s \in Tasks \ {t} : step'[s] = step[s] /\ local'[s] = local[s]
  BY DEF GuildShape, Gt!Goto

LEMMA GuildShapeStep ==
    ASSUME GuildShape, NEW t \in Tasks, NEW p, NEW j, Gt!Goto(t, p, j),
           p \in AboutOne \cup {"idle", "ready", "baseline"},
           j.guild \in Guilds <=> p \in AboutOne,
           inside' \subseteq Guilds, cached' \subseteq Guilds, guildSet' \subseteq Guilds,
           settled' \subseteq inside', rejudged' = {},
           online' => inside' \subseteq cached', inside' \ cached' \subseteq missed'
    PROVE  GuildShape'
<1>1. /\ step'[t] = p /\ local'[t] = j
      /\ \A s \in Tasks \ {t} : step'[s] = step[s] /\ local'[s] = local[s]
  BY GuildMovesOn
<1>2. /\ step' \in [Tasks -> AboutOne \cup {"idle", "ready", "baseline"}]
      /\ DOMAIN local' = Tasks
  BY DEF GuildShape, Gt!Goto
<1>3. \A s \in Tasks : local'[s].guild \in Guilds <=> step'[s] \in AboutOne
  BY <1>1 DEF GuildShape
<1> QED
  BY <1>2, <1>3 DEF GuildShape

\* A step that is not about g.
LEMMA GuildOther ==
    ASSUME GuildShape, NEW t \in Tasks, NEW p, NEW j, Gt!Goto(t, p, j), NEW g \in Guilds, Clear(g),
           local[t].guild # g, j.guild # g, step[t] # "baseline" /\ p # "baseline", step[t] = "idle" => online,
           g \in inside' <=> g \in inside, g \in cached' <=> g \in cached,
           g \in guildSet' <=> g \in guildSet, g \in missed' <=> g \in missed,
           g \in settled' <=> g \in settled, g \in knownGuilds' <=> g \in knownGuilds,
           UNCHANGED <<online, setUp, readySeen>>
    PROVE  Clear(g)'
<1>1. /\ step'[t] = p /\ local'[t] = j
      /\ \A s \in Tasks \ {t} : step'[s] = step[s] /\ local'[s] = local[s]
  BY GuildMovesOn
<1>2. \A s \in Tasks : local'[s].guild = g <=> local[s].guild = g
  BY <1>1
<1>3. \A s \in Tasks : local[s].guild = g => step'[s] = step[s]
  BY <1>1
<1>4. \A s \in Tasks : /\ step'[s] = "baseline" <=> step[s] = "baseline"
                       /\ step[s] = "baseline" => local'[s] = local[s]
  BY <1>1
<1>5. Seen(g)' <=> Seen(g)
  BY DEF Seen
<1>6. g \in settled /\ (\E s \in Tasks : step'[s] # "idle") => g \in cached
  <2>1. CASE step[t] = "idle"
    BY <2>1 DEF GuildShape
  <2>2. CASE step[t] # "idle"
    BY <2>2 DEF Clear
  <2> QED
    BY <2>1, <2>2
<1>7. /\ \A s, r \in Tasks : local'[s].guild = g /\ local'[r].guild = g => s = r
      /\ \A s \in Tasks : local'[s].guild = g => GuildFits(step[s], g)'
  <2>1. \A s \in Tasks : local'[s].guild = g => GuildFits(step'[s], g)
    BY <1>2, <1>3 DEF Clear
  <2>2. \A s \in Tasks : local'[s].guild = g => GuildFits(step[s], g)'
    BY <2>1 DEF GuildFits
  <2> QED
    BY <1>2, <2>2 DEF Clear
<1>8. g \notin missed' /\ (\A s \in Tasks : local'[s].guild = g => step'[s] = "unavailable") =>
         /\ Seen(g)' => g \in inside'
         /\ (setUp \/ online)' /\ g \in inside' => Seen(g)'
  BY <1>2, <1>3, <1>5 DEF Clear
<1>9. \A s \in Tasks : step'[s] = "baseline" /\ g \in inside' /\ g \in cached' => g \in local'[s].guilds
  BY <1>4 DEF Clear
<1>10. g \in settled' /\ readySeen' => \/ g \in knownGuilds'
                                       \/ /\ \E s \in Tasks : step'[s] = "baseline"
                                          /\ \A s \in Tasks : local'[s].guild # g
  BY <1>2, <1>4 DEF Clear
<1> QED
  BY <1>6, <1>7, <1>8, <1>9, <1>10 DEF Clear

LEMMA GuildAbout ==
    ASSUME NEW g \in Guilds
    PROVE  Gt!About(g).guild = g
  BY DEF Gt!About

LEMMA GuildNoJob ==
    Gt!NoJob.guild = NoGuild /\ NoGuild \notin Guilds
  BY GuildConstants DEF Gt!NoJob

\* An event about h is dispatched.
LEMMA GuildHears ==
    ASSUME GuildInv, NEW t \in Tasks, NEW h \in Guilds, NEW event \in {"created", "deleted", "unavailable"},
           Gt!Hears(t, h, event), UNCHANGED <<online, setUp, readySeen, guildSet, knownGuilds, rejudged>>,
           (\A g : g # h => (g \in inside' <=> g \in inside) /\ (g \in cached' <=> g \in cached) /\ (g \in settled' <=> g \in settled)),
           event = "created" => h \in inside' /\ h \in cached',
           event = "deleted" => h \notin inside' /\ h \notin cached' /\ h \notin settled',
           event = "unavailable" => UNCHANGED <<inside, cached, settled>>,
           h \in settled' => h \in settled /\ h \in inside',
           settled' \subseteq settled
    PROVE  GuildInv'
<1>0. GuildShape /\ \A g \in Guilds \ unclear : Clear(g)
  BY DEF GuildInv
<1>1. PICK j : j = Gt!About(h)
  OBVIOUS
<1>2. /\ j.guild = h
      /\ step[t] = "idle" /\ online /\ Gt!Goto(t, event, j)
      /\ missed' = IF event = "unavailable" THEN missed ELSE missed \ {h}
      /\ unclear' = IF Gt!Busy(h) \/ Gt!Refreshing THEN unclear \cup {h}
                    ELSE IF event = "deleted" THEN unclear \ {h} ELSE unclear
  BY <1>1, GuildAbout DEF Gt!Hears
<1>3. local[t].guild \notin Guilds
  BY <1>0, <1>2 DEF GuildShape, AboutOne
<1>4. /\ step'[t] = event /\ local'[t] = j
      /\ \A s \in Tasks \ {t} : step'[s] = step[s] /\ local'[s] = local[s]
  BY <1>0, <1>2, GuildMovesOn
<1>5. event \in AboutOne /\ event # "baseline" /\ event # "idle"
  BY DEF AboutOne
<1>6. GuildShape'
  <2>1. \A g \in inside' : g \in cached'
    <3>1. inside \subseteq cached
      BY <1>0, <1>2 DEF GuildShape
    <3>2. CASE event = "unavailable"
      BY <3>1, <3>2
    <3>3. CASE event # "unavailable"
      <4>1. \A g \in inside' \ {h} : g \in cached'
        BY <3>1
      <4> QED
        BY <3>3, <4>1
    <3> QED
      BY <3>2, <3>3
  <2>2. \A g \in settled' : g \in inside'
    <3>1. \A g \in settled' : g \in settled /\ g \in inside
      BY <1>0 DEF GuildShape
    <3>2. CASE event = "unavailable"
      BY <3>1, <3>2
    <3>3. CASE event # "unavailable"
      BY <3>1, <3>3
    <3> QED
      BY <3>2, <3>3
  <2>3. rejudged' = {}
    BY <1>0 DEF GuildShape
  <2>4. inside' \subseteq Guilds /\ cached' \subseteq Guilds /\ guildSet' \subseteq Guilds
    <3>1. \A g \in inside' \cup cached' : g = h \/ g \in inside \cup cached
      OBVIOUS
    <3> QED
      BY <1>0, <3>1 DEF GuildShape
  <2> QED
    BY <1>0, <1>2, <1>5, <2>1, <2>2, <2>3, <2>4, GuildShapeStep
<1>7. ASSUME NEW g \in Guilds \ {h}, g \notin unclear' PROVE Clear(g)'
  <2>1. g \notin unclear /\ local[t].guild # g /\ j.guild # g /\ (g \in missed' <=> g \in missed)
    BY <1>2, <1>3, <1>7
  <2>2. Clear(g)
    BY <1>0, <2>1
  <2> QED
    BY <1>0, <1>2, <1>5, <1>7, <2>1, <2>2, GuildOther
<1>8. ASSUME h \notin unclear' PROVE Clear(h)'
  <2>1. /\ \A s \in Tasks : local[s].guild # h /\ step[s] # "baseline"
        /\ event # "deleted" => h \notin unclear
    BY <1>2, <1>8 DEF Gt!Busy, Gt!Refreshing
  <2>2. \A s \in Tasks : (local'[s].guild = h => s = t) /\ step'[s] # "baseline"
    BY <1>4, <1>5, <2>1
  <2>3. GuildFits(event, h)'
    BY <1>2 DEF GuildFits
  <2>4. h \in settled' => h \in cached'
    BY <1>2, <1>6 DEF GuildShape
  <2>5. h \in settled' /\ readySeen' => h \in knownGuilds'
    <3> SUFFICES ASSUME h \in settled', readySeen PROVE h \in knownGuilds
      OBVIOUS
    <3>1. Clear(h)
      BY <1>0, <2>1
    <3> QED
      BY <2>1, <3>1 DEF Clear
  <2>6. h \notin missed' /\ event = "unavailable" => /\ Seen(h)' => h \in inside'
                                                     /\ (setUp \/ online)' /\ h \in inside' => Seen(h)'
    <3> SUFFICES ASSUME h \notin missed', event = "unavailable"
                 PROVE  /\ Seen(h)' => h \in inside'
                        /\ (setUp \/ online)' /\ h \in inside' => Seen(h)'
      OBVIOUS
    <3>1. Clear(h) /\ h \notin missed
      BY <1>0, <1>2, <2>1
    <3> QED
      BY <2>1, <3>1 DEF Clear, Seen
  <2>7. \A s \in Tasks : local'[s].guild = h => GuildFits(step[s], h)'
    BY <1>4, <2>2, <2>3 DEF GuildFits
  <2>8. h \notin missed' /\ (\A s \in Tasks : local'[s].guild = h => step'[s] = "unavailable") =>
           /\ Seen(h)' => h \in inside'
           /\ (setUp \/ online)' /\ h \in inside' => Seen(h)'
    BY <1>2, <1>4, <2>6
  <2> QED
    BY <2>2, <2>4, <2>5, <2>7, <2>8 DEF Clear
<1> QED
  BY <1>6, <1>7, <1>8 DEF GuildInv

LEMMA GuildEvents ==
    ASSUME GuildInv, NEW t \in Tasks, NEW h \in Guilds,
           \/ Gt!Joined(t, h) \/ Gt!Left(t, h) \/ Gt!Outage(t, h) \/ Gt!Announced(t, h)
    PROVE  GuildInv'
<1>0. settled \subseteq inside
  BY DEF GuildInv, GuildShape
<1>1. CASE Gt!Joined(t, h)
  <2>1. /\ Gt!Hears(t, h, "created") /\ UNCHANGED <<online, setUp, readySeen, guildSet, knownGuilds, rejudged, settled>>
        /\ inside' = inside \cup {h} /\ cached' = cached \cup {h} /\ h \notin inside
    BY <1>1 DEF Gt!Joined, Gt!bot
  <2>2. h \notin settled'
    BY <1>0, <2>1
  <2>3. /\ (\A g : g # h => (g \in inside' <=> g \in inside) /\ (g \in cached' <=> g \in cached) /\ (g \in settled' <=> g \in settled))
        /\ h \in inside' /\ h \in cached' /\ settled' \subseteq settled
    BY <2>1
  <2> QED
    BY <2>1, <2>2, <2>3, GuildHears
<1>2. CASE Gt!Left(t, h)
  <2>1. /\ Gt!Hears(t, h, "deleted") /\ UNCHANGED <<online, setUp, readySeen, guildSet, knownGuilds, rejudged>>
        /\ inside' = inside \ {h} /\ cached' = cached \ {h} /\ settled' = settled \ {h}
    BY <1>2 DEF Gt!Left, Gt!bot
  <2>2. /\ (\A g : g # h => (g \in inside' <=> g \in inside) /\ (g \in cached' <=> g \in cached) /\ (g \in settled' <=> g \in settled))
        /\ h \notin inside' /\ h \notin cached' /\ h \notin settled' /\ settled' \subseteq settled
    BY <2>1
  <2> QED
    BY <2>1, <2>2, GuildHears
<1>3. CASE Gt!Outage(t, h)
  <2>1. /\ Gt!Hears(t, h, "unavailable") /\ h \in inside
        /\ UNCHANGED <<online, setUp, readySeen, guildSet, knownGuilds, rejudged, inside, cached, settled>>
    BY <1>3 DEF Gt!Outage, Gt!bot
  <2> QED
    BY <2>1, GuildHears
<1>4. CASE Gt!Announced(t, h)
  <2>1. /\ Gt!Hears(t, h, "created") /\ h \in inside /\ cached' = cached \cup {h}
        /\ UNCHANGED <<online, setUp, readySeen, guildSet, knownGuilds, rejudged, inside, settled>>
    BY <1>4 DEF Gt!Announced, Gt!bot
  <2>2. /\ \A g : g # h => (g \in cached' <=> g \in cached)
        /\ h \in cached'
    BY <2>1
  <2> QED
    BY <2>1, <2>2, GuildHears
<1> QED
  BY <1>1, <1>2, <1>3, <1>4

\* A task about h moves on.
LEMMA GuildWorks ==
    ASSUME GuildInv, NEW t \in Tasks, NEW p, NEW j, NEW h \in Guilds, local[t].guild = h, Gt!Goto(t, p, j),
           \/ p \in AboutOne /\ j.guild = h
           \/ p = "idle" /\ j.guild = NoGuild,
           UNCHANGED <<online, setUp, readySeen, unclear>>,
           (\A g : g # h => (g \in inside' <=> g \in inside) /\ (g \in cached' <=> g \in cached)),
           (\A g : g # h => (g \in guildSet' <=> g \in guildSet) /\ (g \in missed' <=> g \in missed)),
           (\A g : g # h => (g \in settled' <=> g \in settled) /\ (g \in knownGuilds' <=> g \in knownGuilds)),
           h \in settled' => h \in inside', rejudged' = {},
           h \in inside' => h \in inside, h \in cached' => h \in cached, h \in cached \ cached' => h \notin inside',
           h \in missed \ missed' => h \notin inside',
           h \notin unclear => (p # "idle" => GuildFits(p, h)'),
           h \notin unclear =>
               /\ h \notin missed' /\ p \in {"idle", "unavailable"} =>
                    /\ Seen(h)' => h \in inside'
                    /\ (setUp \/ online)' /\ h \in inside' => Seen(h)'
               /\ h \in settled' => h \in cached'
               /\ h \in settled' /\ readySeen => h \in knownGuilds'
    PROVE  GuildInv'
<1>0. GuildShape /\ \A g \in Guilds \ unclear : Clear(g)
  BY DEF GuildInv
<1>1. step[t] \in AboutOne /\ step[t] # "idle" /\ step[t] # "baseline" /\ p # "baseline"
  BY <1>0, GuildConstants DEF GuildShape, AboutOne
<1>2. /\ step'[t] = p /\ local'[t] = j
      /\ \A s \in Tasks \ {t} : step'[s] = step[s] /\ local'[s] = local[s]
  BY <1>0, GuildMovesOn
<1>3. GuildShape'
  <2>1. p \in AboutOne \cup {"idle", "ready", "baseline"} /\ (j.guild \in Guilds <=> p \in AboutOne)
    BY GuildConstants DEF AboutOne
  <2>2. settled \subseteq inside /\ (online => inside \subseteq cached) /\ inside \ cached \subseteq missed
    BY <1>0, <1>1 DEF GuildShape
  <2>3. \A g \in settled' : g \in inside'
    BY <2>2
  <2>4. online => \A g \in inside' : g \in cached'
    BY <2>2
  <2>5. \A g \in inside' : g \in cached' \/ g \in missed'
    BY <2>2
  <2>6. inside' \subseteq Guilds /\ cached' \subseteq Guilds /\ guildSet' \subseteq Guilds
    <3>1. /\ \A g \in inside' : g = h \/ g \in inside
          /\ \A g \in cached' : g = h \/ g \in cached
          /\ \A g \in guildSet' : g = h \/ g \in guildSet
      OBVIOUS
    <3> QED
      BY <1>0, <3>1 DEF GuildShape
  <2> QED
    BY <1>0, <2>1, <2>3, <2>4, <2>5, <2>6, GuildShapeStep
<1>4. ASSUME NEW g \in Guilds \ {h}, g \notin unclear PROVE Clear(g)'
  <2>1. local[t].guild # g /\ j.guild # g
    BY <1>4, GuildConstants
  <2> QED
    BY <1>0, <1>1, <1>4, <2>1, GuildOther
<1>5. ASSUME h \notin unclear PROVE Clear(h)'
  <2>1. Clear(h)
    BY <1>0, <1>5
  <2>2. \A s \in Tasks \ {t} : local[s].guild # h /\ local'[s].guild # h
    BY <1>2, <2>1 DEF Clear
  <2>3. \A s \in Tasks : local'[s].guild = h => s = t /\ p # "idle"
    BY <2>2, <1>2, GuildConstants DEF AboutOne
  <2>4. \A s \in Tasks : local'[s].guild = h => GuildFits(step[s], h)'
    BY <1>2, <1>5, <2>3 DEF GuildFits
  <2>5. (\A s \in Tasks : local'[s].guild = h => step'[s] = "unavailable") => p \in {"idle", "unavailable"}
    BY <1>2
  <2>6. \A s \in Tasks : step'[s] = "baseline" /\ h \in inside' /\ h \in cached' => h \in local'[s].guilds
    BY <1>1, <1>2, <2>1 DEF Clear
  <2>7. h \notin missed' /\ (\A s \in Tasks : local'[s].guild = h => step'[s] = "unavailable") =>
           /\ Seen(h)' => h \in inside'
           /\ (setUp \/ online)' /\ h \in inside' => Seen(h)'
    BY <1>5, <2>5
  <2> QED
    BY <1>5, <2>3, <2>4, <2>6, <2>7 DEF Clear
<1> QED
  BY <1>3, <1>4, <1>5 DEF GuildInv

LEMMA GuildTasks ==
    ASSUME GuildInv, NEW t \in Tasks,
           \/ Gt!OnGuildCreate(t) \/ Gt!Judge(t) \/ Gt!NotifyAndLeave(t) \/ Gt!OnGuildDelete(t)
    PROVE  GuildInv'
<1>1. PICK h : h = local[t].guild
  OBVIOUS
<1>2. PICK j : j = local[t]
  OBVIOUS
<1>3. PICK nothing : nothing = Gt!NoJob
  OBVIOUS
<1>4. nothing.guild = NoGuild /\ j.guild = h
  BY <1>1, <1>2, <1>3, GuildNoJob DEF GuildInv, GuildShape
<1>5. /\ h \in Guilds /\ step[t] \in AboutOne
      /\ settled \subseteq inside /\ rejudged = {}
      /\ step[t] # "idle"
  <2>1. step[t] \in AboutOne
    BY DEF Gt!OnGuildCreate, Gt!Judge, Gt!NotifyAndLeave, Gt!OnGuildDelete, AboutOne
  <2> QED
    BY <1>1, <2>1 DEF GuildInv, GuildShape, AboutOne
<1>6. h \notin unclear => Clear(h)
  BY <1>5 DEF GuildInv
<1>7. h \notin unclear =>
         /\ GuildFits(step[t], h)
         /\ h \in settled => h \in cached
         /\ h \in settled /\ readySeen => h \in knownGuilds
         /\ step[t] = "unavailable" /\ h \notin missed =>
              /\ Seen(h) => h \in inside
              /\ (setUp \/ online) /\ h \in inside => Seen(h)
  <2> SUFFICES ASSUME h \notin unclear
               PROVE  /\ GuildFits(step[t], h)
                      /\ h \in settled => h \in cached
                      /\ h \in settled /\ readySeen => h \in knownGuilds
                      /\ step[t] = "unavailable" /\ h \notin missed =>
                           /\ Seen(h) => h \in inside
                           /\ (setUp \/ online) /\ h \in inside => Seen(h)
    OBVIOUS
  <2>1. Clear(h) /\ local[t].guild = h
    BY <1>1, <1>6
  <2>2. \A s \in Tasks : local[s].guild = h => s = t
    BY <2>1 DEF Clear
  <2> QED
    BY <1>5, <2>1, <2>2 DEF Clear
<1>8. CASE Gt!OnGuildCreate(t)
  <2>1. /\ step[t] = "created" /\ guildSet' = guildSet \cup {h}
        /\ UNCHANGED <<inside, online, cached, setUp, readySeen, missed, unclear>>
    BY <1>1, <1>8 DEF Gt!OnGuildCreate
  <2>2. h \notin unclear => h \in inside /\ h \in cached /\ h \notin missed
    BY <1>7, <2>1 DEF GuildFits
  <2>3. CASE /\ ~readySeen \/ h \in knownGuilds
             /\ Gt!Goto(t, "idle", nothing) /\ UNCHANGED <<knownGuilds, settled, rejudged>>
    <3>1. h \notin unclear => Seen(h)'
      BY <2>1 DEF Seen
    <3> QED
      BY <1>1, <1>4, <1>5, <1>7, <2>1, <2>2, <2>3, <3>1, GuildWorks
  <2>4. CASE /\ ~(~readySeen \/ h \in knownGuilds)
             /\ Gt!Goto(t, "judge", j) /\ knownGuilds' = knownGuilds \cup {h}
             /\ rejudged' = (IF h \in settled \ unclear THEN rejudged \cup {h} ELSE rejudged)
             /\ settled' = (IF h \in inside THEN settled \cup {h} ELSE settled)
    <3>1. rejudged' = {}
      BY <1>5, <1>7, <2>4
    <3>2. h \notin unclear => GuildFits("judge", h)'
      BY <2>1, <2>2 DEF GuildFits
    <3>3. /\ h \in settled' => h \in inside'
          /\ \A g : g # h => (g \in settled' <=> g \in settled) /\ (g \in knownGuilds' <=> g \in knownGuilds)
          /\ h \in knownGuilds'
      BY <1>5, <2>1, <2>4
    <3>4. "judge" \in AboutOne
      BY DEF AboutOne
    <3> QED
      BY <1>1, <1>4, <1>5, <2>1, <2>2, <2>4, <3>1, <3>2, <3>3, <3>4, GuildWorks
  <2> QED
    BY <1>1, <1>2, <1>3, <1>8, <2>3, <2>4, Zenon DEF Gt!OnGuildCreate, Gt!Finish
<1>9. CASE Gt!Judge(t)
  <2>1. /\ step[t] = "judge"
        /\ UNCHANGED <<inside, online, cached, setUp, guildSet, knownGuilds, readySeen, missed, unclear, settled, rejudged>>
        /\ \/ Gt!Goto(t, "leave", j)
           \/ Gt!Goto(t, "idle", nothing)
    BY <1>2, <1>3, <1>9 DEF Gt!Judge, Gt!Finish, Gt!data
  <2>2. h \notin unclear => GuildFits("leave", h)' /\ h \in inside /\ Seen(h)'
    BY <1>7, <2>1 DEF GuildFits, Seen
  <2>3. "leave" \in AboutOne
    BY DEF AboutOne
  <2> QED
    BY <1>1, <1>4, <1>5, <1>7, <2>1, <2>2, <2>3, GuildWorks
<1>10. CASE Gt!NotifyAndLeave(t)
  <2>1. step[t] = "leave" /\ UNCHANGED <<setUp, guildSet, knownGuilds, readySeen, rejudged, online, unclear>>
    BY <1>10 DEF Gt!NotifyAndLeave, Gt!bot
  <2>2. h \notin unclear => h \in inside /\ h \in cached /\ h \in guildSet /\ h \notin missed
    BY <1>7, <2>1 DEF GuildFits
  <2>3. CASE /\ inside' = inside \ {h} /\ settled' = settled \ {h}
             /\ cached' = (IF online THEN cached \ {h} ELSE cached)
             /\ missed' = (IF online THEN missed ELSE missed \cup {h})
             /\ IF online THEN Gt!Goto(t, "deleted", j) ELSE Gt!Goto(t, "idle", nothing)
    <3>1. /\ \A g : g # h => (g \in inside' <=> g \in inside) /\ (g \in cached' <=> g \in cached)
          /\ \A g : g # h => (g \in missed' <=> g \in missed) /\ (g \in settled' <=> g \in settled)
          /\ h \notin inside' /\ h \notin settled' /\ (h \in cached' => h \in cached)
      BY <2>3
    <3>2. CASE online
      <4>1. h \notin unclear => GuildFits("deleted", h)'
        BY <2>2, <2>3, <3>2 DEF GuildFits
      <4>2. "deleted" \in AboutOne
        BY DEF AboutOne
      <4> QED
        BY <1>1, <1>4, <1>5, <2>1, <2>3, <3>1, <3>2, <4>1, <4>2, GuildWorks
    <3>3. CASE ~online
      <4>1. h \in missed'
        BY <2>3, <3>3
      <4> QED
        BY <1>1, <1>4, <1>5, <2>1, <2>3, <3>1, <3>3, <4>1, GuildWorks
    <3> QED
      BY <3>2, <3>3
  <2>4. CASE Gt!Goto(t, "idle", nothing) /\ UNCHANGED <<inside, cached, missed, settled>>
    <3>1. h \notin unclear => Seen(h)'
      BY <2>1, <2>2 DEF Seen
    <3> QED
      BY <1>1, <1>4, <1>5, <1>7, <2>1, <2>2, <2>4, <3>1, GuildWorks
  <2> QED
    BY <1>1, <1>2, <1>3, <1>10, <2>3, <2>4, Zenon DEF Gt!NotifyAndLeave, Gt!Finish
<1>11. CASE Gt!OnGuildDelete(t)
  <2>1. /\ step[t] \in {"deleted", "unavailable"} /\ Gt!Goto(t, "idle", nothing)
        /\ UNCHANGED <<inside, online, cached, setUp, readySeen, missed, unclear, settled, rejudged>>
    BY <1>3, <1>11 DEF Gt!OnGuildDelete, Gt!Finish
  <2>2. CASE step[t] = "unavailable" /\ UNCHANGED <<guildSet, knownGuilds>>
    <3>1. Seen(h)' <=> Seen(h)
      BY <2>1, <2>2 DEF Seen
    <3> QED
      BY <1>1, <1>4, <1>5, <1>7, <2>1, <2>2, <3>1, GuildWorks
  <2>3. CASE step[t] = "deleted" /\ guildSet' = guildSet \ {h} /\ knownGuilds' = knownGuilds \ {h}
    <3>1. h \notin unclear => h \notin inside /\ h \notin cached /\ ~Seen(h)' /\ h \notin settled
      BY <1>5, <1>7, <2>1, <2>3 DEF GuildFits, Seen
    <3>2. \A g : g # h => (g \in guildSet' <=> g \in guildSet) /\ (g \in knownGuilds' <=> g \in knownGuilds)
      BY <2>3
    <3> QED
      BY <1>1, <1>4, <1>5, <2>1, <2>3, <3>1, <3>2, GuildWorks
  <2> QED
    BY <1>1, <1>11, <2>2, <2>3 DEF Gt!OnGuildDelete
<1> QED
  BY <1>8, <1>9, <1>10, <1>11

LEMMA GuildReadies ==
    ASSUME GuildInv, NEW t \in Tasks, Gt!Identify(t) \/ Gt!OnReady(t) \/ Gt!Baseline(t)
    PROVE  GuildInv'
<1>0. GuildShape /\ \A g \in Guilds \ unclear : Clear(g)
  BY DEF GuildInv
<1>1. CASE Gt!Identify(t)
  <2>1. PICK j : j = Gt!NoJob
    OBVIOUS
  <2>2. /\ ~online /\ online' = TRUE /\ step[t] = "idle" /\ Gt!Goto(t, "ready", j)
        /\ cached' = cached \cup inside
        /\ missed' = (IF setUp THEN missed ELSE missed \ inside)
        /\ unclear' = (IF Gt!Refreshing THEN unclear \cup missed ELSE unclear)
        /\ UNCHANGED <<setUp, guildSet, knownGuilds, readySeen, rejudged, inside, settled>>
    BY <1>1, <2>1 DEF Gt!Identify, Gt!bot
  <2>3. local[t].guild \notin Guilds /\ j.guild \notin Guilds
    BY <1>0, <2>1, <2>2, GuildNoJob DEF GuildShape, AboutOne
  <2>4. /\ step'[t] = "ready" /\ local'[t] = j
        /\ \A s \in Tasks \ {t} : step'[s] = step[s] /\ local'[s] = local[s]
    BY <1>0, <2>2, GuildMovesOn
  <2>5. GuildShape'
    <3>1. /\ inside' \subseteq Guilds /\ cached' \subseteq Guilds /\ guildSet' \subseteq Guilds
          /\ settled' \subseteq inside' /\ rejudged' = {} /\ inside' \subseteq cached'
      BY <1>0, <2>2 DEF GuildShape
    <3> QED
      BY <1>0, <2>2, <2>3, <3>1, GuildShapeStep DEF AboutOne
  <2>6. ASSUME NEW g \in Guilds, g \notin unclear' PROVE Clear(g)'
    <3>1. g \notin unclear /\ Clear(g)
      BY <1>0, <2>2, <2>6
    <3>2. /\ \A s \in Tasks : local'[s].guild = g <=> local[s].guild = g
          /\ \A s \in Tasks : local[s].guild = g => step'[s] = step[s]
          /\ \A s \in Tasks : /\ step'[s] = "baseline" <=> step[s] = "baseline"
                              /\ step[s] = "baseline" => local'[s] = local[s]
      BY <2>2, <2>3, <2>4
    <3>3. \A s \in Tasks : local'[s].guild = g => GuildFits(step[s], g)'
      <4>1. \A s \in Tasks : local'[s].guild = g => GuildFits(step'[s], g)
        BY <3>1, <3>2 DEF Clear
      <4> QED
        BY <2>2, <4>1 DEF GuildFits
    <3>4. \A s \in Tasks : step'[s] = "baseline" /\ g \in inside' /\ g \in cached' => g \in local'[s].guilds
      <4> SUFFICES ASSUME NEW s \in Tasks, step[s] = "baseline", g \in inside PROVE g \in local[s].guilds
        BY <2>2, <3>2
      <4>1. Gt!Refreshing
        BY DEF Gt!Refreshing
      <4>2. g \notin missed
        BY <2>2, <2>6, <4>1
      <4>3. g \in cached
        BY <1>0, <4>2 DEF GuildShape
      <4> QED
        BY <3>1, <4>3 DEF Clear
    <3>5. g \notin missed' /\ (\A s \in Tasks : local'[s].guild = g => step'[s] = "unavailable") =>
             /\ Seen(g)' => g \in inside'
             /\ (setUp \/ online)' /\ g \in inside' => Seen(g)'
      <4>1. CASE setUp
        BY <2>2, <3>1, <3>2, <4>1 DEF Clear, Seen
      <4>2. CASE ~setUp
        BY <2>2, <3>1, <3>2, <4>2 DEF Clear, Seen
      <4> QED
        BY <4>1, <4>2
    <3>6. g \in settled' => g \in cached'
      BY <2>5, <2>2 DEF GuildShape
    <3>7. g \in settled' /\ readySeen' => \/ g \in knownGuilds'
                                          \/ /\ \E s \in Tasks : step'[s] = "baseline"
                                             /\ \A s \in Tasks : local'[s].guild # g
      BY <2>2, <3>1, <3>2 DEF Clear
    <3>8. \A s, r \in Tasks : local'[s].guild = g /\ local'[r].guild = g => s = r
      BY <3>1, <3>2 DEF Clear
    <3> QED
      BY <3>3, <3>4, <3>5, <3>6, <3>7, <3>8 DEF Clear
  <2> QED
    BY <2>5, <2>6 DEF GuildInv
<1>2. CASE Gt!OnReady(t)
  <2>1. PICK j : j = [guild |-> NoGuild, guilds |-> cached]
    OBVIOUS
  <2>2. /\ step[t] = "ready" /\ Gt!Goto(t, "baseline", j)
        /\ settled' = settled \cup {g \in cached \cap inside : ~Gt!Busy(g)}
        /\ UNCHANGED <<setUp, guildSet, knownGuilds, readySeen, rejudged, inside, online, cached, missed, unclear>>
    BY <1>2, <2>1 DEF Gt!OnReady, Gt!bot
  <2>3. local[t].guild \notin Guilds /\ j.guild \notin Guilds /\ j.guilds = cached
    BY <1>0, <2>1, <2>2, GuildConstants DEF GuildShape, AboutOne
  <2>4. /\ step'[t] = "baseline" /\ local'[t] = j
        /\ \A s \in Tasks \ {t} : step'[s] = step[s] /\ local'[s] = local[s]
    BY <1>0, <2>2, GuildMovesOn
  <2>5. GuildShape'
    <3>1. /\ inside' \subseteq Guilds /\ cached' \subseteq Guilds /\ guildSet' \subseteq Guilds
          /\ settled' \subseteq inside' /\ rejudged' = {} /\ (online' => inside' \subseteq cached') /\ inside' \ cached' \subseteq missed'
      BY <1>0, <2>2 DEF GuildShape
    <3> QED
      BY <1>0, <2>2, <2>3, <3>1, GuildShapeStep DEF AboutOne
  <2>6. ASSUME NEW g \in Guilds, g \notin unclear PROVE Clear(g)'
    <3>1. Clear(g)
      BY <1>0, <2>6
    <3>2. /\ \A s \in Tasks : local'[s].guild = g <=> local[s].guild = g
          /\ \A s \in Tasks : local[s].guild = g => step'[s] = step[s]
      BY <2>2, <2>3, <2>4
    <3>3. \A s \in Tasks : local'[s].guild = g => GuildFits(step[s], g)'
      <4>1. \A s \in Tasks : local'[s].guild = g => GuildFits(step'[s], g)
        BY <3>1, <3>2 DEF Clear
      <4> QED
        BY <2>2, <4>1 DEF GuildFits
    <3>4. \A s \in Tasks : step'[s] = "baseline" /\ g \in inside' /\ g \in cached' => g \in local'[s].guilds
      BY <2>2, <2>3, <2>4, <3>1 DEF Clear
    <3>5. g \notin missed' /\ (\A s \in Tasks : local'[s].guild = g => step'[s] = "unavailable") =>
             /\ Seen(g)' => g \in inside'
             /\ (setUp \/ online)' /\ g \in inside' => Seen(g)'
      BY <2>2, <3>1, <3>2 DEF Clear, Seen
    <3>6. g \in settled' => g \in cached'
      BY <2>2, <3>1 DEF Clear
    <3>7. g \in settled' /\ readySeen' => \/ g \in knownGuilds'
                                          \/ /\ \E s \in Tasks : step'[s] = "baseline"
                                             /\ \A s \in Tasks : local'[s].guild # g
      BY <2>2, <2>4, <3>1, <3>2 DEF Clear, Gt!Busy
    <3>8. \A s, r \in Tasks : local'[s].guild = g /\ local'[r].guild = g => s = r
      BY <3>1, <3>2 DEF Clear
    <3> QED
      BY <3>3, <3>4, <3>5, <3>6, <3>7, <3>8 DEF Clear
  <2> QED
    BY <2>2, <2>5, <2>6 DEF GuildInv
<1>3. CASE Gt!Baseline(t)
  <2>1. PICK j : j = Gt!NoJob
    OBVIOUS
  <2>2. /\ step[t] = "baseline" /\ Gt!Goto(t, "idle", j)
        /\ knownGuilds' = local[t].guilds /\ readySeen' = TRUE
        /\ UNCHANGED <<setUp, guildSet, rejudged, inside, online, cached, missed, unclear, settled>>
    BY <1>3, <2>1 DEF Gt!Baseline, Gt!Finish
  <2>3. local[t].guild \notin Guilds /\ j.guild \notin Guilds
    BY <1>0, <2>1, <2>2, GuildNoJob DEF GuildShape, AboutOne
  <2>4. /\ step'[t] = "idle" /\ local'[t] = j
        /\ \A s \in Tasks \ {t} : step'[s] = step[s] /\ local'[s] = local[s]
    BY <1>0, <2>2, GuildMovesOn
  <2>5. GuildShape'
    <3>1. /\ inside' \subseteq Guilds /\ cached' \subseteq Guilds /\ guildSet' \subseteq Guilds
          /\ settled' \subseteq inside' /\ rejudged' = {} /\ (online' => inside' \subseteq cached') /\ inside' \ cached' \subseteq missed'
      BY <1>0, <2>2 DEF GuildShape
    <3> QED
      BY <1>0, <2>2, <2>3, <3>1, GuildShapeStep DEF AboutOne
  <2>6. ASSUME NEW g \in Guilds, g \notin unclear PROVE Clear(g)'
    <3>1. Clear(g)
      BY <1>0, <2>6
    <3>2. /\ \A s \in Tasks : local'[s].guild = g <=> local[s].guild = g
          /\ \A s \in Tasks : local[s].guild = g => step'[s] = step[s]
      BY <2>2, <2>3, <2>4
    <3>3. \A s \in Tasks : local'[s].guild = g => GuildFits(step[s], g)'
      <4>1. \A s \in Tasks : local'[s].guild = g => GuildFits(step'[s], g)
        BY <3>1, <3>2 DEF Clear
      <4> QED
        BY <2>2, <4>1 DEF GuildFits
    <3>4. \A s \in Tasks : step'[s] = "baseline" /\ g \in inside' /\ g \in cached' => g \in local'[s].guilds
      BY <2>2, <2>3, <2>4, <3>1 DEF Clear
    <3>5. g \notin missed' /\ (\A s \in Tasks : local'[s].guild = g => step'[s] = "unavailable") =>
             /\ Seen(g)' => g \in inside'
             /\ (setUp \/ online)' /\ g \in inside' => Seen(g)'
      BY <2>2, <3>1, <3>2 DEF Clear, Seen
    <3>6. g \in settled' => g \in cached'
      BY <2>2, <3>1 DEF Clear
    <3>7. g \in settled' => g \in knownGuilds'
      <4>1. g \in settled => g \in inside /\ g \in cached
        BY <1>0, <2>2, <3>1 DEF Clear, GuildShape
      <4> QED
        BY <2>2, <3>1, <4>1 DEF Clear
    <3>8. \A s, r \in Tasks : local'[s].guild = g /\ local'[r].guild = g => s = r
      BY <3>1, <3>2 DEF Clear
    <3> QED
      BY <3>3, <3>4, <3>5, <3>6, <3>7, <3>8 DEF Clear
  <2> QED
    BY <2>2, <2>5, <2>6 DEF GuildInv
<1> QED
  BY <1>1, <1>2, <1>3

\* What no task does: the connection, the process, setup, and what is missed.
LEMMA GuildByItself ==
    ASSUME GuildInv, Gt!Disconnect \/ Gt!Crash \/ Gt!SetUp \/ \E h \in Guilds : Gt!MissedMove(h)
    PROVE  GuildInv'
<1>0. GuildShape /\ \A g \in Guilds \ unclear : Clear(g)
  BY DEF GuildInv
<1>1. CASE Gt!Disconnect
  <2>1. online' = FALSE /\ UNCHANGED <<setUp, guildSet, knownGuilds, readySeen, rejudged, inside, cached, missed, unclear,
                                       settled, step, local>>
    BY <1>1 DEF Gt!Disconnect, Gt!bot
  <2>2. GuildShape'
    BY <1>0, <2>1 DEF GuildShape
  <2>3. ASSUME NEW g \in Guilds \ unclear PROVE Clear(g)'
    <3>1. Clear(g)
      BY <1>0
    <3>2. /\ Seen(g)' <=> Seen(g)
          /\ \A s \in Tasks : GuildFits(step[s], g) => GuildFits(step[s], g)'
      BY <2>1 DEF Seen, GuildFits
    <3> QED
      BY <2>1, <3>1, <3>2 DEF Clear
  <2> QED
    BY <2>1, <2>2, <2>3 DEF GuildInv
<1>2. CASE Gt!Crash
  <2>1. PICK j : j = Gt!NoJob
    OBVIOUS
  <2>2. /\ online' = FALSE /\ cached' = {} /\ setUp' = FALSE /\ guildSet' = {} /\ readySeen' = FALSE
        /\ step' = [t \in Tasks |-> "idle"] /\ local' = [t \in Tasks |-> j]
        /\ missed' = {} /\ unclear' = {} /\ UNCHANGED <<inside, settled, rejudged>>
    BY <1>2, <2>1 DEF Gt!Crash
  <2>3. \A t \in Tasks : step'[t] = "idle" /\ local'[t].guild \notin Guilds
    BY <2>1, <2>2, GuildNoJob
  <2>4. GuildShape'
    BY <1>0, <2>2, <2>3 DEF GuildShape, AboutOne
  <2>5. ASSUME NEW g \in Guilds PROVE Clear(g)'
    BY <2>2, <2>3 DEF Clear, Seen
  <2> QED
    BY <2>4, <2>5 DEF GuildInv
<1>3. CASE Gt!SetUp
  <2>1. /\ online /\ ~setUp /\ setUp' = TRUE /\ guildSet' = guildSet \cup cached
        /\ UNCHANGED <<inside, online, cached, knownGuilds, readySeen, missed, unclear, settled, rejudged, step, local>>
    BY <1>3 DEF Gt!SetUp
  <2>2. GuildShape'
    BY <1>0, <2>1 DEF GuildShape
  <2>3. ASSUME NEW g \in Guilds \ unclear PROVE Clear(g)'
    <3>1. Clear(g)
      BY <1>0
    <3>2. /\ Seen(g)' <=> Seen(g)
          /\ \A s \in Tasks : GuildFits(step[s], g) => GuildFits(step[s], g)'
      BY <2>1 DEF Seen, GuildFits
    <3> QED
      BY <2>1, <3>1, <3>2 DEF Clear
  <2> QED
    BY <2>1, <2>2, <2>3 DEF GuildInv
<1>4. ASSUME NEW h \in Guilds, Gt!MissedMove(h) PROVE GuildInv'
  <2>1. /\ ~online /\ inside' = (IF h \in inside THEN inside \ {h} ELSE inside \cup {h})
        /\ settled' = settled \ {h} /\ missed' = missed \cup {h}
        /\ unclear' = (IF Gt!Busy(h) \/ Gt!Refreshing THEN unclear \cup {h} ELSE unclear)
        /\ UNCHANGED <<setUp, guildSet, knownGuilds, readySeen, rejudged, online, cached, step, local>>
    BY <1>4 DEF Gt!MissedMove, Gt!bot
  <2>2. /\ \A g : g # h => /\ g \in inside' <=> g \in inside
                           /\ g \in settled' <=> g \in settled
                           /\ g \in missed' <=> g \in missed
        /\ h \in missed' /\ h \notin settled'
    BY <2>1
  <2>3. GuildShape'
    <3>1. \A g \in settled' : g \in inside'
      BY <1>0, <2>2 DEF GuildShape
    <3>2. (\E t \in Tasks : step'[t] # "idle") => \A g \in inside' \ cached' : g \in missed'
      BY <1>0, <2>1, <2>2 DEF GuildShape
    <3>3. \A g \in inside' : g \in Guilds
      BY <1>0, <2>2 DEF GuildShape
    <3> QED
      BY <1>0, <2>1, <3>1, <3>2, <3>3 DEF GuildShape
  <2>4. ASSUME NEW g \in Guilds \ {h}, g \notin unclear' PROVE Clear(g)'
    <3>1. Clear(g)
      BY <1>0, <2>1, <2>4
    <3>2. /\ Seen(g)' <=> Seen(g)
          /\ \A s \in Tasks : GuildFits(step[s], g) => GuildFits(step[s], g)'
      BY <2>1, <2>2 DEF Seen, GuildFits
    <3> QED
      BY <2>1, <2>2, <3>1, <3>2 DEF Clear
  <2>5. ASSUME h \notin unclear' PROVE Clear(h)'
    <3>1. \A s \in Tasks : local[s].guild # h /\ step[s] # "baseline"
      BY <2>1, <2>5 DEF Gt!Busy, Gt!Refreshing
    <3> QED
      BY <2>1, <2>2, <3>1 DEF Clear
  <2> QED
    BY <2>3, <2>4, <2>5 DEF GuildInv
<1> QED
  BY <1>1, <1>2, <1>3, <1>4

LEMMA GuildStep == GuildInv /\ [Gt!Next]_(Gt!vars) => GuildInv'
<1> SUFFICES ASSUME GuildInv, [Gt!Next]_(Gt!vars) PROVE GuildInv'
  OBVIOUS
<1>1. CASE UNCHANGED Gt!vars
  <2>1. UNCHANGED <<inside, online, cached, setUp, guildSet, knownGuilds, readySeen, missed, unclear, settled, rejudged, step, local>>
    BY <1>1 DEF Gt!vars, Gt!data
  <2> QED
    BY <2>1 DEF GuildInv, GuildShape, Clear, GuildFits, Seen
<1> QED
  BY <1>1, GuildEvents, GuildTasks, GuildReadies, GuildByItself, Zenon DEF Gt!Next

LEMMA GuildInit == Gt!DataInit /\ Gt!TaskInit => GuildInv
<1> SUFFICES ASSUME Gt!DataInit, Gt!TaskInit PROVE GuildInv
  OBVIOUS
<1>1. PICK j : j = Gt!NoJob
  OBVIOUS
<1>2. /\ inside = {} /\ online = FALSE /\ cached = {} /\ setUp = FALSE /\ guildSet = {} /\ readySeen = FALSE
      /\ settled = {} /\ rejudged = {}
      /\ step = [t \in Tasks |-> "idle"] /\ local = [t \in Tasks |-> j]
  BY <1>1 DEF Gt!DataInit, Gt!TaskInit
<1>3. \A t \in Tasks : step[t] = "idle" /\ local[t].guild \notin Guilds
  BY <1>1, <1>2, GuildNoJob
<1>4. GuildShape
  BY <1>2, <1>3 DEF GuildShape, AboutOne
<1>5. ASSUME NEW g \in Guilds PROVE Clear(g)
  BY <1>2, <1>3 DEF Clear, Seen
<1> QED
  BY <1>4, <1>5 DEF GuildInv

\* Whatever is joined, left, missed or announced again, guild_set is off by no guild but those
\* missed or whose events overlapped, and no guild the bot was in already is judged as a new
\* one (on_ready, on_guild_create, on_guild_delete).
THEOREM GuildsWellTracked == MCSpec => []GuildsTracked
<1> DEFINE Inv == focus = "guilds" => GuildInv
<1>1. MCInit => Inv
  BY GuildInit DEF MCInit
<1>2. Inv /\ [MCNext]_<<focus, State, step, local, budget>> => Inv'
  BY GuildStep DEF MCNext, State, guildVars, Gt!vars, Gt!data
<1>3. Inv => GuildsTracked
  <2> SUFFICES ASSUME GuildInv PROVE Gt!GuildSetInStep /\ Gt!NoneJudgedAgain
    BY DEF GuildsTracked
  <2>1. Gt!NoneJudgedAgain
    BY DEF GuildInv, GuildShape, Gt!NoneJudgedAgain
  <2>2. ASSUME setUp, \A t \in Tasks : step[t] = "idle", NEW g \in Guilds, g \notin missed, g \notin unclear
        PROVE g \in inside <=> g \in guildSet
    BY <2>2 DEF GuildInv, GuildShape, Clear, Seen, AboutOne
  <2>3. inside \subseteq Guilds /\ guildSet \subseteq Guilds
    BY DEF GuildInv, GuildShape
  <2> QED
    BY <2>1, <2>2, <2>3 DEF Gt!GuildSetInStep
<1> QED
  BY <1>1, <1>2, <1>3, PTL DEF MCSpec

(***************************************************************************)
(* Roles changed by command.                                               *)
(***************************************************************************)
\* A finite set of numbers has a greatest and a least, for nothing is greater, or less.
LEMMA MaxOf ==
    ASSUME NEW S \in SUBSET Nat, IsFiniteSet(S), S # {}
    PROVE  \E x \in S : \A y \in S : x >= y
<1> DEFINE Above(x) == {y \in S : y > x}
           All == {Above(x) : x \in S}
<1>1. All \subseteq SUBSET S /\ All # {}
  OBVIOUS
<1>2. IsWellFoundedOn(StrictSubsetOrdering(S), SUBSET S)
  <2>1. FiniteSubsetsOf(S) = SUBSET S
    BY FS_Subset DEF FiniteSubsetsOf
  <2> QED
    BY <2>1, FS_StrictSubsetOrderingWellFounded
<1>3. PICK least \in All : \A other \in All : <<other, least>> \notin StrictSubsetOrdering(S)
  <2> HIDE DEF All
  <2> QED
    BY <1>1, <1>2, WFMin
<1>4. PICK x \in S : least = Above(x)
  BY <1>3
<1>5. ASSUME NEW y \in S, ~(x >= y) PROVE FALSE
  <2>1. y > x /\ x \in Nat /\ y \in Nat
    BY <1>5
  <2>2. y \in Above(x) /\ y \notin Above(y) /\ Above(y) \subseteq Above(x)
    <3>1. \A z \in S : z \in Nat /\ (z > y => z > x) /\ ~(y > y)
      BY <2>1
    <3> QED
      BY <2>1, <3>1
  <2>3. <<Above(y), least>> \in StrictSubsetOrdering(S)
    <3> HIDE DEF Above
    <3>1. Above(y) \subseteq S /\ Above(x) \subseteq S
      BY DEF Above
    <3> QED
      BY <1>4, <2>2, <3>1 DEF StrictSubsetOrdering
  <2> QED
    BY <1>3, <2>3
<1> QED
  BY <1>5

LEMMA MinOf ==
    ASSUME NEW S \in SUBSET Nat, IsFiniteSet(S), S # {}
    PROVE  \E x \in S : \A y \in S : x <= y
<1> DEFINE Below(x) == {y \in S : y < x}
           All == {Below(x) : x \in S}
<1>1. All \subseteq SUBSET S /\ All # {}
  OBVIOUS
<1>2. IsWellFoundedOn(StrictSubsetOrdering(S), SUBSET S)
  <2>1. FiniteSubsetsOf(S) = SUBSET S
    BY FS_Subset DEF FiniteSubsetsOf
  <2> QED
    BY <2>1, FS_StrictSubsetOrderingWellFounded
<1>3. PICK least \in All : \A other \in All : <<other, least>> \notin StrictSubsetOrdering(S)
  <2> HIDE DEF All
  <2> QED
    BY <1>1, <1>2, WFMin
<1>4. PICK x \in S : least = Below(x)
  BY <1>3
<1>5. ASSUME NEW y \in S, ~(x <= y) PROVE FALSE
  <2>1. y < x /\ x \in Nat /\ y \in Nat
    BY <1>5
  <2>2. y \in Below(x) /\ y \notin Below(y) /\ Below(y) \subseteq Below(x)
    <3>1. \A z \in S : z \in Nat /\ (z < y => z < x) /\ ~(y < y)
      BY <2>1
    <3> QED
      BY <2>1, <3>1
  <2>3. <<Below(y), least>> \in StrictSubsetOrdering(S)
    <3> HIDE DEF Below
    <3>1. Below(y) \subseteq S /\ Below(x) \subseteq S
      BY DEF Below
    <3> QED
      BY <1>4, <2>2, <3>1 DEF StrictSubsetOrdering
  <2> QED
    BY <1>3, <2>3
<1> QED
  BY <1>5

BrP == INSTANCE BulkRolesProofs WITH pc <- step, job <- local, allowed <- budget, MaxPresses <- BulkPresses

BulkSteps == {"idle", "change", "fetch", "prompt", "insert", "start", "cancel", "run"}
BulkLocals == [member : Holders \cup {NoHolder}, add : SUBSET Ranks, drop : SUBSET Ranks,
               top : Ranks \cup {0}, prompt : Prompts \cup {NoPrompt},
               change : Br!Changes \cup {NoChange}]
\* Who has a change under way knows which, who changes a member whom.
BulkersFit ==
    \A t \in Tasks : /\ step[t] \in {"fetch", "prompt", "insert", "run"} => local[t].change \in Br!Changes
                     /\ step[t] = "change" => local[t].member \in Holders
                     /\ step[t] \in {"insert", "start", "cancel", "run"} => local[t].prompt \in Prompts

BulkTyped == Br!TypeOK /\ BulkersFit
BulkInv == BrP!IInv /\ BulkTyped /\ Br!NoneAboveAuthor

LEMMA BulkTypes ==
    BulkTyped <=>
        /\ BulkersFit /\ holds \in [Holders -> SUBSET Ranks] /\ botTop \in Ranks
        /\ buttons \subseteq Prompts /\ asked \subseteq Prompts /\ confirmed \subseteq Prompts /\ calledOff \subseteq Prompts
        /\ pending \in [Prompts -> Br!Changes \cup {NoChange}] /\ begun \in [Prompts -> Nat]
        /\ step \in [Tasks -> BulkSteps] /\ local \in [Tasks -> BulkLocals]
  BY DEF BulkTyped, Br!TypeOK, BulkSteps, BulkLocals

LEMMA BulkMoves ==
    ASSUME BulkTyped, NEW t \in Tasks, NEW p \in BulkSteps, NEW j \in BulkLocals, Br!Goto(t, p, j),
           p \in {"fetch", "prompt", "insert", "run"} => j.change \in Br!Changes,
           p = "change" => j.member \in Holders,
           p \in {"insert", "start", "cancel", "run"} => j.prompt \in Prompts
    PROVE  BulkersFit' /\ step' \in [Tasks -> BulkSteps] /\ local' \in [Tasks -> BulkLocals]
<1>1. step \in [Tasks -> BulkSteps] /\ local \in [Tasks -> BulkLocals] /\ BulkersFit
  BY BulkTypes
<1>2. /\ step'[t] = p /\ local'[t] = j
      /\ \A s \in Tasks \ {t} : step'[s] = step[s] /\ local'[s] = local[s]
  BY <1>1 DEF Br!Goto
<1>3. step' \in [Tasks -> BulkSteps] /\ local' \in [Tasks -> BulkLocals]
  BY <1>1 DEF Br!Goto
<1> QED
  BY <1>1, <1>2, <1>3 DEF BulkersFit

LEMMA BulkJobs ==
    /\ Br!NoJob \in BulkLocals /\ Br!NoJob.add = {}
    /\ \A m \in Prompts \cup {NoPrompt}, c \in Br!Changes \cup {NoChange} :
          /\ Br!OfPrompt(m, c) \in BulkLocals /\ Br!OfPrompt(m, c).add = {}
          /\ Br!OfPrompt(m, c).prompt = m /\ Br!OfPrompt(m, c).change = c
    /\ \A u \in Holders \cup {NoHolder}, add \in SUBSET Ranks, drop \in SUBSET Ranks, top \in Ranks \cup {0} :
          /\ Br!OfMember(u, add, drop, top) \in BulkLocals
          /\ Br!OfMember(u, add, drop, top).member = u
          /\ Br!OfMember(u, add, drop, top).add = add /\ Br!OfMember(u, add, drop, top).top = top
  BY DEF Br!NoJob, Br!OfPrompt, Br!OfMember, Br!Job, BulkLocals

LEMMA TopRoleType ==
    ASSUME NEW set \in SUBSET Ranks
    PROVE  Br!TopRole(set) \in Ranks \cup {0} /\ Br!TopRole(set) \in Nat
<1>1. set \cup {0} \in SUBSET Nat /\ IsFiniteSet(set \cup {0})
  <2>1. IsFiniteSet(set)
    BY BulkConstants, FS_Subset
  <2> QED
    BY <2>1, BulkConstants, FS_AddElement
<1>2. \E x \in set \cup {0} : \A y \in set \cup {0} : x >= y
  BY <1>1, MaxOf
<1> QED
  BY <1>1, <1>2 DEF Br!TopRole, Br!Max

LEMMA CallType ==
    ASSUME BulkTyped, NEW u \in Holders, NEW role \in Ranks, NEW adds, Br!Call(u, role, adds)
    PROVE  holds' \in [Holders -> SUBSET Ranks]
<1>1. holds \in [Holders -> SUBSET Ranks]
  BY BulkTypes
<1>2. \/ holds' = [holds EXCEPT ![u] = @ \cup {role}] \/ holds' = [holds EXCEPT ![u] = @ \ {role}] \/ holds' = holds
  BY DEF Br!Call
<1> QED
  BY <1>1, <1>2

LEMMA BulkTypedStep == ASSUME BulkTyped, Br!Next PROVE BulkTyped'
<1>0. /\ BulkersFit /\ holds \in [Holders -> SUBSET Ranks] /\ botTop \in Ranks
      /\ buttons \subseteq Prompts /\ asked \subseteq Prompts /\ confirmed \subseteq Prompts /\ calledOff \subseteq Prompts
      /\ pending \in [Prompts -> Br!Changes \cup {NoChange}] /\ begun \in [Prompts -> Nat]
      /\ step \in [Tasks -> BulkSteps] /\ local \in [Tasks -> BulkLocals]
  BY BulkTypes
<1>1. \A t \in Tasks : local[t] \in BulkLocals
  BY <1>0
<1>2. ASSUME /\ holds' \in [Holders -> SUBSET Ranks] /\ botTop' \in Ranks
             /\ buttons' \subseteq Prompts /\ asked' \subseteq Prompts /\ confirmed' \subseteq Prompts
             /\ calledOff' \subseteq Prompts
             /\ pending' \in [Prompts -> Br!Changes \cup {NoChange}] /\ begun' \in [Prompts -> Nat],
             NEW t \in Tasks, NEW p \in BulkSteps, NEW j \in BulkLocals, Br!Goto(t, p, j),
             p \in {"fetch", "prompt", "insert", "run"} => j.change \in Br!Changes,
             p = "change" => j.member \in Holders,
             p \in {"insert", "start", "cancel", "run"} => j.prompt \in Prompts
      PROVE  BulkTyped'
  <2>1. BulkersFit' /\ step' \in [Tasks -> BulkSteps] /\ local' \in [Tasks -> BulkLocals]
    BY <1>2, BulkMoves
  <2> QED
    BY <1>2, <2>1 DEF BulkTyped, Br!TypeOK, BulkSteps, BulkLocals
<1>3. Br!data' = Br!data => UNCHANGED <<holds, botTop, buttons, pending, asked, confirmed, calledOff, begun>>
  BY DEF Br!data
<1>4. {"idle", "change", "fetch", "prompt", "insert", "start", "cancel", "run"} \subseteq BulkSteps
  BY DEF BulkSteps
<1>5. ASSUME NEW t \in Tasks, NEW add \in SUBSET Ranks, NEW drop \in SUBSET Ranks, Br!ChangeMember(t, add, drop)
      PROVE  BulkTyped'
  <2>1. PICK author \in Holders \ Bots, u \in Holders :
          Br!Goto(t, "change", Br!OfMember(u, add, drop, Br!TopRole(holds[author])))
    BY <1>5 DEF Br!ChangeMember
  <2>2. PICK j : j = Br!OfMember(u, add, drop, Br!TopRole(holds[author]))
    OBVIOUS
  <2>3. Br!TopRole(holds[author]) \in Ranks \cup {0}
    BY <1>0, TopRoleType
  <2>4. j \in BulkLocals /\ j.member \in Holders
    BY <1>5, <2>2, <2>3, BulkJobs
  <2>5. Br!Goto(t, "change", j) /\ UNCHANGED <<holds, botTop, buttons, pending, asked, confirmed, calledOff, begun>>
    BY <1>3, <1>5, <2>1, <2>2 DEF Br!ChangeMember
  <2> QED
    BY <1>0, <1>2, <1>4, <2>4, <2>5
<1>6. ASSUME NEW t \in Tasks, Br!RoleAdd(t) \/ Br!RoleRemove(t) \/ Br!RoleCustom(t) PROVE BulkTyped'
  <2>1. PICK add \in SUBSET Ranks, drop \in SUBSET Ranks : Br!ChangeMember(t, add, drop)
    <3>1. \A r \in Ranks : {r} \in SUBSET Ranks /\ {} \in SUBSET Ranks
      OBVIOUS
    <3> QED
      BY <1>6, <3>1, Zenon DEF Br!RoleAdd, Br!RoleRemove, Br!RoleCustom
  <2> QED
    BY <1>5, <2>1
<1>7. ASSUME NEW t \in Tasks, Br!ChangeNext(t) PROVE BulkTyped'
  <2>1. /\ step[t] = "change" /\ local[t].member \in Holders
        /\ local[t].add \subseteq Ranks /\ local[t].drop \subseteq Ranks /\ local[t].top \in Ranks \cup {0}
    BY <1>0, <1>1, <1>7 DEF Br!ChangeNext, BulkersFit, BulkLocals
  <2>2. UNCHANGED <<botTop, buttons, pending, asked, confirmed, calledOff, begun>>
    BY <1>7 DEF Br!ChangeNext, Br!SamePrompts
  <2>3. ASSUME NEW add \in SUBSET Ranks, NEW drop \in SUBSET Ranks,
               Br!Goto(t, "change", Br!OfMember(local[t].member, add, drop, local[t].top)),
               holds' \in [Holders -> SUBSET Ranks]
        PROVE  BulkTyped'
    <3>1. PICK j : j = Br!OfMember(local[t].member, add, drop, local[t].top)
      OBVIOUS
    <3>2. j \in BulkLocals /\ j.member \in Holders /\ Br!Goto(t, "change", j)
      BY <2>1, <2>3, <3>1, BulkJobs
    <3> QED
      BY <1>0, <1>2, <1>4, <2>2, <2>3, <3>2
  <2>4. CASE \E r \in local[t].add :
               /\ Br!Call(local[t].member, r, TRUE)
               /\ Br!Goto(t, "change", Br!OfMember(local[t].member, local[t].add \ {r}, local[t].drop, local[t].top))
    <3>1. PICK r \in local[t].add :
               /\ Br!Call(local[t].member, r, TRUE)
               /\ Br!Goto(t, "change", Br!OfMember(local[t].member, local[t].add \ {r}, local[t].drop, local[t].top))
      BY <2>4
    <3>2. r \in Ranks /\ local[t].add \ {r} \in SUBSET Ranks /\ local[t].drop \in SUBSET Ranks
      BY <2>1
    <3>3. holds' \in [Holders -> SUBSET Ranks]
      BY <2>1, <3>1, <3>2, CallType
    <3> QED
      BY <2>3, <3>1, <3>2, <3>3
  <2>5. CASE \E r \in local[t].drop :
               /\ Br!Call(local[t].member, r, FALSE)
               /\ Br!Goto(t, "change", Br!OfMember(local[t].member, {}, local[t].drop \ {r}, local[t].top))
    <3>1. PICK r \in local[t].drop :
               /\ Br!Call(local[t].member, r, FALSE)
               /\ Br!Goto(t, "change", Br!OfMember(local[t].member, {}, local[t].drop \ {r}, local[t].top))
      BY <2>5
    <3>2. r \in Ranks /\ local[t].drop \ {r} \in SUBSET Ranks /\ {} \in SUBSET Ranks
      BY <2>1
    <3>3. holds' \in [Holders -> SUBSET Ranks]
      BY <2>1, <3>1, <3>2, CallType
    <3> QED
      BY <2>3, <3>1, <3>2, <3>3
  <2>6. CASE Br!Finish(t) /\ holds' = holds
    BY <1>0, <1>2, <1>4, <2>2, <2>6, BulkJobs DEF Br!Finish
  <2> QED
    BY <1>7, <2>4, <2>5, <2>6, Zenon DEF Br!ChangeNext
<1>8. ASSUME NEW t \in Tasks, NEW p \in {"fetch", "prompt", "insert", "run"}, NEW m \in Prompts \cup {NoPrompt},
             p \in {"insert", "run"} => m \in Prompts, NEW c \in Br!Changes, Br!Goto(t, p, Br!OfPrompt(m, c)),
             /\ holds' \in [Holders -> SUBSET Ranks] /\ botTop' \in Ranks
             /\ buttons' \subseteq Prompts /\ asked' \subseteq Prompts /\ confirmed' \subseteq Prompts
             /\ calledOff' \subseteq Prompts
             /\ pending' \in [Prompts -> Br!Changes \cup {NoChange}] /\ begun' \in [Prompts -> Nat]
      PROVE  BulkTyped'
  <2>1. PICK j : j = Br!OfPrompt(m, c)
    OBVIOUS
  <2>2. j \in BulkLocals /\ j.prompt = m /\ j.change = c /\ Br!Goto(t, p, j) /\ p \in BulkSteps
    BY <1>4, <1>8, <2>1, BulkJobs
  <2> QED
    BY <1>2, <1>8, <2>2
<1>9. ASSUME NEW t \in Tasks, step[t] \in {"fetch", "prompt", "insert", "run"}
      PROVE  local[t].change \in Br!Changes
  BY <1>0, <1>9 DEF BulkersFit
<1>10. \A c \in Br!Changes : c.role \in Ranks /\ c.adds \in BOOLEAN /\ c.targets \subseteq Holders \ Bots
  BY DEF Br!Changes
<1>11. \A r \in Ranks, adds \in BOOLEAN, set \in SUBSET (Holders \ Bots) : Br!Change(r, adds, set) \in Br!Changes
  BY DEF Br!Change, Br!Changes
<1>12. ASSUME NEW t \in Tasks, Br!RoleAll(t) PROVE BulkTyped'
  <2>1. PICK r \in Ranks, adds \in BOOLEAN : Br!Goto(t, "fetch", Br!OfPrompt(NoPrompt, Br!Change(r, adds, {})))
    BY <1>12 DEF Br!RoleAll
  <2>2. Br!Change(r, adds, {}) \in Br!Changes
    BY <1>11
  <2>3. UNCHANGED <<holds, botTop, buttons, pending, asked, confirmed, calledOff, begun>>
    BY <1>3, <1>12 DEF Br!RoleAll
  <2> QED
    BY <1>0, <1>8, <2>1, <2>2, <2>3
<1>13. ASSUME NEW t \in Tasks, Br!FetchAllMembers(t) PROVE BulkTyped'
  <2>1. step[t] = "fetch" /\ UNCHANGED <<holds, botTop, buttons, pending, asked, confirmed, calledOff, begun>>
    BY <1>3, <1>13 DEF Br!FetchAllMembers
  <2>2. PICK set \in SUBSET (Holders \ Bots) :
          Br!Goto(t, "prompt", Br!OfPrompt(NoPrompt, Br!Change(local[t].change.role, local[t].change.adds, set)))
    BY <1>13, Zenon DEF Br!FetchAllMembers
  <2>3. Br!Change(local[t].change.role, local[t].change.adds, set) \in Br!Changes
    BY <1>9, <1>10, <1>11, <2>1
  <2> QED
    BY <1>0, <1>8, <2>1, <2>2, <2>3
<1>14. ASSUME NEW t \in Tasks, Br!ShowPrompt(t) PROVE BulkTyped'
  <2>1. PICK m \in Prompts \ asked :
          /\ buttons' = buttons \cup {m} /\ asked' = asked \cup {m}
          /\ Br!Goto(t, "insert", Br!OfPrompt(m, local[t].change))
    BY <1>14 DEF Br!ShowPrompt
  <2>2. step[t] = "prompt" /\ UNCHANGED <<holds, botTop, pending, confirmed, calledOff, begun>>
    BY <1>14 DEF Br!ShowPrompt
  <2> QED
    BY <1>0, <1>8, <1>9, <2>1, <2>2
<1>15. Br!NoJob \in BulkLocals /\ "idle" \in BulkSteps
  BY <1>4, BulkJobs
<1>16. ASSUME NEW t \in Tasks, Br!StorePending(t) PROVE BulkTyped'
  <2>1. step[t] = "insert" /\ Br!Goto(t, "idle", Br!NoJob)
        /\ UNCHANGED <<holds, botTop, buttons, asked, confirmed, calledOff, begun>>
    BY <1>16 DEF Br!StorePending, Br!Finish
  <2>2. PICK lost : pending' = [m \in Prompts |-> IF m = local[t].prompt THEN local[t].change
                                                    ELSE IF m \in lost THEN NoChange ELSE pending[m]]
    BY <1>16 DEF Br!StorePending
  <2>3. pending' \in [Prompts -> Br!Changes \cup {NoChange}]
    BY <1>0, <1>9, <2>1, <2>2
  <2> QED
    BY <1>0, <1>2, <1>15, <2>1, <2>3
<1>17. ASSUME NEW t \in Tasks, NEW m \in Prompts, Br!PressStart(t, m) \/ Br!PressCancel(t, m) PROVE BulkTyped'
  <2>1. PICK p \in {"start", "cancel"} : Br!Goto(t, p, Br!OfPrompt(m, NoChange))
    BY <1>17 DEF Br!PressStart, Br!PressCancel
  <2>2. PICK j : j = Br!OfPrompt(m, NoChange)
    OBVIOUS
  <2>3. j \in BulkLocals /\ j.prompt = m /\ Br!Goto(t, p, j) /\ p \in BulkSteps
    BY <1>4, <2>1, <2>2, BulkJobs
  <2>4. confirmed' \subseteq Prompts /\ UNCHANGED <<holds, botTop, buttons, pending, asked, calledOff, begun>>
    BY <1>0, <1>3, <1>17 DEF Br!PressStart, Br!PressCancel
  <2> QED
    BY <1>0, <1>2, <2>3, <2>4
<1>18. ASSUME NEW t \in Tasks, step[t] \in {"start", "cancel", "run"} PROVE local[t].prompt \in Prompts
  BY <1>0, <1>18 DEF BulkersFit
<1>19. ASSUME NEW m, Br!Withdraw(m) PROVE buttons' \subseteq Prompts
  BY <1>0, <1>19 DEF Br!Withdraw
<1>20. ASSUME NEW t \in Tasks, Br!Cancel(t) PROVE BulkTyped'
  <2>1. step[t] = "cancel" /\ Br!Goto(t, "idle", Br!NoJob) /\ UNCHANGED <<holds, botTop, asked, confirmed, begun>>
    BY <1>20 DEF Br!Cancel, Br!Finish
  <2>2. buttons' \subseteq Prompts
    BY <1>19, <1>20 DEF Br!Cancel
  <2>3. pending' \in [Prompts -> Br!Changes \cup {NoChange}] /\ calledOff' \subseteq Prompts
    BY <1>0, <1>18, <1>20, <2>1 DEF Br!Cancel
  <2> QED
    BY <1>0, <1>2, <1>15, <2>1, <2>2, <2>3
<1>21. ASSUME NEW t \in Tasks, Br!Start(t) PROVE BulkTyped'
  <2>1. step[t] = "start" /\ local[t].prompt \in Prompts /\ UNCHANGED <<holds, botTop, asked, confirmed, calledOff>>
    BY <1>18, <1>21 DEF Br!Start
  <2>2. CASE /\ pending[local[t].prompt] # NoChange
             /\ pending' = [pending EXCEPT ![local[t].prompt] = NoChange]
             /\ begun' = [begun EXCEPT ![local[t].prompt] = @ + 1]
             /\ Br!Goto(t, "run", Br!OfPrompt(local[t].prompt, pending[local[t].prompt]))
             /\ Br!Withdraw(local[t].prompt)
    <3>1. buttons' \subseteq Prompts /\ pending[local[t].prompt] \in Br!Changes
      BY <1>0, <1>19, <2>1, <2>2
    <3>2. pending' \in [Prompts -> Br!Changes \cup {NoChange}] /\ begun' \in [Prompts -> Nat]
      BY <1>0, <2>1, <2>2
    <3>3. PICK c \in Br!Changes : c = pending[local[t].prompt]
      BY <3>1
    <3> QED
      BY <1>0, <1>8, <2>1, <2>2, <3>1, <3>2, <3>3
  <2>3. CASE Br!Finish(t) /\ UNCHANGED <<pending, begun, buttons>>
    BY <1>0, <1>2, <1>15, <2>1, <2>3 DEF Br!Finish
  <2> QED
    BY <1>21, <2>2, <2>3 DEF Br!Start
<1>22. ASSUME NEW t \in Tasks, Br!RunBulk(t) PROVE BulkTyped'
  <2>1. /\ step[t] = "run" /\ local[t].prompt \in Prompts /\ local[t].change \in Br!Changes
        /\ UNCHANGED <<botTop, buttons, pending, asked, confirmed, calledOff, begun>>
    BY <1>9, <1>18, <1>22 DEF Br!RunBulk, Br!SamePrompts
  <2>2. ASSUME NEW u \in local[t].change.targets, Br!Call(u, local[t].change.role, local[t].change.adds),
               Br!Goto(t, "run", Br!OfPrompt(local[t].prompt,
                  Br!Change(local[t].change.role, local[t].change.adds, local[t].change.targets \ {u})))
        PROVE  BulkTyped'
    <3>1. u \in Holders /\ local[t].change.role \in Ranks
      BY <1>10, <2>1
    <3>2. holds' \in [Holders -> SUBSET Ranks]
      BY <2>2, <3>1, CallType
    <3>3. Br!Change(local[t].change.role, local[t].change.adds, local[t].change.targets \ {u}) \in Br!Changes
      BY <1>10, <1>11, <2>1
    <3> QED
      BY <1>0, <1>8, <2>1, <2>2, <3>2, <3>3
  <2>3. CASE Br!Finish(t) /\ holds' = holds
    BY <1>0, <1>2, <1>15, <2>1, <2>3 DEF Br!Finish
  <2> QED
    BY <1>22, <2>2, <2>3 DEF Br!RunBulk
<1>23. ASSUME Br!Staff PROVE BulkTyped'
  <2>1. UNCHANGED <<step, local, buttons, pending, asked, confirmed, calledOff, begun>>
    BY <1>23 DEF Br!Staff, Br!SamePrompts
  <2>2. holds' \in [Holders -> SUBSET Ranks] /\ botTop' \in Ranks
    BY <1>0, <1>23 DEF Br!Staff
  <2> QED
    BY <1>0, <2>1, <2>2 DEF BulkTyped, Br!TypeOK, BulkersFit, BulkSteps, BulkLocals
<1>24. ASSUME Br!Crash PROVE BulkTyped'
  <2>1. /\ pending' = [m \in Prompts |-> NoChange] /\ step' = [t \in Tasks |-> "idle"]
        /\ local' = [t \in Tasks |-> Br!NoJob]
        /\ UNCHANGED <<holds, botTop, buttons, asked, confirmed, calledOff, begun>>
    BY <1>24 DEF Br!Crash
  <2>2. BulkersFit' /\ step' \in [Tasks -> BulkSteps] /\ local' \in [Tasks -> BulkLocals]
    BY <1>15, <2>1 DEF BulkersFit
  <2>3. pending' \in [Prompts -> Br!Changes \cup {NoChange}]
    BY <2>1
  <2> QED
    BY <1>0, <2>1, <2>2, <2>3 DEF BulkTyped, Br!TypeOK, BulkSteps, BulkLocals
<1> QED
  BY <1>6, <1>7, <1>12, <1>13, <1>14, <1>16, <1>17, <1>20, <1>21, <1>22, <1>23, <1>24, Zenon DEF Br!Next

\* What a member is given ranks no higher than the member, and so no higher than the
\* author who ranked above them when the command was admitted.
LEMMA NoneAboveStep == ASSUME BulkTyped, Br!NoneAboveAuthor, Br!Next PROVE Br!NoneAboveAuthor'
<1>0. /\ holds \in [Holders -> SUBSET Ranks] /\ step \in [Tasks -> BulkSteps] /\ local \in [Tasks -> BulkLocals]
      /\ BulkersFit /\ \A t \in Tasks : \A r \in local[t].add : r <= local[t].top
  BY BulkTypes DEF Br!NoneAboveAuthor
<1>1. ASSUME NEW t \in Tasks, NEW p, NEW j, Br!Goto(t, p, j), \A r \in j.add : r <= j.top PROVE Br!NoneAboveAuthor'
  <2>1. local'[t] = j /\ \A s \in Tasks \ {t} : local'[s] = local[s]
    BY <1>0, <1>1 DEF Br!Goto
  <2> QED
    BY <1>0, <1>1, <2>1 DEF Br!NoneAboveAuthor
<1>2. Br!NoJob.add = {} /\ \A m, c : Br!OfPrompt(m, c).add = {}
  BY DEF Br!NoJob, Br!OfPrompt, Br!Job
<1>3. ASSUME NEW t \in Tasks, NEW p, \/ Br!Goto(t, p, Br!NoJob) \/ \E m, c : Br!Goto(t, p, Br!OfPrompt(m, c))
      PROVE  Br!NoneAboveAuthor'
  <2>1. CASE Br!Goto(t, p, Br!NoJob)
    BY <1>1, <1>2, <2>1
  <2>2. ASSUME NEW m, NEW c, Br!Goto(t, p, Br!OfPrompt(m, c)) PROVE Br!NoneAboveAuthor'
    <3>1. PICK j : j = Br!OfPrompt(m, c)
      OBVIOUS
    <3> QED
      BY <1>1, <1>2, <2>2, <3>1
  <2> QED
    BY <1>3, <2>1, <2>2
<1>4. ASSUME NEW t \in Tasks, NEW add \in SUBSET Ranks, NEW drop \in SUBSET Ranks, Br!ChangeMember(t, add, drop)
      PROVE  Br!NoneAboveAuthor'
  <2>1. PICK author \in Holders \ Bots, u \in Holders :
          /\ Br!MayChange(Br!TopRole(holds[author]), Br!TopRole(holds[u]), botTop, add, drop)
          /\ Br!Goto(t, "change", Br!OfMember(u, add, drop, Br!TopRole(holds[author])))
    BY <1>4 DEF Br!ChangeMember
  <2>2. PICK top : top = Br!TopRole(holds[author])
    OBVIOUS
  <2>3. PICK of : of = Br!TopRole(holds[u])
    OBVIOUS
  <2>4. top \in Nat /\ top \in Ranks \cup {0} /\ of \in Nat
    BY <1>0, <2>2, <2>3, TopRoleType
  <2>5. top >= of /\ \A r \in add : r <= of
    BY <2>1, <2>2, <2>3 DEF Br!MayChange
  <2>6. \A r \in add : r <= top
    BY <2>4, <2>5, BulkConstants
  <2>7. PICK j : j = Br!OfMember(u, add, drop, top)
    OBVIOUS
  <2>8. j.add = add /\ j.top = top
    BY <2>7 DEF Br!OfMember, Br!Job
  <2> QED
    BY <1>1, <2>1, <2>2, <2>6, <2>7, <2>8
<1>5. ASSUME NEW t \in Tasks, Br!RoleAdd(t) \/ Br!RoleRemove(t) \/ Br!RoleCustom(t) PROVE Br!NoneAboveAuthor'
  <2>1. PICK add \in SUBSET Ranks, drop \in SUBSET Ranks : Br!ChangeMember(t, add, drop)
    <3>1. \A r \in Ranks : {r} \in SUBSET Ranks /\ {} \in SUBSET Ranks
      OBVIOUS
    <3> QED
      BY <1>5, <3>1, Zenon DEF Br!RoleAdd, Br!RoleRemove, Br!RoleCustom
  <2> QED
    BY <1>4, <2>1
<1>6. ASSUME NEW t \in Tasks, Br!ChangeNext(t) PROVE Br!NoneAboveAuthor'
  <2>1. ASSUME NEW add \in SUBSET local[t].add, NEW drop,
               Br!Goto(t, "change", Br!OfMember(local[t].member, add, drop, local[t].top))
        PROVE  Br!NoneAboveAuthor'
    <3>1. PICK j : j = Br!OfMember(local[t].member, add, drop, local[t].top)
      OBVIOUS
    <3>2. j.add = add /\ j.top = local[t].top
      BY <3>1 DEF Br!OfMember, Br!Job
    <3> QED
      BY <1>0, <1>1, <2>1, <3>1, <3>2
  <2>2. CASE \E r \in local[t].add :
               Br!Goto(t, "change", Br!OfMember(local[t].member, local[t].add \ {r}, local[t].drop, local[t].top))
    BY <2>1, <2>2
  <2>3. CASE \E r \in local[t].drop :
               Br!Goto(t, "change", Br!OfMember(local[t].member, {}, local[t].drop \ {r}, local[t].top))
    BY <2>1, <2>3
  <2>4. CASE Br!Finish(t)
    BY <1>3, <2>4 DEF Br!Finish
  <2> QED
    BY <1>6, <2>2, <2>3, <2>4, Zenon DEF Br!ChangeNext
<1>7. ASSUME NEW t \in Tasks, Br!RoleAll(t) \/ Br!FetchAllMembers(t) \/ Br!ShowPrompt(t) PROVE Br!NoneAboveAuthor'
  BY <1>3, <1>7 DEF Br!RoleAll, Br!FetchAllMembers, Br!ShowPrompt
<1>8. ASSUME NEW t \in Tasks, NEW m, Br!PressStart(t, m) \/ Br!PressCancel(t, m) PROVE Br!NoneAboveAuthor'
  BY <1>3, <1>8 DEF Br!PressStart, Br!PressCancel
<1>9. ASSUME NEW t \in Tasks, Br!StorePending(t) \/ Br!Cancel(t) \/ Br!Start(t) \/ Br!RunBulk(t)
      PROVE  Br!NoneAboveAuthor'
  BY <1>3, <1>9, Zenon DEF Br!StorePending, Br!Cancel, Br!Start, Br!RunBulk, Br!Finish
<1>10. ASSUME Br!Staff PROVE Br!NoneAboveAuthor'
  BY <1>0, <1>10 DEF Br!Staff, Br!NoneAboveAuthor
<1>11. ASSUME Br!Crash PROVE Br!NoneAboveAuthor'
  BY <1>2, <1>11 DEF Br!Crash, Br!NoneAboveAuthor
<1> QED
  BY <1>5, <1>6, <1>7, <1>8, <1>9, <1>10, <1>11, Zenon DEF Br!Next

\* The actions of BulkRoles, those the proofs about it are about.
LEMMA BulkActions == Br!Next => BrP!Next
<1> USE DEF Br!Goto, BrP!Goto, Br!Spend, BrP!Spend, Br!Job, BrP!Job, Br!NoJob, BrP!NoJob, Br!OfPrompt, BrP!OfPrompt,
            Br!OfMember, BrP!OfMember, Br!Finish, BrP!Finish, Br!data, BrP!data, Br!SamePrompts, BrP!SamePrompts,
            Br!Change, BrP!Change, Br!Withdraw, BrP!Withdraw, Br!Call, BrP!Call
<1>1. ASSUME NEW t \in Tasks, NEW add, NEW drop, Br!ChangeMember(t, add, drop) PROVE BrP!ChangeMember(t, add, drop)
  BY <1>1, Zenon DEF Br!ChangeMember, BrP!ChangeMember, Br!MayChange, BrP!MayChange, Br!TopRole, BrP!TopRole,
     Br!Max, BrP!Max
<1>2. ASSUME NEW t \in Tasks, Br!RoleAdd(t) \/ Br!RoleRemove(t) \/ Br!RoleCustom(t)
      PROVE  BrP!RoleAdd(t) \/ BrP!RoleRemove(t) \/ BrP!RoleCustom(t)
  BY <1>1, <1>2, Zenon DEF Br!RoleAdd, BrP!RoleAdd, Br!RoleRemove, BrP!RoleRemove, Br!RoleCustom, BrP!RoleCustom
<1>3. ASSUME NEW t \in Tasks, Br!ChangeNext(t) PROVE BrP!ChangeNext(t)
  BY <1>3, Zenon DEF Br!ChangeNext, BrP!ChangeNext
<1>4. ASSUME NEW t \in Tasks, Br!RoleAll(t) PROVE BrP!RoleAll(t)
  BY <1>4, Zenon DEF Br!RoleAll, BrP!RoleAll
<1>5. ASSUME NEW t \in Tasks, Br!FetchAllMembers(t) PROVE BrP!FetchAllMembers(t)
  BY <1>5, Zenon DEF Br!FetchAllMembers, BrP!FetchAllMembers
<1>6. ASSUME NEW t \in Tasks, Br!ShowPrompt(t) PROVE BrP!ShowPrompt(t)
  BY <1>6, Zenon DEF Br!ShowPrompt, BrP!ShowPrompt
<1>7. ASSUME NEW t \in Tasks, Br!StorePending(t) PROVE BrP!StorePending(t)
  BY <1>7, Zenon DEF Br!StorePending, BrP!StorePending, Br!Waiting, BrP!Waiting, Br!Cardinality, BrP!Cardinality
<1>8. ASSUME NEW t \in Tasks, Br!Cancel(t) PROVE BrP!Cancel(t)
  BY <1>8, Zenon DEF Br!Cancel, BrP!Cancel
<1>9. ASSUME NEW t \in Tasks, Br!Start(t) PROVE BrP!Start(t)
  BY <1>9, Zenon DEF Br!Start, BrP!Start
<1>10. ASSUME NEW t \in Tasks, Br!RunBulk(t) PROVE BrP!RunBulk(t)
  BY <1>10, Zenon DEF Br!RunBulk, BrP!RunBulk
<1>11. ASSUME NEW t \in Tasks, NEW m \in Prompts, Br!PressStart(t, m) PROVE BrP!PressStart(t, m)
  BY <1>11, Zenon DEF Br!PressStart, BrP!PressStart
<1>12. ASSUME NEW t \in Tasks, NEW m \in Prompts, Br!PressCancel(t, m) PROVE BrP!PressCancel(t, m)
  BY <1>12, Zenon DEF Br!PressCancel, BrP!PressCancel
<1>13. ASSUME Br!Staff PROVE BrP!Staff
  BY <1>13, Zenon DEF Br!Staff, BrP!Staff
<1>14. ASSUME Br!Crash PROVE BrP!Crash
  BY <1>14, Zenon DEF Br!Crash, BrP!Crash
<1> QED
  BY <1>2, <1>3, <1>4, <1>5, <1>6, <1>7, <1>8, <1>9, <1>10, <1>11, <1>12, <1>13, <1>14, Zenon DEF Br!Next, BrP!Next

LEMMA BulkStep == BulkInv /\ [Br!Next]_(Br!vars) => BulkInv'
<1>1. BrP!IInv /\ [Br!Next]_(Br!vars) => BrP!IInv'
  BY BulkActions, BrP!InvariantStep DEF Br!vars, BrP!vars
<1>2. BulkTyped /\ Br!NoneAboveAuthor /\ UNCHANGED Br!vars => BulkTyped' /\ Br!NoneAboveAuthor'
  BY DEF Br!vars, BulkTyped, Br!TypeOK, BulkersFit, Br!NoneAboveAuthor
<1> QED
  BY <1>1, <1>2, BulkTypedStep, NoneAboveStep DEF BulkInv

LEMMA BulkInit == Br!DataInit /\ Br!TaskInit => BulkInv
<1> SUFFICES ASSUME Br!DataInit, Br!TaskInit PROVE BulkInv
  OBVIOUS
<1>1. BrP!Init
  BY DEF Br!DataInit, Br!TaskInit, BrP!Init, BrP!DataInit, BrP!TaskInit, Br!NoJob, BrP!NoJob, Br!Job, BrP!Job,
     Br!Min, BrP!Min, Br!Max, BrP!Max
<1>2. Br!Min(Ranks) \in Ranks /\ Br!Max(Ranks) \in Ranks
  <2>1. \E x \in Ranks : \A y \in Ranks : x <= y
    BY BulkConstants, MinOf
  <2>2. \E x \in Ranks : \A y \in Ranks : x >= y
    BY BulkConstants, MaxOf
  <2> QED
    BY <2>1, <2>2 DEF Br!Min, Br!Max
<1>3. PICK least \in Ranks, most \in Ranks : least = Br!Min(Ranks) /\ most = Br!Max(Ranks)
  BY <1>2
<1>4. holds \in [Holders -> SUBSET Ranks] /\ botTop \in Ranks
  BY <1>3 DEF Br!DataInit
<1>5. /\ pending = [m \in Prompts |-> NoChange] /\ begun = [m \in Prompts |-> 0]
      /\ buttons = {} /\ asked = {} /\ confirmed = {} /\ calledOff = {}
      /\ step = [t \in Tasks |-> "idle"] /\ local = [t \in Tasks |-> Br!NoJob]
  BY DEF Br!DataInit, Br!TaskInit
<1>6. BulkersFit /\ step \in [Tasks -> BulkSteps] /\ local \in [Tasks -> BulkLocals] /\ Br!NoneAboveAuthor
  BY <1>5, BulkJobs DEF BulkersFit, BulkSteps, Br!NoneAboveAuthor
<1>7. BulkTyped
  BY <1>4, <1>5, <1>6, BulkTypes
<1> QED
  BY <1>1, <1>6, <1>7, BrP!InvariantInit DEF BulkInv

\* A bulk change is carried out once at most, confirmed and not called off, and nobody
\* gives a member a role that ranks above their own highest (do_roleall, role_add,
\* role_custom).
THEOREM RolesKeptInOrder == MCSpec => []RolesInOrder
<1> DEFINE Inv == focus = "bulk" => BulkInv
<1>1. MCInit => Inv
  BY BulkInit DEF MCInit
<1>2. Inv /\ [MCNext]_<<focus, State, step, local, budget>> => Inv'
  BY BulkStep DEF MCNext, State, bulkVars, Br!vars
<1>3. Inv => RolesInOrder
  BY DEF RolesInOrder, BulkInv, BrP!IInv, BrP!ConfirmedOnce, Br!ConfirmedOnce
<1> QED
  BY <1>1, <1>2, <1>3, PTL DEF MCSpec

(***************************************************************************)
(* Embeds.                                                                 *)
(***************************************************************************)
\* The steps at which a task has a message.
AtMessage == {"insert", "act", "drop", "respond", "post"}

EmbedShape ==
    /\ builders = [m \in Messages |-> builders[m]] /\ shown = [m \in Messages |-> shown[m]]
    /\ view = [m \in Messages |-> view[m]]
    /\ step = [t \in Tasks |-> step[t]] /\ local = [t \in Tasks |-> local[t]]
    /\ \A t \in Tasks : step[t] \in AtMessage <=> local[t].on \in Messages

\* Of task t at message m: a session to insert is not there yet; who is alone leaves no
\* other embed than their own; and nothing comes between a press and its answer unless
\* the message is tangled.
AtIt(t, m) ==
    /\ step[t] = "insert" =>
         /\ \A s \in Tasks : local[s].on = m => s = t
         /\ builders[m] = NoEmbed /\ local[t].embed = shown[m]
    /\ t \in alone =>
         /\ step[t] \in {"drop", "respond"}
         /\ \A s \in Tasks : local[s].on = m => s = t
         /\ builders[m] \in {NoEmbed, local[t].embed}
    /\ step[t] = "act" /\ m \notin tangled =>
         local[t].seen = shown[m] /\ builders[m] = shown[m] /\ builders[m] # NoEmbed
    /\ step[t] \in {"drop", "respond"} /\ m \notin tangled =>
         /\ t \in alone
         /\ local[t].what # "cancel" =>
               local[t].embed = Em!Edited(local[t].what, local[t].arg, local[t].seen)

\* Of message m: unless it is tangled, one task is at it, and the session that is kept,
\* if any, is the one shown, but for the answer on its way.
Kept(m) ==
    /\ view[m] = "none" => builders[m] = NoEmbed /\ \A t \in Tasks : local[t].on # m
    /\ m \notin tangled =>
         /\ \A s, t \in Tasks : local[s].on = m /\ local[t].on = m => s = t
         /\ \/ builders[m] \in {NoEmbed, shown[m]}
            \/ \E t \in Tasks : local[t].on = m /\ step[t] \in {"drop", "respond"}
    /\ \A t \in Tasks : local[t].on = m => AtIt(t, m)

EmbedInv ==
    /\ EmbedShape /\ alone \subseteq {t \in Tasks : local[t].on \in Messages}
    /\ \A m \in Messages : Kept(m)

LEMMA EmMoves ==
    ASSUME EmbedShape, NEW t \in Tasks, NEW p, NEW j, Em!Goto(t, p, j)
    PROVE  /\ step'[t] = p /\ local'[t] = j
           /\ \A s \in Tasks \ {t} : step'[s] = step[s] /\ local'[s] = local[s]
           /\ step' = [s \in Tasks |-> step'[s]] /\ local' = [s \in Tasks |-> local'[s]]
  BY DEF EmbedShape, Em!Goto

\* A step of a task that is not at m: at most the session of m is lost.
LEMMA KeptElsewhere ==
    ASSUME EmbedShape, NEW m, Kept(m), NEW t \in Tasks, NEW p, NEW j, Em!Goto(t, p, j),
           local[t].on # m, j.on # m, shown'[m] = shown[m], view'[m] = view[m],
           \A s \in Tasks : local[s].on = m => (s \in alone' <=> s \in alone),
           \/ builders'[m] = builders[m] /\ (m \in tangled' <=> m \in tangled)
           \/ builders'[m] = NoEmbed /\ m \in tangled'
    PROVE  Kept(m)'
<1>1. /\ step'[t] = p /\ local'[t] = j
      /\ \A s \in Tasks \ {t} : step'[s] = step[s] /\ local'[s] = local[s]
  BY EmMoves
<1>2. \A s \in Tasks : local'[s].on = m <=> local[s].on = m
  BY <1>1
<1>3. \A s \in Tasks : local[s].on = m =>
        /\ step'[s] = step[s] /\ local'[s] = local[s] /\ (s \in alone' <=> s \in alone) /\ AtIt(s, m)
  BY <1>1, Zenon DEF Kept
<1>4. ASSUME NEW s \in Tasks, local'[s].on = m PROVE AtIt(s, m)'
  BY <1>2, <1>3, <1>4 DEF AtIt
<1>5. view'[m] = "none" => builders'[m] = NoEmbed /\ \A s \in Tasks : local'[s].on # m
  BY <1>2 DEF Kept
<1>6. m \notin tangled' =>
         /\ \A r, s \in Tasks : local'[r].on = m /\ local'[s].on = m => r = s
         /\ \/ builders'[m] \in {NoEmbed, shown'[m]}
            \/ \E s \in Tasks : local'[s].on = m /\ step'[s] \in {"drop", "respond"}
  BY <1>2, <1>3 DEF Kept
<1> QED
  BY <1>4, <1>5, <1>6, Zenon DEF Kept

LEMMA ShapeMoves ==
    ASSUME EmbedShape, NEW t \in Tasks, NEW p, NEW j, Em!Goto(t, p, j),
           p \in AtMessage <=> j.on \in Messages,
           builders' = [m \in Messages |-> builders'[m]], shown' = [m \in Messages |-> shown'[m]],
           view' = [m \in Messages |-> view'[m]]
    PROVE  EmbedShape'
<1>1. /\ step'[t] = p /\ local'[t] = j
      /\ \A s \in Tasks \ {t} : step'[s] = step[s] /\ local'[s] = local[s]
      /\ step' = [s \in Tasks |-> step'[s]] /\ local' = [s \in Tasks |-> local'[s]]
  BY EmMoves
<1>2. \A s \in Tasks : step'[s] \in AtMessage <=> local'[s].on \in Messages
  BY <1>1 DEF EmbedShape
<1> QED
  BY <1>1, <1>2 DEF EmbedShape

\* A tangled message.
LEMMA KeptTangled ==
    ASSUME NEW m, m \in tangled', view'[m] # "none",
           \A s \in Tasks : local'[s].on = m => step'[s] # "insert" /\ s \notin alone'
    PROVE  Kept(m)'
  BY DEF Kept, AtIt

\* A message with one task at it at most.
LEMMA KeptAlone ==
    ASSUME NEW m, NEW t \in Tasks, view'[m] # "none",
           \A s \in Tasks : local'[s].on = m => s = t,
           local'[t].on = m => AtIt(t, m)',
           \/ m \in tangled' \/ builders'[m] \in {NoEmbed, shown'[m]}
           \/ local'[t].on = m /\ step'[t] \in {"drop", "respond"}
    PROVE  Kept(m)'
<1>1. \A s \in Tasks : local'[s].on = m => AtIt(s, m)'
  BY Zenon
<1> QED
  BY <1>1, Zenon DEF Kept

\* The job of a task, and what it has in it.
LEMMA EmJob ==
    ASSUME NEW w, NEW o, NEW a, NEW e, NEW s, NEW j, j = Em!Job(w, o, a, e, s)
    PROVE  j.what = w /\ j.on = o /\ j.arg = a /\ j.embed = e /\ j.seen = s
  BY DEF Em!Job

LEMMA EmbedStep == EmbedInv /\ [Em!Next]_(Em!vars) => EmbedInv'
<1> SUFFICES ASSUME EmbedInv, [Em!Next]_(Em!vars) PROVE EmbedInv'
  OBVIOUS
<1>0. /\ EmbedShape /\ alone \subseteq {t \in Tasks : local[t].on \in Messages}
      /\ \A m \in Messages : Kept(m)
      /\ builders = [m \in Messages |-> builders[m]] /\ shown = [m \in Messages |-> shown[m]]
      /\ view = [m \in Messages |-> view[m]]
      /\ \A t \in Tasks : step[t] \in AtMessage <=> local[t].on \in Messages
  BY DEF EmbedInv, EmbedShape
<1>1. \A m \in Messages : (view[m] = "none" => builders[m] = NoEmbed /\ \A t \in Tasks : local[t].on # m)
  BY <1>0 DEF Kept
<1>2. \A t \in Tasks, m \in Messages : local[t].on = m => AtIt(t, m)
  BY <1>0 DEF Kept
<1>3. Em!NoJob.on \notin Messages
  BY EmbedConstants DEF Em!NoJob, Em!Job
\* Where a step of t at message m leaves everybody else.
<1>4. ASSUME NEW t \in Tasks, NEW p, NEW j, Em!Goto(t, p, j), p \in AtMessage <=> j.on \in Messages,
             NEW m \in Messages, local[t].on \in Messages => local[t].on = m,
             j.on \in Messages => j.on = m,
             builders' = [n \in Messages |-> builders'[n]], shown' = [n \in Messages |-> shown'[n]],
             view' = [n \in Messages |-> view'[n]],
             \A n \in Messages \ {m} :
                /\ shown'[n] = shown[n] /\ view'[n] = view[n]
                /\ \/ builders'[n] = builders[n] /\ (n \in tangled' <=> n \in tangled)
                   \/ builders'[n] = NoEmbed /\ n \in tangled',
             \/ alone' = alone \ Em!On(m)
             \/ j.on = m /\ alone' = alone \cup {t}
             \/ alone' = alone \ {t}
             \/ alone' = alone /\ t \notin alone,
             Kept(m)'
      PROVE  EmbedInv'
  <2>1. /\ step'[t] = p /\ local'[t] = j
        /\ \A s \in Tasks \ {t} : step'[s] = step[s] /\ local'[s] = local[s]
    BY <1>0, <1>4, EmMoves
  <2>2. EmbedShape'
    BY <1>0, <1>4, ShapeMoves
  <2>3. alone' \subseteq {s \in Tasks : local'[s].on \in Messages}
    <3>1. t \in alone' => j.on \in Messages
      BY <1>0, <1>4 DEF Em!On
    <3> QED
      BY <1>0, <1>4, <2>1, <3>1
  <2>4. ASSUME NEW n \in Messages, n # m PROVE Kept(n)'
    <3>1. \A s \in Tasks : local[s].on = n => s # t /\ s \notin Em!On(m)
      BY <1>4, <2>4 DEF Em!On
    <3>2. ASSUME NEW s \in Tasks, local[s].on = n PROVE s \in alone' <=> s \in alone
      BY <1>4, <3>1, <3>2
    <3> QED
      BY <1>0, <1>4, <2>4, <3>2, KeptElsewhere
  <2> QED
    BY <1>4, <2>2, <2>3, <2>4 DEF EmbedInv
\* A step that is at no message.
<1>5. ASSUME NEW t \in Tasks, NEW p, NEW j, Em!Goto(t, p, j), p \notin AtMessage, j.on \notin Messages,
             step[t] \notin AtMessage, UNCHANGED <<builders, view, shown, alone, tangled>>
      PROVE  EmbedInv'
  <2>1. /\ step'[t] = p /\ local'[t] = j
        /\ \A s \in Tasks \ {t} : step'[s] = step[s] /\ local'[s] = local[s]
    BY <1>0, <1>5, EmMoves
  <2>2. EmbedShape'
    BY <1>0, <1>5, ShapeMoves
  <2>3. alone' \subseteq {s \in Tasks : local'[s].on \in Messages}
    BY <1>0, <1>5, <2>1
  <2>4. ASSUME NEW n \in Messages PROVE Kept(n)'
    BY <1>0, <1>5, <2>4, KeptElsewhere
  <2> QED
    BY <2>2, <2>3, <2>4 DEF EmbedInv
<1>6. ASSUME NEW t \in Tasks, NEW m \in Messages, Em!EmbedNew(t, m) PROVE EmbedInv'
  <2>1. PICK j : j = Em!Job("new", m, Blank, Em!Starter, Em!Starter)
    OBVIOUS
  <2>2. /\ step[t] = "idle" /\ view[m] = "none" /\ Em!Goto(t, "insert", j)
        /\ view' = [view EXCEPT ![m] = "main"] /\ shown' = [shown EXCEPT ![m] = Em!Starter]
        /\ UNCHANGED <<builders, alone, tangled>>
    BY <1>6, <2>1, Zenon DEF Em!EmbedNew
  <2>3. j.on = m /\ j.embed = Em!Starter
    BY <2>1, EmJob
  <2>4. /\ step'[t] = "insert" /\ local'[t] = j
        /\ \A s \in Tasks \ {t} : step'[s] = step[s] /\ local'[s] = local[s]
    BY <1>0, <2>2, EmMoves
  <2>5. local[t].on \notin Messages /\ t \notin alone
    BY <1>0, <2>2 DEF AtMessage
  <2>6. view'[m] = "main" /\ shown'[m] = Em!Starter /\ builders'[m] = NoEmbed
    BY <1>0, <1>1, <2>2
  <2>7. \A s \in Tasks : local'[s].on = m => s = t
    BY <1>1, <2>2, <2>4
  <2>8. AtIt(t, m)'
    BY <2>2, <2>3, <2>4, <2>5, <2>6, <2>7 DEF AtIt
  <2>9. Kept(m)'
    BY <2>6, <2>7, <2>8, KeptAlone
  <2>10. "insert" \in AtMessage
    BY DEF AtMessage
  <2>11. \A n \in Messages \ {m} : shown'[n] = shown[n] /\ view'[n] = view[n] /\ builders'[n] = builders[n]
    BY <1>0, <2>2
  <2>12. /\ builders' = [n \in Messages |-> builders'[n]] /\ shown' = [n \in Messages |-> shown'[n]]
         /\ view' = [n \in Messages |-> view'[n]]
    BY <1>0, <2>2
  <2> QED
    BY <1>4, <2>2, <2>3, <2>5, <2>9, <2>10, <2>11, <2>12
<1>7. ASSUME NEW t \in Tasks, Em!InsertBuilder(t) PROVE EmbedInv'
  <2>1. /\ step[t] = "insert" /\ Em!Goto(t, "idle", Em!NoJob)
        /\ UNCHANGED <<view, shown, alone>>
    BY <1>7 DEF Em!InsertBuilder, Em!Finish
  <2>2. PICK m \in Messages : m = local[t].on
    BY <1>0, <2>1 DEF AtMessage
  <2>3. /\ AtIt(t, m) /\ view[m] # "none"
    BY <1>1, <1>2, <2>2
  <2>4. /\ \A s \in Tasks : local[s].on = m => s = t
        /\ builders[m] = NoEmbed /\ local[t].embed = shown[m] /\ t \notin alone
    BY <2>1, <2>3 DEF AtIt
  <2>5. PICK lost : /\ lost = {} \/ \E x \in Em!Live : lost = {x}
                    /\ builders' = [n \in Messages |-> IF n = local[t].on THEN local[t].embed
                                                       ELSE IF n \in lost THEN NoEmbed ELSE builders[n]]
                    /\ tangled' = tangled \cup lost
    <3>1. PICK lost \in IF Em!Cardinality(Em!Live) >= MaxBuilders THEN {{x} : x \in Em!Live} ELSE {{}} :
            /\ builders' = [n \in Messages |-> IF n = local[t].on THEN local[t].embed
                                               ELSE IF n \in lost THEN NoEmbed ELSE builders[n]]
            /\ tangled' = tangled \cup lost
      BY <1>7, Zenon DEF Em!InsertBuilder
    <3>2. lost = {} \/ \E x \in Em!Live : lost = {x}
      BY <3>1, Zenon
    <3> QED
      BY <3>1, <3>2
  <2>6. m \notin lost
    BY <2>4, <2>5 DEF Em!Live
  <2>7. builders'[m] = shown[m]
    BY <2>2, <2>4, <2>5
  <2>8. \A n \in Messages \ {m} :
          \/ builders'[n] = builders[n] /\ (n \in tangled' <=> n \in tangled)
          \/ builders'[n] = NoEmbed /\ n \in tangled'
    BY <2>2, <2>5
  <2>9. /\ local'[t] = Em!NoJob
        /\ \A s \in Tasks \ {t} : step'[s] = step[s] /\ local'[s] = local[s]
    BY <1>0, <2>1, EmMoves
  <2>10. \A s \in Tasks : local'[s].on = m => s = t
    BY <2>4, <2>9
  <2>11. Kept(m)'
    BY <1>3, <2>1, <2>3, <2>7, <2>9, <2>10, KeptAlone
  <2>12. /\ builders' = [n \in Messages |-> builders'[n]] /\ shown' = [n \in Messages |-> shown'[n]]
         /\ view' = [n \in Messages |-> view'[n]]
    BY <1>0, <2>1, <2>5
  <2>13. "idle" \notin AtMessage
    BY DEF AtMessage
  <2> QED
    BY <1>3, <1>4, <2>1, <2>2, <2>4, <2>8, <2>11, <2>12, <2>13
<1>8. ASSUME NEW t \in Tasks, NEW m \in Messages, Em!Press(t, m) PROVE EmbedInv'
  <2>1. PICK p \in Em!Controls(m) \cup Em!Forms : Em!Goto(t, "act", Em!Job(p[1], m, p[2], NoEmbed, shown[m]))
    BY <1>8, Zenon DEF Em!Press
  <2>2. PICK j : j = Em!Job(p[1], m, p[2], NoEmbed, shown[m])
    OBVIOUS
  <2>3. /\ step[t] = "idle" /\ view[m] # "none" /\ builders[m] # NoEmbed
        /\ alone' = alone \ Em!On(m)
        /\ tangled' = IF Em!On(m) = {} THEN tangled ELSE tangled \cup {m}
        /\ UNCHANGED <<builders, view, shown>>
    BY <1>8, Zenon DEF Em!Press
  <2>4. Em!Goto(t, "act", j) /\ j.on = m /\ j.seen = shown[m]
    BY <2>1, <2>2, EmJob
  <2>5. /\ step'[t] = "act" /\ local'[t] = j
        /\ \A s \in Tasks \ {t} : step'[s] = step[s] /\ local'[s] = local[s]
    BY <1>0, <2>4, EmMoves
  <2>6. local[t].on \notin Messages /\ t \notin alone
    BY <1>0, <2>3 DEF AtMessage
  <2>9. Kept(m)'
    <3>1. CASE Em!On(m) = {}
      <4>1. \A s \in Tasks : local'[s].on = m => s = t
        BY <2>5, <3>1 DEF Em!On
      <4>2. m \notin tangled => builders[m] = shown[m]
        BY <1>0, <2>3, <3>1 DEF Kept, Em!On
      <4>3. AtIt(t, m)'
        BY <2>3, <2>4, <2>5, <2>6, <3>1, <4>2 DEF AtIt
      <4> QED
        BY <2>3, <3>1, <4>1, <4>2, <4>3, KeptAlone
    <3>2. CASE Em!On(m) # {}
      <4>1. \A s \in Tasks : local[s].on = m => step[s] # "insert" /\ s \notin alone'
        BY <1>2, <2>3 DEF AtIt, Em!On
      <4>2. \A s \in Tasks : local'[s].on = m => step'[s] # "insert" /\ s \notin alone'
        BY <2>3, <2>5, <2>6, <4>1
      <4> QED
        BY <2>3, <3>2, <4>2, KeptTangled
    <3> QED
      BY <3>1, <3>2
  <2>10. \A n \in Messages \ {m} : /\ shown'[n] = shown[n] /\ view'[n] = view[n] /\ builders'[n] = builders[n]
                                   /\ n \in tangled' <=> n \in tangled
    BY <2>3
  <2> QED
    BY <1>0, <1>4, <2>3, <2>4, <2>6, <2>9, <2>10 DEF AtMessage
\* What holds of the message a task is at.
<1>9. ASSUME NEW t \in Tasks, step[t] \in {"act", "drop", "respond", "post"}
      PROVE  /\ local[t].on \in Messages /\ AtIt(t, local[t].on) /\ view[local[t].on] # "none"
             /\ local[t].on \notin tangled => \A s \in Tasks : local[s].on = local[t].on => s = t
             /\ \A s \in Tasks \ {t} : local[s].on = local[t].on => step[s] # "insert" /\ s \notin alone
             /\ step[t] \in {"act", "post"} => t \notin alone
  <2>1. local[t].on \in Messages
    BY <1>0, <1>9 DEF AtMessage
  <2>2. AtIt(t, local[t].on) /\ Kept(local[t].on) /\ view[local[t].on] # "none"
    BY <1>0, <1>1, <1>2, <2>1
  <2>3. \A s \in Tasks \ {t} : local[s].on = local[t].on => step[s] # "insert" /\ s \notin alone
    BY <1>2, <2>1 DEF AtIt
  <2>4. step[t] \in {"act", "post"} => t \notin alone
    BY <2>2 DEF AtIt
  <2> QED
    BY <2>1, <2>2, <2>3, <2>4 DEF Kept
\* Who is done, with the session as it was.
<1>10. ASSUME NEW t \in Tasks, step[t] \in {"act", "post"}, Em!Finish(t), UNCHANGED <<builders, view, shown, alone, tangled>>
       PROVE  EmbedInv'
  <2>1. PICK m \in Messages : m = local[t].on
    BY <1>9, <1>10
  <2>2. /\ local'[t] = Em!NoJob
        /\ \A s \in Tasks \ {t} : step'[s] = step[s] /\ local'[s] = local[s]
    BY <1>0, <1>10, EmMoves DEF Em!Finish
  <2>3. t \notin alone /\ Kept(m) /\ view[m] # "none"
    BY <1>0, <1>9, <1>10, <2>1
  <2>6. Kept(m)'
    <3>1. CASE m \in tangled
      BY <1>3, <1>9, <1>10, <2>1, <2>2, <2>3, <3>1, KeptTangled
    <3>2. CASE m \notin tangled
      <4>1. \A s \in Tasks : local'[s].on = m => s = t
        BY <1>9, <1>10, <2>1, <2>2, <3>2
      <4>2. builders[m] \in {NoEmbed, shown[m]}
        BY <1>9, <1>10, <2>1, <2>3, <3>2 DEF Kept
      <4> QED
        BY <1>3, <1>10, <2>2, <2>3, <4>1, <4>2, KeptAlone
    <3> QED
      BY <3>1, <3>2
  <2>7. "idle" \notin AtMessage
    BY DEF AtMessage
  <2> QED
    BY <1>0, <1>3, <1>4, <1>10, <2>1, <2>3, <2>6, <2>7 DEF Em!Finish
\* Who answers, after what the session was changed to.
<1>11. ASSUME NEW t \in Tasks, step[t] = "act", NEW p \in {"drop", "respond"}, NEW embed, NEW kept,
              Em!Goto(t, p, Em!Job(local[t].what, local[t].on, local[t].arg, embed, local[t].seen)),
              builders' = [builders EXCEPT ![local[t].on] = kept], kept \in {NoEmbed, embed},
              builders[local[t].on] # NoEmbed =>
                 embed = Em!Edited(local[t].what, local[t].arg, builders[local[t].on]),
              alone' = IF Em!On(local[t].on) = {t} THEN alone \cup {t} ELSE alone,
              UNCHANGED <<view, shown, tangled>>
       PROVE  EmbedInv'
  <2>1. PICK j : j = Em!Job(local[t].what, local[t].on, local[t].arg, embed, local[t].seen)
    OBVIOUS
  <2>2. PICK m \in Messages : m = local[t].on
    BY <1>9, <1>11
  <2>3. /\ Em!Goto(t, p, j) /\ j.on = m /\ j.what = local[t].what /\ j.arg = local[t].arg
        /\ j.embed = embed /\ j.seen = local[t].seen
    BY <1>11, <2>1, <2>2, EmJob
  <2>4. /\ step'[t] = p /\ local'[t] = j
        /\ \A s \in Tasks \ {t} : step'[s] = step[s] /\ local'[s] = local[s]
    BY <1>0, <2>3, EmMoves
  <2>5. AtIt(t, m) /\ view[m] # "none" /\ t \notin alone /\ builders'[m] = kept
    BY <1>0, <1>9, <1>11, <2>2
  <2>6. Kept(m)'
    <3>1. CASE Em!On(m) = {t}
      <4>1. \A s \in Tasks : local'[s].on = m => s = t
        BY <2>4, <3>1 DEF Em!On
      <4>2. m \notin tangled => j.embed = Em!Edited(j.what, j.arg, j.seen)
        BY <1>11, <2>2, <2>3, <2>5 DEF AtIt
      <4>3. AtIt(t, m)'
        BY <1>11, <2>2, <2>3, <2>4, <2>5, <3>1, <4>1, <4>2 DEF AtIt
      <4> QED
        BY <1>11, <2>3, <2>4, <2>5, <4>1, <4>3, KeptAlone
    <3>2. CASE Em!On(m) # {t}
      <4>1. m \in tangled
        BY <1>9, <1>11, <2>2, <3>2 DEF Em!On
      <4>2. \A s \in Tasks : local'[s].on = m => step'[s] # "insert" /\ s \notin alone'
        BY <1>9, <1>11, <2>2, <2>4, <2>5, <3>2
      <4> QED
        BY <1>11, <2>5, <4>1, <4>2, KeptTangled
    <3> QED
      BY <3>1, <3>2
  <2>7. /\ builders' = [n \in Messages |-> builders'[n]] /\ \A n \in Messages \ {m} : builders'[n] = builders[n]
    BY <1>0, <1>11, <2>2
  <2>8. p \in AtMessage
    BY <1>11 DEF AtMessage
  <2> QED
    BY <1>0, <1>4, <1>11, <2>2, <2>3, <2>5, <2>6, <2>7, <2>8
<1>12. ASSUME NEW t \in Tasks, Em!Act(t) PROVE EmbedInv'
  <2>1. step[t] = "act" /\ UNCHANGED <<view, shown, tangled>>
    BY <1>12, Zenon DEF Em!Act
  <2>2. CASE Em!Finish(t) /\ UNCHANGED <<builders, alone>>
    BY <1>10, <2>1, <2>2
  <2>3. PICK held : held = builders[local[t].on]
    OBVIOUS
  <2>4. PICK embed : embed = IF held = NoEmbed THEN Em!Empty ELSE Em!Edited(local[t].what, local[t].arg, held)
    OBVIOUS
  <2>5. CASE /\ builders' = [builders EXCEPT ![local[t].on] =
                                IF held = NoEmbed \/ local[t].what = "cancel" THEN NoEmbed ELSE embed]
             /\ Em!Goto(t, IF local[t].what = "complete" THEN "drop" ELSE "respond",
                        Em!Job(local[t].what, local[t].on, local[t].arg, embed, local[t].seen))
             /\ alone' = IF Em!On(local[t].on) = {t} THEN alone \cup {t} ELSE alone
    <3>1. PICK kept \in {NoEmbed, embed} : kept = IF held = NoEmbed \/ local[t].what = "cancel" THEN NoEmbed ELSE embed
      BY Zenon
    <3>2. PICK p \in {"drop", "respond"} : p = IF local[t].what = "complete" THEN "drop" ELSE "respond"
      BY Zenon
    <3>3. builders[local[t].on] # NoEmbed => embed = Em!Edited(local[t].what, local[t].arg, builders[local[t].on])
      BY <2>3, <2>4, Zenon
    <3>4. builders' = [builders EXCEPT ![local[t].on] = kept]
      BY <2>5, <3>1, Zenon
    <3>5. Em!Goto(t, p, Em!Job(local[t].what, local[t].on, local[t].arg, embed, local[t].seen))
      BY <2>5, <3>2, Zenon
    <3> QED
      BY <1>11, <2>1, <2>5, <3>1, <3>2, <3>3, <3>4, <3>5
  <2> QED
    BY <1>12, <2>2, <2>3, <2>4, <2>5, Zenon DEF Em!Act
<1>13. ASSUME NEW t \in Tasks, Em!Drop(t) PROVE EmbedInv'
  <2>1. PICK m \in Messages : m = local[t].on
    BY <1>9, <1>13 DEF Em!Drop
  <2>2. /\ step[t] = "drop" /\ builders' = [builders EXCEPT ![m] = NoEmbed]
        /\ Em!Goto(t, "respond", local[t]) /\ UNCHANGED <<view, shown, alone, tangled>>
    BY <1>13, <2>1, Zenon DEF Em!Drop
  <2>3. PICK j : j = local[t]
    OBVIOUS
  <2>4. /\ step'[t] = "respond" /\ local'[t] = j
        /\ \A s \in Tasks \ {t} : step'[s] = step[s] /\ local'[s] = local[s]
    BY <1>0, <2>2, <2>3, EmMoves
  <2>5. AtIt(t, m) /\ view[m] # "none" /\ builders'[m] = NoEmbed
    BY <1>0, <1>9, <2>1, <2>2
  <2>6. \A s \in Tasks : local'[s].on = m <=> local[s].on = m
    BY <2>3, <2>4
  <2>7. AtIt(t, m)'
    BY <2>2, <2>3, <2>4, <2>5, <2>6 DEF AtIt
  <2>8. Kept(m)'
    <3>1. CASE \A s \in Tasks : local[s].on = m => s = t
      BY <2>2, <2>5, <2>6, <2>7, <3>1, KeptAlone
    <3>2. CASE ~ \A s \in Tasks : local[s].on = m => s = t
      <4>1. m \in tangled /\ t \notin alone
        BY <1>9, <2>1, <2>2, <2>5, <3>2 DEF AtIt
      <4>2. \A s \in Tasks : local'[s].on = m => step'[s] # "insert" /\ s \notin alone'
        BY <1>9, <2>1, <2>2, <2>4, <2>6, <4>1
      <4> QED
        BY <2>2, <2>5, <4>1, <4>2, KeptTangled
    <3> QED
      BY <3>1, <3>2
  <2>10. /\ builders' = [n \in Messages |-> builders'[n]] /\ \A n \in Messages \ {m} : builders'[n] = builders[n]
    BY <1>0, <2>2
  <2>11. Em!Goto(t, "respond", j) /\ j.on = m /\ "respond" \in AtMessage
    BY <2>1, <2>2, <2>3 DEF AtMessage
  <2>12. alone' = alone \cup {t} \/ (alone' = alone /\ t \notin alone)
    BY <2>2
  <2> QED
    BY <1>0, <1>4, <2>1, <2>2, <2>8, <2>10, <2>11, <2>12
\* The answer: the message shows the embed, and a task that was alone untangles it.
<1>14. ASSUME NEW t \in Tasks, Em!Respond(t) PROVE EmbedInv'
  <2>1. PICK m \in Messages : m = local[t].on
    BY <1>9, <1>14, Zenon DEF Em!Respond
  <2>2. /\ step[t] = "respond" /\ alone' = alone \ {t} /\ UNCHANGED builders
        /\ IF local[t].what = "send" THEN Em!Goto(t, "post", local[t]) ELSE Em!Finish(t)
        /\ \/ /\ Em!Update(m, local[t].what, local[t].embed)
              /\ tangled' = IF t \in alone THEN tangled \ {m} ELSE tangled
           \/ tangled' = tangled \cup {m} /\ UNCHANGED <<shown, view>>
    BY <1>14, <2>1, Zenon DEF Em!Respond
  <2>3. AtIt(t, m) /\ view[m] # "none"
    BY <1>9, <2>1, <2>2
  <2>4. PICK p \in {"post", "idle"}, j \in {local[t], Em!NoJob} :
          Em!Goto(t, p, j) /\ (p = "post" => j = local[t]) /\ (p = "idle" => j = Em!NoJob)
    BY <2>2, Zenon DEF Em!Finish
  <2>5. /\ step'[t] = p /\ local'[t] = j
        /\ \A s \in Tasks \ {t} : step'[s] = step[s] /\ local'[s] = local[s]
    BY <1>0, <2>4, EmMoves
  <2>6. (p \in AtMessage <=> j.on \in Messages) /\ (j.on \in Messages => j.on = m)
    BY <1>3, <2>1, <2>4 DEF AtMessage
  <2>7. AtIt(t, m)'
    BY <2>2, <2>4, <2>5 DEF AtIt
  <2>8. ASSUME Em!Update(m, local[t].what, local[t].embed)
        PROVE  /\ view' = [n \in Messages |-> view'[n]] /\ shown' = [n \in Messages |-> shown'[n]]
               /\ view'[m] # "none" /\ shown'[m] = local[t].embed
               /\ \A n \in Messages \ {m} : view'[n] = view[n] /\ shown'[n] = shown[n]
    <3>1. PICK next : next = Em!NextView(local[t].what)
      OBVIOUS
    <3>2. view' = [view EXCEPT ![m] = next] /\ shown' = [shown EXCEPT ![m] = local[t].embed]
      BY <2>8, <3>1 DEF Em!Update
    <3>3. next # "none"
      BY <3>1 DEF Em!NextView
    <3> QED
      BY <1>0, <3>2, <3>3
  <2>9. /\ view' = [n \in Messages |-> view'[n]] /\ shown' = [n \in Messages |-> shown'[n]] /\ view'[m] # "none"
        /\ \A n \in Messages \ {m} : /\ view'[n] = view[n] /\ shown'[n] = shown[n] /\ builders'[n] = builders[n]
                                     /\ n \in tangled' <=> n \in tangled
    BY <1>0, <2>2, <2>3, <2>8
  <2>10. Kept(m)'
    <3>1. CASE t \in alone
      <4>1. (\A s \in Tasks : local[s].on = m => s = t) /\ builders[m] \in {NoEmbed, local[t].embed}
        BY <2>3, <3>1 DEF AtIt
      <4>2. \A s \in Tasks : local'[s].on = m => s = t
        BY <2>5, <4>1
      <4>3. m \in tangled' \/ builders'[m] \in {NoEmbed, shown'[m]}
        BY <2>2, <2>8, <4>1
      <4> QED
        BY <2>7, <2>9, <4>2, <4>3, KeptAlone
    <3>2. CASE t \notin alone
      <4>1. m \in tangled /\ m \in tangled'
        BY <2>2, <2>3, <3>2 DEF AtIt
      <4>2. \A s \in Tasks : local'[s].on = m => step'[s] # "insert" /\ s \notin alone'
        BY <1>9, <2>1, <2>2, <2>4, <2>5
      <4> QED
        BY <2>9, <4>1, <4>2, KeptTangled
    <3> QED
      BY <3>1, <3>2
  <2> QED
    BY <1>0, <1>4, <2>1, <2>2, <2>4, <2>6, <2>9, <2>10
<1>15. ASSUME NEW t \in Tasks, Em!Post(t) PROVE EmbedInv'
  BY <1>10, <1>15 DEF Em!Post, Em!data
<1>16. ASSUME NEW t \in Tasks, NEW a \in Authors, Em!EmbedSend(t, a) PROVE EmbedInv'
  <2>1. PICK j : j = Em!Job("draft", a, Blank, drafts[a], NoEmbed)
    OBVIOUS
  <2>2. Em!Goto(t, "sending", j) /\ step[t] = "idle" /\ UNCHANGED <<builders, view, shown, alone, tangled>>
    BY <1>16, <2>1 DEF Em!EmbedSend, Em!data
  <2>3. j.on = a /\ a \notin Messages
    BY <2>1, EmJob, EmbedConstants
  <2> QED
    BY <1>5, <2>2, <2>3 DEF AtMessage
<1>17. ASSUME NEW t \in Tasks, Em!DraftSent(t) PROVE EmbedInv'
  <2>1. Em!Finish(t) /\ step[t] = "sending" /\ UNCHANGED <<builders, view, shown, alone, tangled>>
    BY <1>17 DEF Em!DraftSent, Em!data, Em!SetDraft, Em!SameMessages
  <2> QED
    BY <1>3, <1>5, <2>1 DEF AtMessage, Em!Finish
<1>18. ASSUME UNCHANGED <<builders, view, shown, alone, tangled, step, local>> PROVE EmbedInv'
  BY <1>18 DEF EmbedInv, EmbedShape, Kept, AtIt
<1>19. ASSUME NEW a \in Authors, Em!EmbedSet(a) \/ Em!EmbedField(a) \/ Em!EmbedClear(a) PROVE EmbedInv'
  BY <1>18, <1>19 DEF Em!EmbedSet, Em!EmbedField, Em!EmbedClear, Em!SetDraft, Em!SameMessages
<1>20. CASE Em!Crash
  <2>1. /\ builders' = [m \in Messages |-> NoEmbed] /\ alone' = {} /\ UNCHANGED <<view, shown, tangled>>
        /\ step' = [t \in Tasks |-> "idle"] /\ local' = [t \in Tasks |-> Em!NoJob]
    BY <1>20 DEF Em!Crash
  <2>2. \A t \in Tasks, m \in Messages : local'[t].on # m
    BY <1>3, <2>1
  <2>3. EmbedShape'
    BY <1>0, <1>3, <2>1 DEF EmbedShape, AtMessage
  <2>4. \A m \in Messages : Kept(m)'
    BY <2>1, <2>2 DEF Kept
  <2> QED
    BY <2>1, <2>3, <2>4 DEF EmbedInv
<1>21. CASE UNCHANGED Em!vars
  BY <1>18, <1>21 DEF Em!vars
<1> QED
  BY <1>6, <1>7, <1>8, <1>12, <1>13, <1>14, <1>15, <1>16, <1>17, <1>19, <1>20, <1>21, Zenon DEF Em!Next

LEMMA EmbedInit == Em!DataInit /\ Em!TaskInit => EmbedInv
<1> SUFFICES ASSUME Em!DataInit, Em!TaskInit PROVE EmbedInv
  OBVIOUS
<1>1. Em!NoJob.on \notin Messages
  BY EmbedConstants DEF Em!NoJob, Em!Job
<1>2. \A t \in Tasks : step[t] = "idle" /\ local[t] = Em!NoJob
  BY DEF Em!TaskInit
<1>3. EmbedShape
  BY <1>1, <1>2 DEF EmbedShape, Em!DataInit, Em!TaskInit, AtMessage
<1>4. \A m \in Messages : Kept(m)
  BY <1>1, <1>2 DEF Kept, Em!DataInit
<1> QED
  BY <1>3, <1>4 DEF EmbedInv, Em!DataInit

\* What is done to an embed, it is done to the one its author saw, and so it is sent,
\* kept and shown (on_component, on_modal).
THEOREM DoneToTheOneSeen == MCSpec => []DoneToWhatIsShown
<1> DEFINE Inv == focus = "embeds" => EmbedInv
<1>1. MCInit => Inv
  BY EmbedInit DEF MCInit
<1>2. Inv /\ [MCNext]_<<focus, State, step, local, budget>> => Inv'
  BY EmbedStep DEF MCNext, State, embedVars, Em!vars
<1>3. Inv => DoneToWhatIsShown
  <2> SUFFICES ASSUME EmbedInv PROVE Em!DoneToWhatIsShown
    BY DEF DoneToWhatIsShown
  <2>1. \A t \in Tasks : step[t] = "respond" => local[t].on \in Messages /\ AtIt(t, local[t].on)
    BY DEF EmbedInv, EmbedShape, AtMessage, Kept
  <2> QED
    BY <2>1 DEF Em!DoneToWhatIsShown, AtIt
<1> QED
  BY <1>1, <1>2, <1>3, PTL DEF MCSpec

(***************************************************************************)
(* Music.                                                                  *)
(***************************************************************************)
MusicSteps == {"idle", "join", "load", "count", "append", "look", "start", "skip", "clear", "stop", "delete"}

MusicShape ==
    /\ player \in Nat /\ queue \in Nat /\ created \in Nat /\ playing \in BOOLEAN /\ crowded \in BOOLEAN
    /\ player = 0 => queue = 0 /\ ~playing
    /\ step \in [Tasks -> MusicSteps]
    /\ local \in [Tasks -> [player : Nat, loaded : 0 .. MaxLoad, count : Nat]]
    /\ \A t \in Tasks : step[t] \notin {"idle", "join"} => local[t].player > 0

\* What a command at step p with locals j, the only one, relies on: it counted no less
\* than there is, has cleared what it stops, and whatever is up next is playing, but for
\* the tracks it appended.
MusicFits(p, j) ==
    /\ p = "append" /\ j.player = player => queue <= j.count
    /\ p = "stop" /\ j.player = player => queue = 0
    /\ ~(p \in {"look", "start"} /\ j.player = player) => (queue > 0 => playing)

MusicTended ==
    ~crowded =>
        /\ queue <= MaxQueue
        /\ \A s, t \in Tasks : step[s] # "idle" /\ step[t] # "idle" => s = t
        /\ \A t \in Tasks : step[t] # "idle" => MusicFits(step[t], local[t])
        /\ Mu!Calm => (queue > 0 => playing)

MusicInv == MusicShape /\ MusicTended


LEMMA MusicMoves ==
    ASSUME MusicShape, NEW t \in Tasks, NEW p, NEW j, Mu!Goto(t, p, j)
    PROVE  /\ step'[t] = p /\ local'[t] = j
           /\ \A s \in Tasks \ {t} : step'[s] = step[s] /\ local'[s] = local[s]
  BY DEF MusicShape, Mu!Goto

\* A step of one task, or the beginning of the only one.
LEMMA MusicTaskStep ==
    ASSUME MusicShape, NEW t \in Tasks, NEW p, NEW j, Mu!Goto(t, p, j), p \in MusicSteps,
           j \in [player : Nat, loaded : 0 .. MaxLoad, count : Nat],
           p \notin {"idle", "join"} => j.player > 0,
           player' \in Nat, queue' \in Nat, created' \in Nat, playing' \in BOOLEAN, crowded' \in BOOLEAN,
           player' = 0 => queue' = 0 /\ ~playing',
           ~crowded' =>
               /\ queue' <= MaxQueue
               /\ \A s \in Tasks \ {t} : step[s] = "idle"
               /\ p # "idle" => MusicFits(p, j)'
               /\ p = "idle" /\ queue' > 0 => playing'
    PROVE  MusicInv'
<1>1. /\ step'[t] = p /\ local'[t] = j
      /\ \A s \in Tasks \ {t} : step'[s] = step[s] /\ local'[s] = local[s]
  BY MusicMoves
<1>2. MusicShape'
  BY DEF MusicShape, Mu!Goto
<1>3. ASSUME ~crowded' PROVE MusicTended'
  <2>1. \A s \in Tasks : step'[s] # "idle" => s = t
    BY <1>1, <1>3
  <2>2. \A s \in Tasks : step'[s] # "idle" => MusicFits(step[s], local[s])'
    BY <1>1, <1>3, <2>1 DEF MusicFits
  <2>3. Mu!Calm' => (queue' > 0 => playing')
    BY <1>1, <1>3 DEF Mu!Calm
  <2> QED
    BY <1>3, <2>1, <2>2, <2>3 DEF MusicTended
<1> QED
  BY <1>2, <1>3 DEF MusicInv, MusicTended

\* The only one at work, and what it relies on.
LEMMA MusicAlone ==
    ASSUME MusicInv, ~crowded, NEW t \in Tasks, step[t] # "idle"
    PROVE  /\ \A s \in Tasks \ {t} : step[s] = "idle"
           /\ MusicFits(step[t], local[t]) /\ queue <= MaxQueue
  BY DEF MusicInv, MusicTended

LEMMA MusicTake ==
    ASSUME MusicShape, Mu!Advance
    PROVE  /\ queue' \in Nat /\ playing' \in BOOLEAN /\ queue' <= queue
           /\ queue' > 0 => playing'
           /\ player = 0 => queue' = 0 /\ ~playing'
<1>1. queue \in Nat /\ (player = 0 => queue = 0)
  BY DEF MusicShape
<1>2. playing' = (queue > 0) /\ queue' = IF queue > 0 THEN queue - 1 ELSE 0
  BY DEF Mu!Advance
<1>3. CASE queue > 0
  <2>1. playing' = TRUE
    BY <1>2, <1>3, Zenon
  <2>2. queue' = queue - 1
    BY <1>2, <1>3
  <2> QED
    BY <1>1, <1>3, <2>1, <2>2
<1>4. CASE ~(queue > 0)
  <2>1. ~playing' /\ playing' \in BOOLEAN
    <3>1. (queue > 0) \in BOOLEAN
      OBVIOUS
    <3>2. playing' \in BOOLEAN
      BY <1>2, <3>1, Zenon
    <3>3. ~playing'
      BY <1>2, <1>4, Zenon
    <3> QED
      BY <3>2, <3>3
  <2>2. queue' = 0 /\ queue = 0
    BY <1>1, <1>2, <1>4
  <2> QED
    BY <1>1, <2>1, <2>2
<1> QED
  BY <1>3, <1>4

LEMMA MusicOrders ==
    ASSUME MusicInv, NEW t \in Tasks, NEW p, NEW n \in Nat, Mu!Order(t, p, n),
           p \in {"join", "load", "skip", "clear", "delete"}, p # "join" => n > 0
    PROVE  MusicInv'
<1>1. PICK j : j = Mu!Job(n, 0, 0)
  OBVIOUS
<1>2. j \in [player : Nat, loaded : 0 .. MaxLoad, count : Nat] /\ j.player = n
  BY <1>1, MusicConstants DEF Mu!Job
<1>3. /\ step[t] = "idle" /\ Mu!Goto(t, p, j) /\ UNCHANGED <<player, queue, playing, created>>
      /\ crowded' = IF Mu!Calm /\ Mu!InOrder THEN FALSE ELSE (crowded \/ ~Mu!Calm)
  BY <1>1 DEF Mu!Order
<1>4. MusicShape /\ crowded' \in BOOLEAN
  BY <1>3 DEF MusicInv, MusicShape
<1>5. ~crowded' => Mu!Calm /\ Mu!InOrder
  BY <1>3 DEF MusicInv, MusicTended, Mu!InOrder
<1>6. ~crowded' => MusicFits(p, j)'
  BY <1>3, <1>5 DEF MusicFits, Mu!InOrder
<1> QED
  BY <1>2, <1>3, <1>4, <1>5, <1>6, MusicTaskStep DEF MusicShape, MusicSteps, Mu!Calm, Mu!InOrder

\* What play does after it began.
LEMMA MusicPlays ==
    ASSUME MusicInv, NEW t \in Tasks,
           \/ Mu!Join(t) \/ Mu!LoadTracks(t) \/ Mu!CountQueue(t) \/ Mu!Append(t) \/ Mu!Look(t) \/ Mu!KickOff(t)
    PROVE  MusicInv'
<1> USE MusicConstants
<1>0. /\ MusicShape /\ player \in Nat /\ queue \in Nat /\ created \in Nat /\ playing \in BOOLEAN /\ crowded \in BOOLEAN
      /\ player = 0 => queue = 0 /\ ~playing
      /\ local[t] \in [player : Nat, loaded : 0 .. MaxLoad, count : Nat]
      /\ step[t] \notin {"idle", "join"} => local[t].player > 0
  BY DEF MusicInv, MusicShape
<1>1. PICK nothing : nothing = Mu!NoJob
  OBVIOUS
<1>2. nothing \in [player : Nat, loaded : 0 .. MaxLoad, count : Nat]
  BY <1>1 DEF Mu!NoJob, Mu!Job
<1>3. \A n, loaded, count : /\ Mu!Job(n, loaded, count).player = n /\ Mu!Job(n, loaded, count).loaded = loaded
                            /\ Mu!Job(n, loaded, count).count = count
  BY DEF Mu!Job
<1>4. \A n \in Nat, loaded \in 0 .. MaxLoad, count \in Nat :
         Mu!Job(n, loaded, count) \in [player : Nat, loaded : 0 .. MaxLoad, count : Nat]
  BY DEF Mu!Job
<1>5. ~crowded /\ step[t] # "idle" =>
         /\ \A s \in Tasks \ {t} : step[s] = "idle"
         /\ MusicFits(step[t], local[t]) /\ queue <= MaxQueue
  BY MusicAlone
<1>6. CASE Mu!Join(t)
  <2>1. step[t] = "join" /\ crowded' = crowded
    BY <1>6 DEF Mu!Join
  <2>2. CASE /\ created' = created + 1 /\ player' = created + 1 /\ queue' = 0 /\ playing' = FALSE
             /\ Mu!Goto(t, "load", Mu!Job(created + 1, 0, 0))
    <3>1. PICK j : j = Mu!Job(created + 1, 0, 0)
      OBVIOUS
    <3>2. j \in [player : Nat, loaded : 0 .. MaxLoad, count : Nat]
      BY <1>0, <1>4, <3>1
    <3>3. j.player > 0
      BY <1>0, <1>3, <3>1
    <3>4. MusicFits("load", j)'
      BY <2>2 DEF MusicFits
    <3>5. Mu!Goto(t, "load", j) /\ player' \in Nat /\ queue' \in Nat /\ created' \in Nat /\ player' # 0
      BY <1>0, <2>2, <3>1
    <3>6. queue' = 0
      BY <2>2
    <3>7. playing' \in BOOLEAN
      BY <2>2, Zenon
    <3> QED
      BY <1>0, <1>5, <2>1, <3>2, <3>3, <3>4, <3>5, <3>6, <3>7, MusicConstants, MusicTaskStep DEF MusicSteps
  <2>3. CASE Mu!Finish(t) /\ UNCHANGED <<player, queue, playing, created>>
    BY <1>0, <1>1, <1>2, <1>5, <2>1, <2>3, MusicTaskStep DEF MusicSteps, MusicFits, Mu!Finish
  <2> QED
    BY <1>6, <2>2, <2>3 DEF Mu!Join
<1>7. CASE Mu!LoadTracks(t)
  <2>1. step[t] = "load" /\ UNCHANGED <<player, queue, playing, created, crowded>>
    BY <1>7 DEF Mu!LoadTracks, Mu!data
  <2>2. CASE Mu!Finish(t)
    BY <1>0, <1>1, <1>2, <1>5, <2>1, <2>2, MusicTaskStep DEF MusicSteps, MusicFits, Mu!Finish
  <2>3. ASSUME NEW n \in 0 .. MaxLoad, Mu!Goto(t, "count", Mu!Job(local[t].player, n, 0)) PROVE MusicInv'
    <3>1. PICK j : j = Mu!Job(local[t].player, n, 0)
      OBVIOUS
    <3>2. j \in [player : Nat, loaded : 0 .. MaxLoad, count : Nat]
      BY <1>0, <1>4, <3>1
    <3>3. j.player > 0
      BY <1>0, <1>3, <2>1, <3>1
    <3>4. ~crowded' => MusicFits("count", j)'
      BY <1>5, <2>1 DEF MusicFits
    <3> QED
      BY <1>0, <1>5, <2>1, <2>3, <3>1, <3>2, <3>3, <3>4, MusicTaskStep DEF MusicSteps
  <2> QED
    BY <1>7, <2>2, <2>3, Zenon DEF Mu!LoadTracks
<1>8. CASE Mu!CountQueue(t)
  <2>1. step[t] = "count" /\ UNCHANGED <<player, queue, playing, created>>
    BY <1>8 DEF Mu!CountQueue
  <2>2. CASE /\ Mu!Goto(t, "append", Mu!Job(local[t].player, local[t].loaded, IF local[t].player = player THEN queue ELSE 0))
             /\ crowded' = crowded
    <3>1. PICK j : j = Mu!Job(local[t].player, local[t].loaded, IF local[t].player = player THEN queue ELSE 0)
      OBVIOUS
    <3>2. j \in [player : Nat, loaded : 0 .. MaxLoad, count : Nat]
      BY <1>0, <1>4, <3>1
    <3>3. j.player = local[t].player /\ j.count = IF local[t].player = player THEN queue ELSE 0
      BY <1>3, <3>1
    <3>4. ~crowded' => MusicFits("append", j)'
      BY <1>0, <1>5, <2>1, <2>2, <3>3 DEF MusicFits
    <3> QED
      BY <1>0, <1>5, <2>1, <2>2, <3>1, <3>2, <3>3, <3>4, MusicTaskStep DEF MusicSteps
  <2>3. CASE Mu!Goto(t, "append", local[t]) /\ crowded' = TRUE
    BY <1>0, <2>1, <2>3, MusicTaskStep DEF MusicSteps
  <2> QED
    BY <1>8, <2>2, <2>3 DEF Mu!CountQueue
<1>9. CASE Mu!Append(t)
  <2>1. step[t] = "append" /\ UNCHANGED <<player, playing, created, crowded>>
    BY <1>9 DEF Mu!Append
  <2>2. CASE Mu!Finish(t) /\ queue' = queue
    BY <1>0, <1>1, <1>2, <1>5, <2>1, <2>2, MusicTaskStep DEF MusicSteps, MusicFits, Mu!Finish
  <2>3. CASE /\ ~(local[t].count + local[t].loaded > MaxQueue) /\ Mu!Goto(t, "look", local[t])
             /\ queue' = IF local[t].player = player THEN queue + local[t].loaded ELSE queue
    <3>1. PICK j : j = local[t]
      OBVIOUS
    <3>2. queue' \in Nat
      BY <1>0, <2>3
    <3>3. ~crowded => queue' <= MaxQueue
      BY <1>0, <1>5, <2>1, <2>3 DEF MusicFits
    <3>4. ~crowded => MusicFits("look", j)'
      BY <1>5, <2>1, <2>3, <3>1 DEF MusicFits
    <3>5. player' = 0 => queue' = 0 /\ ~playing'
      BY <1>0, <2>1, <2>3
    <3> QED
      BY <1>0, <1>5, <2>1, <2>3, <3>1, <3>2, <3>3, <3>4, <3>5, MusicTaskStep DEF MusicSteps
  <2> QED
    BY <1>9, <2>2, <2>3 DEF Mu!Append
<1>10. CASE Mu!Look(t)
  <2>1. step[t] = "look" /\ UNCHANGED <<player, queue, playing, created>>
    BY <1>10 DEF Mu!Look
  <2>2. CASE Mu!Goto(t, "start", local[t]) /\ crowded' = crowded
    <3>1. PICK j : j = local[t]
      OBVIOUS
    <3>2. ~crowded' => MusicFits("start", j)'
      BY <1>5, <2>1, <2>2, <3>1 DEF MusicFits
    <3> QED
      BY <1>0, <1>5, <2>1, <2>2, <3>1, <3>2, MusicTaskStep DEF MusicSteps
  <2>3. CASE Mu!Finish(t) /\ crowded' = crowded /\ ~(local[t].player = player /\ ~playing)
    <3>1. ~crowded' /\ queue' > 0 => playing'
      BY <1>0, <1>5, <2>1, <2>3 DEF MusicFits
    <3> QED
      BY <1>0, <1>1, <1>2, <1>5, <2>1, <2>3, <3>1, MusicTaskStep DEF MusicSteps, Mu!Finish
  <2>4. CASE Mu!Finish(t) /\ crowded' = TRUE
    BY <1>0, <1>1, <1>2, <2>1, <2>4, MusicTaskStep DEF MusicSteps, Mu!Finish
  <2> QED
    BY <1>10, <2>2, <2>3, <2>4 DEF Mu!Look
<1>11. CASE Mu!KickOff(t)
  <2>1. step[t] = "start" /\ UNCHANGED <<player, created, crowded>> /\ Mu!Finish(t)
    BY <1>11 DEF Mu!KickOff
  <2>2. CASE local[t].player = player /\ queue > 0 /\ Mu!Advance
    BY <1>0, <1>1, <1>2, <1>5, <2>1, <2>2, MusicTake, MusicTaskStep DEF MusicSteps, Mu!Finish
  <2>3. CASE (local[t].player # player \/ queue = 0) /\ UNCHANGED <<queue, playing>>
    <3>1. ~crowded' /\ queue' > 0 => playing'
      BY <1>0, <1>5, <2>1, <2>3 DEF MusicFits
    <3> QED
      BY <1>0, <1>1, <1>2, <1>5, <2>1, <2>3, <3>1, MusicTaskStep DEF MusicSteps, Mu!Finish
  <2> QED
    BY <1>11, <2>2, <2>3 DEF Mu!KickOff
<1> QED
  BY <1>6, <1>7, <1>8, <1>9, <1>10, <1>11

\* Steps on the player that was found, or on none if it is gone: skip, the halves of
\* stop, and what gives up or deletes.
LEMMA MusicStops ==
    ASSUME MusicInv, NEW t \in Tasks,
           \/ Mu!SkipTrack(t) \/ Mu!ClearQueue(t) \/ Mu!StopNow(t) \/ Mu!GivesUp(t) \/ Mu!DeletePlayer(t)
    PROVE  MusicInv'
<1>0. /\ MusicShape /\ player \in Nat /\ queue \in Nat /\ created \in Nat /\ playing \in BOOLEAN /\ crowded \in BOOLEAN
      /\ player = 0 => queue = 0 /\ ~playing
      /\ local[t] \in [player : Nat, loaded : 0 .. MaxLoad, count : Nat]
      /\ step[t] \notin {"idle", "join"} => local[t].player > 0
  BY DEF MusicInv, MusicShape
<1>1. PICK nothing : nothing = Mu!NoJob
  OBVIOUS
<1>2. nothing \in [player : Nat, loaded : 0 .. MaxLoad, count : Nat]
  BY <1>1, MusicConstants DEF Mu!NoJob, Mu!Job
<1>3. ~crowded /\ step[t] # "idle" =>
         /\ \A s \in Tasks \ {t} : step[s] = "idle"
         /\ MusicFits(step[t], local[t]) /\ queue <= MaxQueue
  BY MusicAlone
<1>4. CASE Mu!SkipTrack(t)
  <2>1. step[t] = "skip" /\ UNCHANGED <<player, created, crowded>> /\ Mu!Goto(t, "idle", nothing)
    BY <1>1, <1>4 DEF Mu!SkipTrack, Mu!OnPlayer, Mu!Finish
  <2>2. Mu!Advance \/ UNCHANGED <<queue, playing>>
    BY <1>4 DEF Mu!SkipTrack, Mu!OnPlayer
  <2>3. /\ queue' \in Nat /\ playing' \in BOOLEAN /\ queue' <= queue
        /\ player' = 0 => queue' = 0 /\ ~playing'
        /\ ~crowded /\ queue' > 0 => playing'
    BY <1>0, <1>3, <2>1, <2>2, MusicTake DEF MusicFits
  <2>4. ~crowded => queue' <= MaxQueue
    BY <1>0, <1>3, <2>1, <2>3, MusicConstants
  <2> QED
    BY <1>0, <1>2, <1>3, <2>1, <2>3, <2>4, MusicTaskStep DEF MusicSteps
<1>5. CASE Mu!ClearQueue(t)
  <2>1. PICK j : j = local[t]
    OBVIOUS
  <2>2. step[t] = "clear" /\ UNCHANGED <<player, created, crowded>> /\ Mu!Goto(t, "stop", j)
    BY <1>5, <2>1 DEF Mu!ClearQueue, Mu!OnPlayer
  <2>3. /\ playing' = playing
        /\ (j.player = player /\ queue' = 0) \/ (j.player # player /\ queue' = queue)
    BY <1>5, <2>1 DEF Mu!ClearQueue, Mu!OnPlayer
  <2>4. ~crowded' => queue' <= MaxQueue /\ MusicFits("stop", j)'
    BY <1>0, <1>3, <2>1, <2>2, <2>3, MusicConstants DEF MusicFits
  <2> QED
    BY <1>0, <1>3, <2>1, <2>2, <2>3, <2>4, MusicTaskStep DEF MusicSteps
<1>6. CASE Mu!StopNow(t)
  <2>1. step[t] = "stop" /\ UNCHANGED <<player, created, crowded>> /\ Mu!Goto(t, "idle", nothing) /\ queue' = queue
    BY <1>1, <1>6 DEF Mu!StopNow, Mu!OnPlayer, Mu!Finish
  <2>2. (local[t].player = player /\ playing' = FALSE) \/ (local[t].player # player /\ playing' = playing)
    BY <1>6 DEF Mu!StopNow, Mu!OnPlayer
  <2>3. /\ playing' \in BOOLEAN
        /\ playing' => playing
        /\ local[t].player # player => (playing => playing')
    <3>1. CASE local[t].player = player
      <4>1. playing' \in BOOLEAN /\ ~playing'
        BY <2>2, <3>1, Zenon
      <4> QED
        BY <3>1, <4>1
    <3>2. CASE local[t].player # player
      BY <1>0, <2>2, <3>2
    <3> QED
      BY <3>1, <3>2
  <2>4. ~crowded /\ queue' > 0 => playing'
    BY <1>0, <1>3, <2>1, <2>3 DEF MusicFits
  <2> QED
    BY <1>0, <1>2, <1>3, <2>1, <2>3, <2>4, MusicTaskStep DEF MusicSteps
<1>7. CASE Mu!GivesUp(t)
  <2>1. /\ step[t] \in {"stop", "delete"} /\ Mu!Goto(t, "idle", nothing)
        /\ UNCHANGED <<player, queue, playing, created, crowded>>
    BY <1>1, <1>7 DEF Mu!GivesUp, Mu!Finish, Mu!data
  <2>2. ~crowded /\ queue' > 0 => playing'
    BY <1>0, <1>3, <2>1 DEF MusicFits
  <2> QED
    BY <1>0, <1>2, <1>3, <2>1, <2>2, MusicTaskStep DEF MusicSteps
<1>8. CASE Mu!DeletePlayer(t)
  <2>1. /\ step[t] = "delete" /\ Mu!Goto(t, "idle", nothing) /\ UNCHANGED <<created, crowded>>
        /\ player' = 0 /\ queue' = 0
    BY <1>1, <1>8 DEF Mu!DeletePlayer, Mu!Finish, Mu!Gone
  <2>2. playing' \in BOOLEAN /\ ~playing'
    BY <1>8, Zenon DEF Mu!DeletePlayer, Mu!Gone
  <2> QED
    BY <1>0, <1>2, <1>3, <2>1, <2>2, MusicConstants, MusicTaskStep DEF MusicSteps
<1> QED
  BY <1>4, <1>5, <1>6, <1>7, <1>8

\* A track ends, or Lavalink was restarted.
LEMMA MusicByItself ==
    ASSUME MusicInv, Mu!TrackEnds \/ Mu!ReadyEvent
    PROVE  MusicInv'
<1>0. /\ MusicShape /\ player \in Nat /\ queue \in Nat /\ created \in Nat /\ playing \in BOOLEAN /\ crowded \in BOOLEAN
      /\ player = 0 => queue = 0 /\ ~playing
  BY DEF MusicInv, MusicShape
<1>1. UNCHANGED <<created, crowded, step, local>>
  BY DEF Mu!TrackEnds, Mu!ReadyEvent
<1>2. /\ queue' \in Nat /\ playing' \in BOOLEAN /\ queue' <= queue /\ player' \in {0, player}
      /\ queue' > 0 => playing'
      /\ player' = 0 => queue' = 0 /\ ~playing'
      /\ player' # player => queue' = 0
  <2>1. CASE Mu!TrackEnds
    BY <1>0, <2>1, MusicTake DEF Mu!TrackEnds
  <2>2. CASE Mu!ReadyEvent
    <3>1. playing' \in BOOLEAN /\ ~playing'
      BY <2>2, Zenon DEF Mu!ReadyEvent, Mu!Gone
    <3>2. player' = 0 /\ queue' = 0
      BY <2>2 DEF Mu!ReadyEvent, Mu!Gone
    <3> QED
      BY <1>0, <3>1, <3>2
  <2> QED
    BY <2>1, <2>2
<1>3. MusicShape'
  BY <1>0, <1>1, <1>2 DEF MusicShape
<1>4. ASSUME ~crowded PROVE MusicTended'
  <2>1. queue' <= MaxQueue
    BY <1>0, <1>2, <1>4, MusicConstants DEF MusicInv, MusicTended
  <2>2. ASSUME NEW t \in Tasks, step[t] # "idle" PROVE MusicFits(step[t], local[t])'
    <3>1. /\ MusicFits(step[t], local[t])
          /\ local[t] \in [player : Nat, loaded : 0 .. MaxLoad, count : Nat]
      BY <1>4, <2>2 DEF MusicInv, MusicTended, MusicShape
    <3>2. /\ step[t] = "append" /\ local[t].player = player' => queue' <= local[t].count
          /\ step[t] = "stop" /\ local[t].player = player' => queue' = 0
      BY <1>0, <1>2, <3>1 DEF MusicFits
    <3> QED
      BY <1>1, <1>2, <3>2 DEF MusicFits
  <2> QED
    BY <1>1, <1>2, <1>4, <2>1, <2>2 DEF MusicTended, MusicInv
<1> QED
  BY <1>1, <1>3, <1>4 DEF MusicInv, MusicTended

LEMMA MusicStep == MusicInv /\ [Mu!Next]_(Mu!vars) => MusicInv'
<1> SUFFICES ASSUME MusicInv, [Mu!Next]_(Mu!vars) PROVE MusicInv'
  OBVIOUS
<1>1. player \in Nat
  BY DEF MusicInv, MusicShape
<1>2. ASSUME NEW t \in Tasks, \/ Mu!Play(t) \/ Mu!Skip(t) \/ Mu!PostSkip(t) \/ Mu!Stop(t) \/ Mu!Disconnect(t)
      PROVE MusicInv'
  <2>1. ASSUME NEW p \in {"load", "skip", "clear", "delete"}, Mu!Order(t, p, player), player > 0 PROVE MusicInv'
    BY <1>1, <2>1, MusicOrders
  <2>2. CASE Mu!Play(t)
    <3>1. CASE player = 0
      BY <1>1, <2>2, <3>1, MusicOrders DEF Mu!Play
    <3>2. CASE player > 0
      BY <1>1, <2>1, <2>2, <3>2 DEF Mu!Play
    <3> QED
      BY <1>1, <3>1, <3>2
  <2>3. CASE Mu!Skip(t) \/ Mu!PostSkip(t)
    BY <2>1, <2>3 DEF Mu!Skip, Mu!PostSkip
  <2>4. CASE Mu!Stop(t)
    BY <2>1, <2>4 DEF Mu!Stop
  <2>5. CASE Mu!Disconnect(t)
    BY <2>1, <2>5 DEF Mu!Disconnect
  <2> QED
    BY <1>2, <2>2, <2>3, <2>4, <2>5
<1>3. CASE UNCHANGED Mu!vars
  BY <1>3 DEF MusicInv, MusicShape, MusicTended, MusicFits, Mu!Calm, Mu!vars
<1> QED
  BY <1>2, <1>3, MusicPlays, MusicStops, MusicByItself, Zenon DEF Mu!Next

LEMMA MusicInit == Mu!DataInit /\ Mu!TaskInit => MusicInv
<1> SUFFICES ASSUME Mu!DataInit, Mu!TaskInit PROVE MusicInv
  OBVIOUS
<1>1. PICK nothing : nothing = Mu!NoJob
  OBVIOUS
<1>2. nothing \in [player : Nat, loaded : 0 .. MaxLoad, count : Nat]
  BY <1>1, MusicConstants DEF Mu!NoJob, Mu!Job
<1>3. \A t \in Tasks : step[t] = "idle" /\ local[t] = nothing
  BY <1>1 DEF Mu!TaskInit
<1>4. local = [t \in Tasks |-> nothing] /\ step = [t \in Tasks |-> "idle"]
  BY <1>1 DEF Mu!TaskInit
<1>5. player = 0 /\ queue = 0 /\ created = 0
  BY DEF Mu!DataInit
<1>6. playing \in BOOLEAN /\ crowded \in BOOLEAN /\ ~playing
  BY Zenon DEF Mu!DataInit
<1>7. MusicShape
  BY <1>2, <1>3, <1>4, <1>5, <1>6 DEF MusicShape, MusicSteps
<1>8. MusicTended
  BY <1>3, <1>5, <1>6, MusicConstants DEF MusicTended
<1> QED
  BY <1>7, <1>8 DEF MusicInv

(***************************************************************************)
(* The limits on requests.                                                 *)
(***************************************************************************)
\* The history of a window that began when its first request was let through, and of
\* those before it: what went through since then is within the budget and all in the
\* window; of a time that began in the window before, less than a budget did; and no
\* time as long as a window saw two.
Fair(total, start, count, at, max) ==
    /\ total \in [Hl!Ends -> Nat] /\ start \in 0 .. at /\ count \in Nat
    /\ \A i, j \in Hl!Ends : i <= j => total[i] <= total[j]
    /\ \A i \in Hl!Ends : i > at => total[i] = total[MaxClock + 1]
    /\ count = 0 => total[MaxClock + 1] = 0
    /\ total[MaxClock + 1] <= total[start] + count /\ total[MaxClock + 1] <= total[start] + max
    /\ count > 0 => total[start + 1] > total[start]
    /\ \A i \in Hl!Ends : count > 0 /\ i >= start + Window => total[i] = total[MaxClock + 1]
    /\ \A from \in Hl!Times : count > 0 /\ from < start /\ start < from + Window => total[start] < total[from] + max
    /\ \A from \in Hl!Times : Hl!Within(total, from) < 2 * max

LimitInv ==
    /\ clock \in Hl!Times
    /\ Fair(passed, global.start, global.count, clock, MaxGlobal)
    /\ hits \in [Actors -> [start : Nat, count : Nat]] /\ global \in [start : Nat, count : Nat]
    /\ served \in [Actors -> [Hl!Ends -> Nat]]
    /\ \A a \in Actors \ evicted : Fair(served[a], hits[a].start, hits[a].count, clock, MaxActor)
LEMMA LaterTotal ==
    ASSUME NEW total \in [Hl!Ends -> Nat], clock \in Hl!Times
    PROVE  /\ Hl!LetThrough(total) \in [Hl!Ends -> Nat]
           /\ \A i \in Hl!Ends : Hl!LetThrough(total)[i] = IF i > clock THEN total[i] + 1 ELSE total[i]
  BY LimiterConstants DEF Hl!LetThrough, Hl!Ends, Hl!Times

\* One more request in a window that is not over.
LEMMA FairAgain ==
    ASSUME clock \in Hl!Times, NEW total, NEW start, NEW count, NEW max \in Nat \ {0},
           Fair(total, start, count, clock, max), count > 0, clock < start + Window, count + 1 <= max
    PROVE  Fair(Hl!LetThrough(total), start, count + 1, clock, max)
<1> DEFINE End == MaxClock + 1
<1>1. PICK later : later = Hl!LetThrough(total)
  OBVIOUS
<1>2. /\ total \in [Hl!Ends -> Nat] /\ start \in 0 .. clock /\ count \in Nat
      /\ clock \in 0 .. MaxClock /\ MaxClock \in Nat /\ Window \in Nat \ {0} /\ Hl!Ends = 0 .. End /\ Hl!Times = 0 .. MaxClock
  BY LimiterConstants DEF Fair, Hl!Times, Hl!Ends
<1>3. /\ later \in [Hl!Ends -> Nat]
      /\ \A i \in Hl!Ends : later[i] = IF i > clock THEN total[i] + 1 ELSE total[i]
  BY <1>1, <1>2, LaterTotal
<1>4. later[End] = total[End] + 1 /\ later[start] = total[start] /\ start \in Hl!Ends /\ start + 1 \in Hl!Ends /\ End \in Hl!Ends
  BY <1>2, <1>3
<1>5. /\ \A i \in Hl!Ends : total[i] \in Nat
      /\ \A i, j \in Hl!Ends : i <= j => total[i] <= total[j]
      /\ \A i \in Hl!Ends : i > clock => total[i] = total[End]
      /\ total[End] <= total[start] + count
      /\ total[start + 1] > total[start]
      /\ \A i \in Hl!Ends : i >= start + Window => total[i] = total[End]
      /\ \A from \in Hl!Times : from < start /\ start < from + Window => total[start] < total[from] + max
      /\ \A from \in Hl!Times : Hl!Within(total, from) < 2 * max
  BY <1>2 DEF Fair
<1>6. \A i, j \in Hl!Ends : i <= j => later[i] <= later[j]
  <2> SUFFICES ASSUME NEW i \in Hl!Ends, NEW j \in Hl!Ends, i <= j PROVE later[i] <= later[j]
    OBVIOUS
  <2>1. total[i] \in Nat /\ total[j] \in Nat /\ total[i] <= total[j] /\ i \in Nat /\ j \in Nat
    BY <1>2, <1>5
  <2>2. i > clock => j > clock
    BY <1>2, <2>1
  <2> QED
    BY <1>3, <2>1, <2>2
<1>7. \A i \in Hl!Ends : i > clock => later[i] = later[End]
  BY <1>2, <1>3, <1>4, <1>5
<1>8. later[End] <= later[start] + (count + 1) /\ later[End] <= later[start] + max
  BY <1>2, <1>4, <1>5
<1>9. later[start + 1] > later[start]
  <2>1. total[start + 1] \in Nat /\ total[start] \in Nat /\ total[start + 1] > total[start]
    BY <1>4, <1>5
  <2>2. later[start + 1] = total[start + 1] \/ later[start + 1] = total[start + 1] + 1
    BY <1>3, <1>4
  <2> QED
    BY <1>4, <2>1, <2>2
<1>10. \A i \in Hl!Ends : i >= start + Window => later[i] = later[End]
  BY <1>2, <1>7
<1>11. \A from \in Hl!Times : from < start /\ start < from + Window => later[start] < later[from] + max
  BY <1>2, <1>3, <1>4, <1>5
<1>12. ASSUME NEW from \in Hl!Times PROVE Hl!Within(later, from) < 2 * max
  <2>1. PICK to : to = IF from + Window \in Hl!Ends THEN from + Window ELSE End
    OBVIOUS
  <2>2. /\ Hl!Within(later, from) = later[to] - later[from] /\ Hl!Within(total, from) = total[to] - total[from]
    BY <2>1 DEF Hl!Within
  <2>3. to \in Hl!Ends /\ from \in Hl!Ends /\ from < to /\ (to = from + Window \/ to = End)
    BY <1>2, <2>1
  <2>4. CASE to <= clock \/ from > clock
    <3>1. total[to] \in Nat /\ total[from] \in Nat /\ total[to] - total[from] < 2 * max
      BY <1>5, <2>2, <2>3
    <3>2. CASE to <= clock
      <4>1. later[to] = total[to] /\ later[from] = total[from]
        BY <1>2, <1>3, <2>3, <3>2
      <4> QED
        BY <2>2, <3>1, <4>1
    <3>3. CASE from > clock
      <4>1. later[to] = total[to] + 1 /\ later[from] = total[from] + 1
        BY <1>2, <1>3, <2>3, <3>3
      <4> QED
        BY <2>2, <3>1, <4>1
    <3> QED
      BY <2>4, <3>2, <3>3
  <2>5. CASE from <= clock /\ clock < to
    <3>1. later[to] = later[End] /\ later[from] = total[from] /\ later[from] \in Nat /\ later[start] \in Nat /\ later[End] \in Nat
      BY <1>2, <1>3, <1>4, <1>7, <2>3, <2>5
    <3>2. CASE from >= start
      <4>1. later[from] >= later[start]
        BY <1>2, <1>4, <1>6, <2>3, <3>2
      <4> QED
        BY <1>8, <2>2, <3>1, <4>1
    <3>3. CASE from < start
      <4>1. later[start] < later[from] + max
        <5>1. start < from + Window
          BY <1>2, <2>1, <2>5
        <5> QED
          BY <1>11, <3>3, <5>1
      <4> QED
        BY <1>8, <2>2, <3>1, <4>1
    <3> QED
      BY <1>2, <3>2, <3>3
  <2> QED
    BY <1>2, <2>3, <2>4, <2>5
<1>13. count + 1 \in Nat /\ count + 1 # 0
  BY <1>2
<1>14. Fair(later, start, count + 1, clock, max)
  BY <1>2, <1>3, <1>6, <1>7, <1>8, <1>9, <1>10, <1>11, <1>12, <1>13 DEF Fair
<1> QED
  BY <1>1, <1>14

\* One more over the limit.
LEMMA FairRefused ==
    ASSUME clock \in Hl!Times, NEW total, NEW start, NEW count, NEW max \in Nat \ {0},
           Fair(total, start, count, clock, max), count > 0
    PROVE  Fair(total, start, count + 1, clock, max)
<1>1. count \in Nat /\ count + 1 > 0 /\ count + 1 # 0 /\ count + 1 \in Nat
  BY DEF Fair
<1>2. total[MaxClock + 1] <= total[start] + (count + 1)
  <2>1. start \in Hl!Ends /\ MaxClock + 1 \in Hl!Ends
    BY LimiterConstants DEF Fair, Hl!Ends, Hl!Times
  <2>2. total[start] \in Nat /\ total[MaxClock + 1] \in Nat /\ total[MaxClock + 1] <= total[start] + count
    BY <2>1 DEF Fair
  <2> QED
    BY <1>1, <2>2
<1> QED
  BY <1>1, <1>2 DEF Fair

\* The first of a new window.
LEMMA FairAnew ==
    ASSUME clock \in Hl!Times, NEW total, NEW start, NEW count, NEW max \in Nat \ {0},
           Fair(total, start, count, clock, max), count = 0 \/ clock >= start + Window
    PROVE  Fair(Hl!LetThrough(total), clock, 1, clock, max)
<1> DEFINE End == MaxClock + 1
<1>1. PICK later : later = Hl!LetThrough(total)
  OBVIOUS
<1>2. /\ total \in [Hl!Ends -> Nat] /\ start \in 0 .. clock /\ count \in Nat
      /\ clock \in 0 .. MaxClock /\ MaxClock \in Nat /\ Window \in Nat \ {0} /\ Hl!Ends = 0 .. End /\ Hl!Times = 0 .. MaxClock
  BY LimiterConstants DEF Fair, Hl!Times, Hl!Ends
<1>3. /\ later \in [Hl!Ends -> Nat]
      /\ \A i \in Hl!Ends : later[i] = IF i > clock THEN total[i] + 1 ELSE total[i]
  BY <1>1, <1>2, LaterTotal
<1>4. clock \in Hl!Ends /\ clock + 1 \in Hl!Ends /\ End \in Hl!Ends /\ start \in Hl!Ends /\ start + 1 \in Hl!Ends
  BY <1>2
<1>5. /\ \A i \in Hl!Ends : total[i] \in Nat
      /\ \A i, j \in Hl!Ends : i <= j => total[i] <= total[j]
      /\ \A i \in Hl!Ends : i > clock => total[i] = total[End]
      /\ \A from \in Hl!Times : Hl!Within(total, from) < 2 * max
  BY <1>2 DEF Fair
\* Nothing was let through at this time yet, and less than a budget since the last window began.
<1>6. /\ total[clock] = total[End]
      /\ \A i \in Hl!Ends : i > start \/ count = 0 => total[End] < total[i] + max
  <2>1. CASE count = 0
    <3>1. total[End] = 0
      BY <1>2, <2>1 DEF Fair
    <3>2. \A i \in Hl!Ends : total[i] <= 0
      BY <1>2, <1>4, <1>5, <3>1
    <3>3. \A i \in Hl!Ends : total[i] = 0
      BY <1>5, <3>2
    <3> QED
      BY <1>4, <3>1, <3>3
  <2>2. CASE count > 0
    <3>1. clock >= start + Window
      BY <2>2
    <3>2. total[clock] = total[End]
      BY <1>2, <1>4, <2>2, <3>1 DEF Fair
    <3>3. total[End] <= total[start] + max /\ total[start + 1] > total[start]
      BY <1>2, <2>2 DEF Fair
    <3>4. \A i \in Hl!Ends : i > start => total[start + 1] <= total[i]
      BY <1>2, <1>4, <1>5
    <3>5. ASSUME NEW i \in Hl!Ends, i > start PROVE total[End] < total[i] + max
      BY <1>4, <1>5, <3>3, <3>4, <3>5
    <3> QED
      BY <2>2, <3>2, <3>5
  <2> QED
    BY <1>2, <2>1, <2>2
<1>7. /\ later[End] = total[End] + 1 /\ later[clock] = total[End] /\ later[clock + 1] = total[End] + 1 /\ total[End] \in Nat
  BY <1>2, <1>3, <1>4, <1>5, <1>6
<1>8. \A i, j \in Hl!Ends : i <= j => later[i] <= later[j]
  <2> SUFFICES ASSUME NEW i \in Hl!Ends, NEW j \in Hl!Ends, i <= j PROVE later[i] <= later[j]
    OBVIOUS
  <2>1. total[i] \in Nat /\ total[j] \in Nat /\ total[i] <= total[j] /\ i \in Nat /\ j \in Nat
    BY <1>2, <1>5
  <2>2. i > clock => j > clock
    BY <1>2, <2>1
  <2> QED
    BY <1>3, <2>1, <2>2
<1>9. \A i \in Hl!Ends : i > clock => later[i] = later[End]
  BY <1>2, <1>3, <1>4, <1>5, <1>7
<1>10. \A i \in Hl!Ends : i >= clock + Window => later[i] = later[End]
  BY <1>2, <1>9
<1>11. ASSUME NEW from \in Hl!Times, from < clock, clock < from + Window PROVE total[End] < later[from] + max
  <2>1. from \in Hl!Ends /\ later[from] = total[from] /\ (from > start \/ count = 0)
    BY <1>2, <1>3, <1>11
  <2> QED
    BY <1>6, <2>1
<1>12. ASSUME NEW from \in Hl!Times PROVE Hl!Within(later, from) < 2 * max
  <2>1. PICK to : to = IF from + Window \in Hl!Ends THEN from + Window ELSE End
    OBVIOUS
  <2>2. /\ Hl!Within(later, from) = later[to] - later[from] /\ Hl!Within(total, from) = total[to] - total[from]
    BY <2>1 DEF Hl!Within
  <2>3. to \in Hl!Ends /\ from \in Hl!Ends /\ from < to /\ (to = from + Window \/ to = End)
    BY <1>2, <2>1
  <2>4. CASE to <= clock \/ from > clock
    <3>1. total[to] \in Nat /\ total[from] \in Nat /\ total[to] - total[from] < 2 * max
      BY <1>5, <2>2, <2>3
    <3>2. CASE to <= clock
      <4>1. later[to] = total[to] /\ later[from] = total[from]
        BY <1>2, <1>3, <2>3, <3>2
      <4> QED
        BY <2>2, <3>1, <4>1
    <3>3. CASE from > clock
      <4>1. later[to] = total[to] + 1 /\ later[from] = total[from] + 1
        BY <1>2, <1>3, <2>3, <3>3
      <4> QED
        BY <2>2, <3>1, <4>1
    <3> QED
      BY <2>4, <3>2, <3>3
  <2>5. CASE from <= clock /\ clock < to
    <3>1. later[to] = total[End] + 1 /\ later[from] \in Nat
      BY <1>2, <1>3, <1>4, <1>7, <1>9, <2>3, <2>5
    <3>2. CASE from = clock
      BY <1>7, <2>2, <3>1, <3>2
    <3>3. CASE from < clock
      <4>1. clock < from + Window
        BY <1>2, <2>1, <2>5
      <4>2. total[End] < later[from] + max
        BY <1>11, <3>3, <4>1
      <4> QED
        BY <1>7, <2>2, <3>1, <4>2
    <3> QED
      BY <1>2, <2>5, <3>2, <3>3
  <2> QED
    BY <1>2, <2>3, <2>4, <2>5
<1>13. /\ later[End] <= later[clock] + 1 /\ later[End] <= later[clock] + max /\ later[clock + 1] > later[clock]
       /\ clock \in 0 .. clock /\ 1 \in Nat /\ 1 # 0
  BY <1>2, <1>7
<1>14. Fair(later, clock, 1, clock, max)
  BY <1>3, <1>7, <1>8, <1>9, <1>10, <1>11, <1>12, <1>13 DEF Fair
<1> QED
  BY <1>1, <1>14

\* Time passes.
LEMMA FairLater ==
    ASSUME clock \in Hl!Times, NEW total, NEW start, NEW count, NEW max \in Nat \ {0},
           Fair(total, start, count, clock, max)
    PROVE  Fair(total, start, count, clock + 1, max)
<1>1. start \in 0 .. clock + 1 /\ \A i \in Hl!Ends : i > clock + 1 => i > clock
  BY LimiterConstants DEF Fair, Hl!Times, Hl!Ends
<1> QED
  BY <1>1 DEF Fair

LEMMA FairCounted ==
    ASSUME clock \in Hl!Times, NEW total, NEW w \in [start : Nat, count : Nat], NEW max \in Nat \ {0},
           Fair(total, w.start, w.count, clock, max), NEW v, v = Hl!Counted(w)
    PROVE  /\ v \in [start : Nat, count : Nat]
           /\ v.count <= max => Fair(Hl!LetThrough(total), v.start, v.count, clock, max)
           /\ v.count > max => Fair(total, v.start, v.count, clock, max)
<1>1. clock \in Nat /\ Window \in Nat /\ w.start \in Nat /\ w.count \in Nat
  BY LimiterConstants DEF Hl!Times
<1>2. CASE w.count = 0 \/ clock - w.start >= Window
  <2>1. v = [start |-> clock, count |-> 1]
    BY <1>2 DEF Hl!Counted
  <2>2. v.start = clock /\ v.count = 1 /\ v \in [start : Nat, count : Nat]
    BY <1>1, <2>1
  <2>3. w.count = 0 \/ clock >= w.start + Window
    BY <1>1, <1>2
  <2>4. Fair(Hl!LetThrough(total), clock, 1, clock, max)
    BY <2>3, FairAnew
  <2> QED
    BY <2>2, <2>4
<1>3. CASE ~(w.count = 0 \/ clock - w.start >= Window)
  <2>1. v = [start |-> w.start, count |-> w.count + 1]
    BY <1>3 DEF Hl!Counted
  <2>2. v.start = w.start /\ v.count = w.count + 1 /\ v \in [start : Nat, count : Nat]
    BY <1>1, <2>1
  <2>3. w.count > 0 /\ clock < w.start + Window
    BY <1>1, <1>3
  <2>4. w.count + 1 <= max => Fair(Hl!LetThrough(total), w.start, w.count + 1, clock, max)
    BY <2>3, FairAgain
  <2>5. Fair(total, w.start, w.count + 1, clock, max)
    BY <2>3, FairRefused
  <2> QED
    BY <2>2, <2>4, <2>5
<1> QED
  BY <1>2, <1>3

LEMMA FairAtFirst ==
    ASSUME NEW max \in Nat \ {0}
    PROVE  Fair([i \in Hl!Ends |-> 0], 0, 0, 0, max)
<1>1. PICK none : none = [i \in Hl!Ends |-> 0]
  OBVIOUS
<1>2. none \in [Hl!Ends -> Nat] /\ \A i \in Hl!Ends : none[i] = 0
  BY <1>1
<1>3. 0 \in Hl!Ends /\ MaxClock + 1 \in Hl!Ends /\ MaxClock \in Nat /\ Window \in Nat \ {0}
  BY LimiterConstants DEF Hl!Ends
<1>4. \A from \in Hl!Times : Hl!Within(none, from) < 2 * max
  <2> SUFFICES ASSUME NEW from \in Hl!Times PROVE Hl!Within(none, from) < 2 * max
    OBVIOUS
  <2>1. from \in Hl!Ends
    BY LimiterConstants DEF Hl!Ends, Hl!Times
  <2>2. Hl!Within(none, from) = 0
    BY <1>2, <1>3, <2>1 DEF Hl!Within
  <2> QED
    BY <2>2
<1>5. Fair(none, 0, 0, 0, max)
  BY <1>2, <1>3, <1>4 DEF Fair
<1> QED
  BY <1>1, <1>5

LEMMA LimitStep == LimitInv /\ [Hl!Next]_(Hl!vars) => LimitInv'
<1> SUFFICES ASSUME LimitInv, [Hl!Next]_(Hl!vars) PROVE LimitInv'
  OBVIOUS
<1> USE DEF LimitInv
<1>0. MaxActor \in Nat \ {0} /\ MaxGlobal \in Nat \ {0} /\ MaxClock \in Nat
  BY LimiterConstants
<1>1. ASSUME UNCHANGED <<hits, global, clock, served, passed, evicted>> PROVE LimitInv'
  BY <1>1
<1>2. ASSUME NEW t \in Tasks, NEW a \in Actors, Hl!Arrive(t, a) PROVE LimitInv'
  <2>1. PICK w : w = Hl!Counted(global)
    OBVIOUS
  <2>2. /\ global' = w /\ UNCHANGED <<hits, clock, served, evicted>>
        /\ \/ w.count <= MaxGlobal /\ passed' = Hl!LetThrough(passed)
           \/ w.count > MaxGlobal /\ passed' = passed
    BY <1>2, <2>1 DEF Hl!Arrive
  <2>3. /\ w \in [start : Nat, count : Nat]
        /\ w.count <= MaxGlobal => Fair(Hl!LetThrough(passed), w.start, w.count, clock, MaxGlobal)
        /\ w.count > MaxGlobal => Fair(passed, w.start, w.count, clock, MaxGlobal)
    BY <1>0, <2>1, FairCounted
  <2>4. PICK total : total = passed'
    OBVIOUS
  <2>5. Fair(total, w.start, w.count, clock, MaxGlobal)
    BY <2>2, <2>3, <2>4
  <2>6. Fair(passed, global.start, global.count, clock, MaxGlobal)'
    BY <2>2, <2>4, <2>5
  <2> QED
    BY <2>2, <2>3, <2>6
<1>3. ASSUME NEW t \in Tasks, Hl!MakeRoom(t) \/ Hl!CheckBlacklist(t) PROVE LimitInv'
  BY <1>1, <1>3 DEF Hl!MakeRoom, Hl!CheckBlacklist, Hl!data
<1>4. ASSUME NEW t \in Tasks, Hl!Evict(t) PROVE LimitInv'
  <2>1. PICK victim : victim = local[t].victim
    OBVIOUS
  <2>2. /\ hits' = [hits EXCEPT ![victim] = Hl!NoWindow] /\ evicted' = evicted \cup {victim}
        /\ UNCHANGED <<global, clock, served, passed>>
    BY <1>4, <2>1 DEF Hl!Evict
  <2>3. Hl!NoWindow \in [start : Nat, count : Nat]
    BY DEF Hl!NoWindow
  <2>4. hits' \in [Actors -> [start : Nat, count : Nat]] /\ \A a \in Actors \ {victim} : hits'[a] = hits[a]
    BY <2>2, <2>3
  <2> QED
    BY <2>2, <2>4
<1>5. ASSUME NEW t \in Tasks, Hl!Count(t) PROVE LimitInv'
  <2>1. PICK a : a = local[t].actor
    OBVIOUS
  <2>2. PICK w : w = Hl!Counted(hits[a])
    OBVIOUS
  <2>3. /\ hits' = [hits EXCEPT ![a] = w] /\ UNCHANGED <<global, clock, passed, evicted>>
        /\ \/ w.count <= MaxActor /\ served' = [served EXCEPT ![a] = Hl!LetThrough(@)]
           \/ w.count > MaxActor /\ served' = served
    BY <1>5, <2>1, <2>2 DEF Hl!Count
  <2>4. CASE a \notin Actors
    <3>1. hits' = hits /\ served' = served
      BY <2>3, <2>4
    <3> QED
      BY <1>1, <2>3, <3>1
  <2>5. CASE a \in Actors
    <3>1. PICK total : total = IF w.count <= MaxActor THEN Hl!LetThrough(served[a]) ELSE served[a]
      OBVIOUS
    <3>2. hits[a] \in [start : Nat, count : Nat] /\ served[a] \in [Hl!Ends -> Nat]
      BY <2>5
    <3>3. w \in [start : Nat, count : Nat]
      <4>1. \A v \in [start : Nat, count : Nat] : Hl!Counted(v) \in [start : Nat, count : Nat]
        BY LimiterConstants DEF Hl!Counted, Hl!Times
      <4> QED
        BY <2>2, <3>2, <4>1
    <3>4. total \in [Hl!Ends -> Nat]
      BY <3>1, <3>2, LaterTotal
    <3>5. a \notin evicted => Fair(total, w.start, w.count, clock, MaxActor)
      <4> SUFFICES ASSUME a \notin evicted PROVE Fair(total, w.start, w.count, clock, MaxActor)
        OBVIOUS
      <4>1. Fair(served[a], hits[a].start, hits[a].count, clock, MaxActor)
        BY <2>5
      <4>2. /\ w.count <= MaxActor => Fair(Hl!LetThrough(served[a]), w.start, w.count, clock, MaxActor)
            /\ w.count > MaxActor => Fair(served[a], w.start, w.count, clock, MaxActor)
        BY <1>0, <2>2, <3>2, <4>1, FairCounted
      <4>3. w.count <= MaxActor \/ w.count > MaxActor
        BY <1>0, <3>3
      <4> QED
        BY <3>1, <4>2, <4>3
    <3>6. served' = [served EXCEPT ![a] = total]
      BY <1>0, <2>3, <2>5, <3>1, <3>3
    <3>7. /\ hits'[a] = w /\ served'[a] = total
          /\ hits' \in [Actors -> [start : Nat, count : Nat]] /\ served' \in [Actors -> [Hl!Ends -> Nat]]
          /\ \A b \in Actors \ {a} : hits'[b] = hits[b] /\ served'[b] = served[b]
      BY <2>3, <2>5, <3>3, <3>4, <3>6
    <3>8. ASSUME NEW b \in Actors \ evicted PROVE Fair(served'[b], hits'[b].start, hits'[b].count, clock, MaxActor)
      BY <3>5, <3>7
    <3> QED
      BY <2>3, <3>7, <3>8
  <2> QED
    BY <2>4, <2>5
<1>6. CASE Hl!Tick
  <2>1. clock' = clock + 1 /\ clock < MaxClock /\ UNCHANGED <<hits, global, served, passed, evicted>>
    BY <1>6 DEF Hl!Tick
  <2>2. clock' \in Hl!Times
    BY <1>0, <2>1 DEF Hl!Times
  <2>3. Fair(passed, global.start, global.count, clock + 1, MaxGlobal)
    BY <1>0, FairLater
  <2>4. \A a \in Actors \ evicted : Fair(served[a], hits[a].start, hits[a].count, clock + 1, MaxActor)
    BY <1>0, FairLater
  <2> QED
    BY <2>1, <2>2, <2>3, <2>4
<1>7. CASE UNCHANGED Hl!vars
  BY <1>1, <1>7 DEF Hl!vars
<1> QED
  BY <1>2, <1>3, <1>4, <1>5, <1>6, <1>7, Zenon DEF Hl!Next

LEMMA LimitInit == Hl!DataInit => LimitInv
<1> SUFFICES ASSUME Hl!DataInit PROVE LimitInv
  OBVIOUS
<1>1. PICK none : none = [i \in Hl!Ends |-> 0]
  OBVIOUS
<1>2. PICK nothing : nothing = Hl!NoWindow
  OBVIOUS
<1>3. nothing.start = 0 /\ nothing.count = 0 /\ nothing \in [start : Nat, count : Nat]
  BY <1>2 DEF Hl!NoWindow
<1>4. /\ hits = [a \in Actors |-> nothing] /\ global = nothing /\ clock = 0
      /\ served = [a \in Actors |-> none] /\ passed = none
  BY <1>1, <1>2 DEF Hl!DataInit
<1>5. Fair(none, 0, 0, 0, MaxGlobal) /\ Fair(none, 0, 0, 0, MaxActor)
  BY <1>1, FairAtFirst, LimiterConstants
<1>6. none \in [Hl!Ends -> Nat] /\ clock \in Hl!Times
  BY <1>1, <1>4, LimiterConstants DEF Hl!Times
<1>7. \A a \in Actors : served[a] = none /\ hits[a] = nothing
  BY <1>4
<1>8. hits \in [Actors -> [start : Nat, count : Nat]] /\ served \in [Actors -> [Hl!Ends -> Nat]]
  BY <1>3, <1>4, <1>6
<1> QED
  BY <1>3, <1>4, <1>5, <1>6, <1>7, <1>8 DEF LimitInv

\* However requests are spread over the fixed windows, no time as long as one sees two
\* budgets of them (allow, auth_middleware).
LEMMA BudgetsKept == LimitInv => Hl!BudgetsHeld
  BY DEF LimitInv, Fair, Hl!BudgetsHeld

\* Requests keep to their budgets whatever the time and order they come in, and commands
\* one at a time keep the queue within its limit and leave none that nobody plays (allow,
\* auth_middleware; play, skip, stop, post_skip, post_stop).
THEOREM LimitsKept == MCSpec => []LimitsHeld
<1> DEFINE Inv == (focus = "limiter" => LimitInv) /\ (focus = "music" => MusicInv)
<1>1. MCInit => Inv
  BY LimitInit, MusicInit DEF MCInit
<1>2. Inv /\ [MCNext]_<<focus, State, step, local, budget>> => Inv'
  <2> SUFFICES ASSUME Inv, [MCNext]_<<focus, State, step, local, budget>> PROVE Inv'
    OBVIOUS
  <2>1. focus' = focus
    BY DEF MCNext
  <2>2. focus = "limiter" => LimitInv'
    BY LimitStep DEF MCNext, State, limiterVars, Hl!vars
  <2>3. focus = "music" => MusicInv'
    BY MusicStep DEF MCNext, State, musicVars, Mu!vars
  <2> QED
    BY <2>1, <2>2, <2>3
<1>3. Inv => LimitsHeld
  BY BudgetsKept DEF LimitsHeld, MusicInv, MusicTended, Mu!QueuePlays
<1> QED
  BY <1>1, <1>2, <1>3, PTL DEF MCSpec

(***************************************************************************)
(* Types: where they do not follow from what was shown above, what the     *)
(* tasks of a feature carry from await to await has the type of what it    *)
(* will be stored as.                                                      *)
(***************************************************************************)
GuildJobs == [guild : Guilds \cup {NoGuild}, guilds : SUBSET Guilds]

GuildTyped ==
    /\ inside \subseteq Guilds /\ cached \subseteq Guilds /\ guildSet \subseteq Guilds
    /\ knownGuilds \subseteq Guilds /\ missed \subseteq Guilds /\ unclear \subseteq Guilds
    /\ settled \subseteq Guilds /\ rejudged \subseteq Guilds
    /\ online \in BOOLEAN /\ setUp \in BOOLEAN /\ readySeen \in BOOLEAN
    /\ step \in [Tasks -> AboutOne \cup {"idle", "ready", "baseline"}] /\ local \in [Tasks -> GuildJobs]

LEMMA GuildJobTypes ==
    /\ Gt!NoJob \in GuildJobs /\ \A g \in Guilds : Gt!About(g) \in GuildJobs
    /\ \A S \in SUBSET Guilds : [guild |-> NoGuild, guilds |-> S] \in GuildJobs
  BY DEF GuildJobs, Gt!NoJob, Gt!About

\* Who is about a guild has one, who recorded a baseline recorded guilds.
LEMMA GuildTypedStep == ASSUME GuildInv, GuildTyped, Gt!Next PROVE GuildTyped'
<1> USE DEF AboutOne, GuildTyped
<1>1. ASSUME NEW t \in Tasks, NEW p \in AboutOne \cup {"idle", "ready", "baseline"}, NEW j \in GuildJobs, Gt!Goto(t, p, j)
      PROVE  step' \in [Tasks -> AboutOne \cup {"idle", "ready", "baseline"}] /\ local' \in [Tasks -> GuildJobs]
  BY <1>1 DEF Gt!Goto, GuildJobs
<1>2. /\ \A t \in Tasks : local[t] \in GuildJobs
      /\ \A t \in Tasks : step[t] \in AboutOne => local[t].guild \in Guilds
  BY DEF GuildInv, GuildShape, GuildJobs
<1>3. ASSUME NEW t \in Tasks, NEW g \in Guilds,
             Gt!Joined(t, g) \/ Gt!Left(t, g) \/ Gt!Outage(t, g) \/ Gt!Announced(t, g)
      PROVE  GuildTyped'
  <2>1. PICK e \in {"created", "deleted", "unavailable"} : Gt!Hears(t, g, e)
    BY <1>3, Zenon DEF Gt!Joined, Gt!Left, Gt!Outage, Gt!Announced
  <2>2. /\ step' \in [Tasks -> AboutOne \cup {"idle", "ready", "baseline"}] /\ local' \in [Tasks -> GuildJobs]
    BY <1>1, <2>1, GuildJobTypes DEF Gt!Hears
  <2>3. missed' \subseteq Guilds /\ unclear' \subseteq Guilds
    BY <2>1 DEF Gt!Hears
  <2>4. /\ inside' \subseteq Guilds /\ cached' \subseteq Guilds /\ settled' \subseteq Guilds
        /\ UNCHANGED <<online, setUp, readySeen, guildSet, knownGuilds, rejudged>>
    BY <1>3 DEF Gt!Joined, Gt!Left, Gt!Outage, Gt!Announced, Gt!bot
  <2> QED
    BY <2>2, <2>3, <2>4 DEF GuildJobs
<1>4. ASSUME Gt!Disconnect \/ Gt!SetUp \/ \E g \in Guilds : Gt!MissedMove(g) PROVE GuildTyped'
  BY <1>4 DEF Gt!Disconnect, Gt!SetUp, Gt!MissedMove, Gt!bot
<1>5. CASE Gt!Crash
  BY <1>5, GuildJobTypes DEF Gt!Crash, GuildJobs
<1>6. ASSUME NEW t \in Tasks, Gt!Identify(t) \/ Gt!OnReady(t) \/ Gt!Baseline(t) PROVE GuildTyped'
  <2>1. step' \in [Tasks -> AboutOne \cup {"idle", "ready", "baseline"}] /\ local' \in [Tasks -> GuildJobs]
    BY <1>1, <1>6, GuildJobTypes DEF Gt!Identify, Gt!OnReady, Gt!Baseline, Gt!Finish
  <2>2. /\ inside' \subseteq Guilds /\ cached' \subseteq Guilds /\ guildSet' \subseteq Guilds
        /\ knownGuilds' \subseteq Guilds /\ missed' \subseteq Guilds /\ unclear' \subseteq Guilds
        /\ settled' \subseteq Guilds /\ rejudged' \subseteq Guilds
        /\ online' \in BOOLEAN /\ setUp' \in BOOLEAN /\ readySeen' \in BOOLEAN
    BY <1>2, <1>6 DEF Gt!Identify, Gt!OnReady, Gt!Baseline, Gt!bot, GuildJobs
  <2> QED
    BY <2>1, <2>2 DEF GuildJobs
<1>7. ASSUME NEW t \in Tasks, Gt!OnGuildCreate(t) \/ Gt!Judge(t) \/ Gt!NotifyAndLeave(t) \/ Gt!OnGuildDelete(t)
      PROVE  GuildTyped'
  <2>1. step[t] \in AboutOne
    BY <1>7 DEF Gt!OnGuildCreate, Gt!Judge, Gt!NotifyAndLeave, Gt!OnGuildDelete
  <2>2. PICK g \in Guilds : g = local[t].guild
    BY <1>2, <2>1
  <2>3. \/ Gt!Finish(t)
        \/ \E p \in {"judge", "leave", "deleted"} : Gt!Goto(t, p, local[t])
    BY <1>7, Zenon DEF Gt!OnGuildCreate, Gt!Judge, Gt!NotifyAndLeave, Gt!OnGuildDelete
  <2>4. step' \in [Tasks -> AboutOne \cup {"idle", "ready", "baseline"}] /\ local' \in [Tasks -> GuildJobs]
    <3>1. CASE Gt!Finish(t)
      BY <1>1, <3>1, GuildJobTypes DEF Gt!Finish
    <3>2. ASSUME NEW p \in {"judge", "leave", "deleted"}, Gt!Goto(t, p, local[t])
          PROVE  step' \in [Tasks -> AboutOne \cup {"idle", "ready", "baseline"}] /\ local' \in [Tasks -> GuildJobs]
      BY <1>1, <1>2, <3>2
    <3> QED
      BY <2>3, <3>1, <3>2
  <2>5. UNCHANGED <<online, setUp, unclear>> /\ readySeen' = readySeen
    BY <1>7 DEF Gt!OnGuildCreate, Gt!Judge, Gt!NotifyAndLeave, Gt!OnGuildDelete, Gt!data, Gt!bot
  <2>6. /\ inside' \subseteq Guilds /\ cached' \subseteq Guilds /\ guildSet' \subseteq Guilds
        /\ knownGuilds' \subseteq Guilds /\ missed' \subseteq Guilds
        /\ settled' \subseteq Guilds /\ rejudged' \subseteq Guilds
    <3>1. CASE Gt!OnGuildCreate(t)
      BY <2>2, <3>1 DEF Gt!OnGuildCreate
    <3>2. CASE Gt!Judge(t)
      BY <3>2 DEF Gt!Judge, Gt!data
    <3>3. CASE Gt!NotifyAndLeave(t)
      BY <2>2, <3>3 DEF Gt!NotifyAndLeave, Gt!bot
    <3>4. CASE Gt!OnGuildDelete(t)
      BY <2>2, <3>4 DEF Gt!OnGuildDelete
    <3> QED
      BY <1>7, <3>1, <3>2, <3>3, <3>4
  <2> QED
    BY <2>4, <2>5, <2>6 DEF GuildJobs
<1> QED
  BY <1>3, <1>4, <1>5, <1>6, <1>7, Zenon DEF Gt!Next

LEMMA GuildTypedInit == Gt!DataInit /\ Gt!TaskInit => GuildTyped
<1> SUFFICES ASSUME Gt!DataInit, Gt!TaskInit PROVE GuildTyped
  OBVIOUS
<1>1. local \in [Tasks -> GuildJobs]
  BY GuildJobTypes DEF Gt!TaskInit
<1> QED
  BY <1>1 DEF Gt!DataInit, Gt!TaskInit, GuildJobs, GuildTyped, AboutOne

LimitSteps == {"idle", "room", "evict", "count", "blacklist"}
LimitJobs == [actor : Actors \cup {NoActor}, victim : Actors \cup {NoActor}]

\* A window begins at a time, and only an actor is evicted.
LimitTyped ==
    /\ hits \in [Actors -> Hl!Windows] /\ global \in Hl!Windows /\ evicted \subseteq Actors
    /\ step \in [Tasks -> LimitSteps] /\ local \in [Tasks -> LimitJobs]
    /\ \A t \in Tasks : step[t] = "evict" => local[t].victim \in Actors

LEMMA LimitTypedStep == ASSUME LimitInv, LimitTyped, Hl!Next PROVE LimitTyped'
<1> USE DEF LimitTyped, LimitSteps
<1>1. ASSUME NEW t \in Tasks, NEW p \in LimitSteps, NEW j \in LimitJobs, Hl!Goto(t, p, j),
             p = "evict" => j.victim \in Actors
      PROVE  /\ step' \in [Tasks -> LimitSteps] /\ local' \in [Tasks -> LimitJobs]
             /\ \A s \in Tasks : step'[s] = "evict" => local'[s].victim \in Actors
  BY <1>1 DEF Hl!Goto
<1>2. \A t \in Tasks : local[t] \in LimitJobs
  OBVIOUS
<1>3. \A w \in Hl!Windows : Hl!Counted(w) \in Hl!Windows
  BY DEF LimitInv, Hl!Counted, Hl!Windows, Hl!Times
<1>4. Hl!NoWindow \in Hl!Windows
  BY LimiterConstants DEF Hl!NoWindow, Hl!Windows, Hl!Times
<1>5. /\ Hl!NoJob \in LimitJobs
      /\ \A a, v \in Actors \cup {NoActor} : Hl!Job(a, v) \in LimitJobs /\ Hl!Job(a, v).victim = v
  BY DEF Hl!NoJob, Hl!Job, LimitJobs
<1>6. ASSUME NEW t \in Tasks, NEW a \in Actors, Hl!Arrive(t, a) PROVE LimitTyped'
  <2>1. UNCHANGED <<hits, evicted>> /\ global' \in Hl!Windows
    BY <1>3, <1>6 DEF Hl!Arrive
  <2>2. CASE UNCHANGED <<step, local>>
    BY <2>1, <2>2
  <2>3. CASE Hl!Goto(t, "room", Hl!Job(a, NoActor))
    BY <1>1, <1>5, <2>1, <2>3
  <2> QED
    BY <1>6, <2>2, <2>3, Zenon DEF Hl!Arrive
<1>7. ASSUME NEW t \in Tasks, Hl!MakeRoom(t) PROVE LimitTyped'
  <2>1. UNCHANGED <<hits, evicted, global>>
    BY <1>7 DEF Hl!MakeRoom, Hl!data
  <2>2. ASSUME NEW v \in Actors, Hl!Goto(t, "evict", Hl!Job(local[t].actor, v)) PROVE LimitTyped'
    <3>1. local[t].actor \in Actors \cup {NoActor}
      BY <1>2 DEF LimitJobs
    <3>2. PICK j \in LimitJobs : j = Hl!Job(local[t].actor, v) /\ j.victim = v
      BY <1>5, <3>1
    <3> QED
      BY <1>1, <2>1, <2>2, <3>2
  <2>3. CASE Hl!Goto(t, "count", local[t])
    BY <1>1, <1>2, <2>1, <2>3
  <2> QED
    BY <1>7, <2>2, <2>3, Zenon DEF Hl!MakeRoom, Hl!Known
<1>8. ASSUME NEW t \in Tasks, Hl!Evict(t) PROVE LimitTyped'
  BY <1>1, <1>2, <1>4, <1>8 DEF Hl!Evict
<1>9. ASSUME NEW t \in Tasks, Hl!Count(t) PROVE LimitTyped'
  <2>1. UNCHANGED <<global, evicted>> /\ hits' \in [Actors -> Hl!Windows]
    BY <1>3, <1>9 DEF Hl!Count
  <2>2. Hl!Goto(t, "blacklist", local[t]) \/ Hl!Finish(t)
    BY <1>9, Zenon DEF Hl!Count
  <2> QED
    BY <1>1, <1>2, <1>5, <2>1, <2>2 DEF Hl!Finish
<1>10. ASSUME NEW t \in Tasks, Hl!CheckBlacklist(t) PROVE LimitTyped'
  BY <1>1, <1>5, <1>10 DEF Hl!CheckBlacklist, Hl!Finish, Hl!data
<1>11. ASSUME Hl!Tick PROVE LimitTyped'
  BY <1>11 DEF Hl!Tick
<1> QED
  BY <1>6, <1>7, <1>8, <1>9, <1>10, <1>11, Zenon DEF Hl!Next

LEMMA LimitTypedInit == Hl!DataInit /\ Hl!TaskInit => LimitTyped
<1> SUFFICES ASSUME Hl!DataInit, Hl!TaskInit PROVE LimitTyped
  OBVIOUS
<1>1. PICK nothing \in Hl!Windows : nothing = Hl!NoWindow
  <2>1. Hl!NoWindow \in Hl!Windows
    BY LimiterConstants DEF Hl!NoWindow, Hl!Windows, Hl!Times
  <2> QED
    BY <2>1
<1>2. PICK j \in LimitJobs : j = Hl!NoJob
  BY DEF Hl!NoJob, Hl!Job, LimitJobs
<1> QED
  BY <1>1, <1>2 DEF Hl!DataInit, Hl!TaskInit, LimitTyped, LimitSteps

LEMMA LimitTypes == LimitInv /\ LimitTyped => Hl!TypeOK
  BY DEF LimitInv, Fair, LimitTyped, LimitSteps, LimitJobs, Hl!TypeOK

LEMMA TypesOfShapes ==
    /\ LevelsInv => Lv!TypeOK
    /\ AfkInv => Away!TypeOK
    /\ JoinInv => Jn!TypeOK
    /\ BulkInv => Br!TypeOK
    /\ MusicInv => Mu!TypeOK
    /\ GuildTyped => Gt!TypeOK
<1>1. LevelsInv => Lv!TypeOK
  BY DEF LevelsInv, LevelsShape, Lv!TypeOK
<1>2. AfkInv => Away!TypeOK
  BY DEF AfkInv, AfkShape, AfkNotice, Away!TypeOK
<1>3. MusicInv => Mu!TypeOK
  BY DEF MusicInv, MusicShape, MusicSteps, Mu!TypeOK
<1>4. GuildTyped => Gt!TypeOK
  BY DEF GuildTyped, GuildJobs, AboutOne, Gt!TypeOK
<1>5. JoinInv => Jn!TypeOK
  BY DEF JoinInv
<1>6. BulkInv => Br!TypeOK
  BY DEF BulkInv, BulkTyped
<1> QED
  BY <1>1, <1>2, <1>3, <1>4, <1>5, <1>6

LEMMA PremiumTyped == MCSpec => []TypeOK
<1>1. MCInit => Init
  BY DEF MCInit, Init
<1>2. [MCNext]_<<focus, State, step, local, budget>> => [Next]_vars
  BY DEF MCNext, State
<1> QED
  BY <1>1, <1>2, TypeCorrect, PTL DEF MCSpec, Spec

\* Every setting a statement is about is given a value of its kind.
SnKind(to) == \A f \in DOMAIN to : to[f] \in Sn!Values(f)
SnKinds(parts) == \A i \in DOMAIN parts : SnKind(parts[i].to)

SnTyped ==
    /\ \A f \in Sn!Settings : stored[f] \in Sn!Values(f) /\ copy[f] \in Sn!Values(f)
    /\ \A t \in Tasks : /\ SnKinds(local[t].parts)
                        /\ local[t].fields \subseteq Sn!Settings /\ local[t].before \subseteq Sn!Settings

LEMMA SnKindsOf ==
    /\ SnKinds(<<>>)
    /\ \A a : SnKinds(<<a>>) <=> SnKind(a.to)
    /\ \A a, b : SnKinds(<<a, b>>) <=> SnKind(a.to) /\ SnKind(b.to)
  BY DEF SnKinds

LEMMA SnDefaultKind ==
    /\ \A f \in Sn!Settings : Sn!Default[f] \in Sn!Values(f)
    /\ \A table : SnKind(Sn!Restrict(Sn!Default, Sn!FieldsOf(table)))
<1>1. \A f \in Sn!Settings : Sn!Default[f] \in Sn!Values(f)
  <2>1. /\ Sn!Default["enabled"] = FALSE /\ Sn!Default["delete"] = FALSE /\ Sn!Default["cleaning"] = FALSE
        /\ Sn!Default["channel"] = NoChannel /\ Sn!Default["log"] = NoChannel /\ Sn!Default["threshold"] = 85
    BY DEF Sn!Default
  <2> QED
    BY <2>1, SnSettings DEF Sn!Values
<1> QED
  BY <1>1 DEF Sn!FieldsOf, Sn!Restrict, SnKind

\* One command after the other, with the values it may be given.
LEMMA SnRequestKinds ==
    ASSUME copy["channel"] \in Channels \cup {NoChannel},
           NEW parts \in Sn!Requests \cup {Sn!SettingsReset, Sn!OnReady}
    PROVE  SnKinds(parts)
<1> USE SnKindsOf
<1> DEFINE Upserted(to) == SnKind(to) => SnKinds(<<Sn!Upsert(to)>>)
           Updated(to) == SnKind(to) => SnKinds(<<Sn!Ensure, Sn!Update("decancer", to)>>)
<1>1. ASSUME NEW to PROVE Upserted(to)
  BY DEF Sn!Upsert, Sn!Part
<1>2. ASSUME NEW to PROVE Updated(to)
  <2>1. SnKind(<<>>)
    BY DEF SnKind
  <2> QED
    BY <2>1 DEF Sn!Ensure, Sn!Update, Sn!Part
<1> HIDE DEF Upserted, Updated
<1>3. SnKinds(Sn!SettingsReset) /\ SnKinds(Sn!OnReady)
  BY SnDefaultKind DEF Sn!SettingsReset, Sn!OnReady, Sn!Hydrate, Sn!Part
<1>4. SnKinds(Sn!SentinelEnable) /\ SnKinds(Sn!SentinelDisable)
  <2>1. \A on \in BOOLEAN : SnKind([enabled |-> on])
    BY DEF SnKind, Sn!Values
  <2> QED
    BY <1>1, <2>1 DEF Upserted, Sn!SentinelEnable, Sn!SentinelDisable, Sn!Update, Sn!Part
<1>5. ASSUME NEW c \in Channels PROVE SnKinds(Sn!SetLogChannel(c)) /\ SnKinds(Sn!DecancerLogs(c))
  <2>1. SnKind([channel |-> c]) /\ SnKind([log |-> c])
    BY DEF SnKind, Sn!Values
  <2> QED
    BY <1>1, <1>2, <2>1 DEF Upserted, Updated, Sn!SetLogChannel, Sn!DecancerLogs
<1>6. ASSUME NEW v \in Thresholds PROVE SnKinds(Sn!SetThreshold(v))
  <2>1. SnKind([threshold |-> v])
    BY DEF SnKind, Sn!Values
  <2> QED
    BY <1>1, <2>1 DEF Upserted, Sn!SetThreshold
<1>7. ASSUME NEW v \in Thresholds, NEW c \in Channels PROVE SnKinds(Sn!OnModal(v, c))
  <2>1. SnKind([threshold |-> v]) /\ SnKind([channel |-> c])
    BY DEF SnKind, Sn!Values
  <2> QED
    BY <2>1 DEF Sn!OnModal, Sn!Upsert, Sn!Part
<1>8. ASSUME NEW on \in BOOLEAN PROVE SnKinds(Sn!SentinelDelete(on)) /\ SnKinds(Sn!SetDecancerEnabled(on))
  <2>1. SnKind([delete |-> on]) /\ SnKind([cleaning |-> on])
    BY DEF SnKind, Sn!Values
  <2> QED
    BY <1>1, <1>2, <2>1 DEF Upserted, Updated, Sn!SentinelDelete, Sn!SetDecancerEnabled
<1>9. ASSUME NEW c \in Channels \cup {NoChannel} PROVE SnKinds(Sn!SentinelDefault(c))
  <2>1. SnKind([enabled |-> TRUE, channel |-> c, threshold |-> 85])
    <3>1. PICK to : to = [enabled |-> TRUE, channel |-> c, threshold |-> 85]
      OBVIOUS
    <3>2. /\ DOMAIN to = {"enabled", "channel", "threshold"}
          /\ to["enabled"] = TRUE /\ to["channel"] = c /\ to["threshold"] = 85
      BY <3>1
    <3>3. TRUE \in Sn!Values("enabled") /\ c \in Sn!Values("channel") /\ 85 \in Sn!Values("threshold")
      BY DEF Sn!Values
    <3>4. SnKind(to)
      BY <3>2, <3>3 DEF SnKind
    <3> QED
      BY <3>1, <3>4
  <2> QED
    BY <1>1, <2>1 DEF Upserted, Sn!SentinelDefault
<1>10. ASSUME NEW on \in BOOLEAN, NEW c \in Channels \cup {NoChannel}, NEW v \in Thresholds
       PROVE  SnKinds(Sn!PutSentinel(on, c, v, on, on, c))
  <2>1. /\ SnKind([enabled |-> on, channel |-> c, threshold |-> v, delete |-> on])
        /\ SnKind([cleaning |-> on, log |-> c])
    BY DEF SnKind, Sn!Values
  <2> QED
    BY <2>1 DEF Sn!PutSentinel, Sn!Put, Sn!Part
<1>11. \/ parts \in {Sn!SettingsReset, Sn!OnReady, Sn!SentinelEnable, Sn!SentinelDisable}
       \/ \E c \in Channels : parts = Sn!SetLogChannel(c) \/ parts = Sn!DecancerLogs(c)
       \/ \E v \in Thresholds : parts = Sn!SetThreshold(v)
       \/ \E v \in Thresholds, c \in Channels : parts = Sn!OnModal(v, c)
       \/ \E on \in BOOLEAN : parts = Sn!SentinelDelete(on) \/ parts = Sn!SetDecancerEnabled(on)
       \/ \E c \in Channels \cup {NoChannel} : parts = Sn!SentinelDefault(c)
       \/ \E on \in BOOLEAN, c \in Channels \cup {NoChannel}, v \in Thresholds : parts = Sn!PutSentinel(on, c, v, on, on, c)
  <2>1. \A c : c \in (IF copy.channel # NoChannel THEN {copy.channel} ELSE Channels) => c \in Channels \cup {NoChannel}
    OBVIOUS
  <2> QED
    BY <2>1, SMTT(30) DEF Sn!Requests
<1> QED
  BY <1>3, <1>4, <1>5, <1>6, <1>7, <1>8, <1>9, <1>10, <1>11, Zenon

\* What a request is about is known too.
LEMMA SnRequestFields ==
    ASSUME NEW parts, NEW ready, SnAsked(parts, ready)
    PROVE  Sn!FieldsIn(parts) \subseteq Sn!Settings
<1>1. PICK a : SnPending(a) /\ (SnAlone(parts, a) \/ \E b : SnBoth(parts, a, b))
  BY Zenon DEF SnAsked
<1>2. \A x : SnPending(x) => DOMAIN x.to \subseteq Sn!Settings
  BY DEF SnPending, SnPart, Sn!FieldsOf
<1> QED
  BY <1>1, <1>2, SnFieldsIn DEF SnAlone, SnBoth

LEMMA SnTypedMoves ==
    ASSUME SnShape, SnTyped, NEW t \in Tasks, NEW p, NEW j, Sn!Goto(t, p, j), SnKinds(j.parts),
           j.fields \subseteq Sn!Settings, j.before \subseteq Sn!Settings,
           \A f \in Sn!Settings : stored'[f] \in Sn!Values(f) /\ copy'[f] \in Sn!Values(f)
    PROVE  SnTyped'
<1>1. /\ local'[t] = j /\ \A s \in Tasks \ {t} : local'[s] = local[s]
  BY SnMoves
<1>2. \A s \in Tasks : /\ SnKinds(local'[s].parts)
                       /\ local'[s].fields \subseteq Sn!Settings /\ local'[s].before \subseteq Sn!Settings
  BY <1>1 DEF SnTyped
<1> QED
  BY <1>2 DEF SnTyped

LEMMA SnNoJobTyped == SnKinds(Sn!NoJob.parts) /\ Sn!NoJob.fields = {} /\ Sn!NoJob.before = {}
  BY SnKindsOf DEF Sn!NoJob

\* A task goes on after its statement, or the failure of one.
LEMMA SnTypedGoesOn ==
    ASSUME SnShape, SnTyped, NEW t \in Tasks, step[t] # "idle",
           \A f \in Sn!Settings : stored'[f] \in Sn!Values(f) /\ copy'[f] \in Sn!Values(f),
           \/ Sn!To(t, Sn!Tail(local[t].parts))
           \/ Sn!Goto(t, "mirror", local[t])
           \/ /\ step[t] = "write" /\ Sn!Head(local[t].parts).how = "hydrate"
              /\ \E to : /\ Sn!Goto(t, "mirror", [local[t] EXCEPT !.parts[1].to = to])
                         /\ to = <<>> \/ to = Sn!Restrict(stored, Sn!FieldsOf(Sn!Head(local[t].parts).table))
           \/ Sn!Goto(t, "idle", Sn!NoJob)
    PROVE  SnTyped'
<1>1. PICK a : /\ SnPart(a) /\ (step[t] = "write" => SnPending(a)) /\ DOMAIN a.to \subseteq local[t].fields
               /\ Sn!Head(local[t].parts) = a
               /\ \/ SnAlone(local[t].parts, a)
                  \/ \E b : SnBoth(local[t].parts, a, b) /\ DOMAIN b.to \subseteq local[t].fields
  BY SnAtWork
<1>2. /\ SnKinds(local[t].parts)
      /\ local[t].fields \subseteq Sn!Settings /\ local[t].before \subseteq Sn!Settings
  BY DEF SnTyped
<1>3. CASE Sn!Goto(t, "idle", Sn!NoJob)
  <2>1. PICK j : j = Sn!NoJob
    OBVIOUS
  <2>2. SnKinds(j.parts) /\ j.fields = {} /\ j.before = {}
    BY <2>1, SnNoJobTyped
  <2> QED
    BY <1>3, <2>1, <2>2, SnTypedMoves
<1>4. CASE Sn!To(t, Sn!Tail(local[t].parts))
  <2>1. CASE SnAlone(local[t].parts, a)
    BY <1>3, <1>4, <2>1, SnTail
  <2>2. ASSUME NEW b, SnBoth(local[t].parts, a, b), DOMAIN b.to \subseteq local[t].fields PROVE SnTyped'
    <3>1. PICK j : j = [local[t] EXCEPT !.parts = <<b>>]
      OBVIOUS
    <3>2. SnPending(b)
      BY <2>2 DEF SnBoth
    <3>3. j = [parts |-> <<b>>, fields |-> local[t].fields, before |-> local[t].before]
      BY <1>1, <2>2, <3>1, <3>2, SnTailJob
    <3>4. SnKind(b.to)
      BY <1>2, <2>2, SnKindsOf DEF SnBoth
    <3>5. SnKinds(j.parts) /\ j.fields = local[t].fields /\ j.before = local[t].before
      BY <3>3, <3>4, SnKindsOf
    <3>6. Sn!Goto(t, "write", j)
      BY <1>4, <2>2, <3>1, SnTail, Zenon
    <3> QED
      BY <1>2, <3>5, <3>6, SnTypedMoves
  <2> QED
    BY <1>1, <2>1, <2>2
<1>5. CASE Sn!Goto(t, "mirror", local[t])
  BY <1>2, <1>5, SnTypedMoves
<1>6. ASSUME step[t] = "write", a.how = "hydrate", NEW to,
             Sn!Goto(t, "mirror", [local[t] EXCEPT !.parts[1].to = to]),
             to = <<>> \/ to = Sn!Restrict(stored, Sn!FieldsOf(a.table))
      PROVE  SnTyped'
  <2>1. DOMAIN to \subseteq DOMAIN a.to
    BY <1>1, <1>6, SnFound
  <2>2. SnKind(to)
    BY <1>6 DEF SnTyped, SnKind, Sn!Restrict, Sn!FieldsOf
  <2>3. PICK j, h : j = [local[t] EXCEPT !.parts[1].to = to] /\ h = [how |-> a.how, table |-> a.table, to |-> to]
    OBVIOUS
  <2>4. /\ j.fields = local[t].fields /\ j.before = local[t].before
        /\ SnAlone(local[t].parts, a) => SnAlone(j.parts, h)
        /\ \A b : SnBoth(local[t].parts, a, b) => SnBoth(j.parts, h, b)
    BY <1>1, <1>6, <2>1, <2>3, SnMirrorJob
  <2>5. h.to = to
    BY <2>3
  <2>6. SnKinds(j.parts)
    <3>1. CASE SnAlone(local[t].parts, a)
      BY <2>2, <2>4, <2>5, <3>1, SnKindsOf DEF SnAlone
    <3>2. ASSUME NEW b, SnBoth(local[t].parts, a, b) PROVE SnKinds(j.parts)
      <4>1. SnKind(b.to)
        BY <1>2, <3>2, SnKindsOf DEF SnBoth
      <4>2. j.parts = <<h, b>>
        BY <2>4, <3>2 DEF SnBoth
      <4> QED
        BY <2>2, <2>5, <4>1, <4>2, SnKindsOf
    <3> QED
      BY <1>1, <3>1, <3>2
  <2> QED
    BY <1>2, <1>6, <2>3, <2>4, <2>6, SnTypedMoves
<1> QED
  BY <1>1, <1>3, <1>4, <1>5, <1>6, Zenon

LEMMA SnTypedStep == ASSUME SnShape, SnTyped, Sn!Next PROVE SnTyped'
<1>1. \A t \in Tasks : step[t] # "idle" => SnKind(Sn!Head(local[t].parts).to)
  <2> SUFFICES ASSUME NEW t \in Tasks, step[t] # "idle" PROVE SnKind(Sn!Head(local[t].parts).to)
    OBVIOUS
  <2>1. PICK a : /\ Sn!Head(local[t].parts) = a
                 /\ SnAlone(local[t].parts, a) \/ \E b : SnBoth(local[t].parts, a, b)
    BY SnAtWork, Zenon
  <2>2. SnKinds(local[t].parts)
    BY DEF SnTyped
  <2> QED
    BY <2>1, <2>2, SnKindsOf DEF SnAlone, SnBoth
<1>2. ASSUME NEW to, SnKind(to), NEW row, row = [f \in Sn!Settings |-> row[f]],
             \A f \in Sn!Settings : row[f] \in Sn!Values(f)
      PROVE  \A f \in Sn!Settings : Sn!Over(to, row)[f] \in Sn!Values(f)
  BY <1>2, SnOver DEF SnKind
<1>3. \A f \in Sn!Settings : stored[f] \in Sn!Values(f) /\ copy[f] \in Sn!Values(f)
  BY DEF SnTyped
<1>4. ASSUME NEW t \in Tasks, NEW parts \in Sn!Requests \cup {Sn!SettingsReset, Sn!OnReady}, NEW sure,
             Sn!Begin(t, parts, sure)
      PROVE  SnTyped'
  <2>1. SnKinds(parts)
    <3>1. copy["channel"] \in Channels \cup {NoChannel}
      BY <1>3, SnSettings DEF Sn!Values
    <3> QED
      BY <3>1, SnRequestKinds
  <2>2. Sn!FieldsIn(parts) \subseteq Sn!Settings
    BY SnRequested, SnOnReady, SnRequestFields
  <2>3. PICK j : j = [parts |-> parts, fields |-> Sn!FieldsIn(parts), before |-> unsure]
    OBVIOUS
  <2>4. j.parts = parts /\ j.fields = Sn!FieldsIn(parts) /\ j.before = unsure
    BY <2>3
  <2>5. Sn!Goto(t, "write", j) /\ stored' = stored /\ copy' = copy
    BY <1>4, <2>3 DEF Sn!Begin
  <2>6. unsure \subseteq Sn!Settings
    BY DEF SnShape
  <2> QED
    BY <1>3, <2>1, <2>2, <2>4, <2>5, <2>6, SnTypedMoves
<1>5. ASSUME NEW t \in Tasks, Sn!Write(t) PROVE SnTyped'
  <2>1. PICK a : a = Sn!Head(local[t].parts)
    OBVIOUS
  <2>2. /\ step[t] = "write" /\ copy' = copy
        /\ stored' = stored \/ stored' = Sn!Over(a.to, stored)
    BY <1>5, <2>1, Zenon DEF Sn!Write, Sn!Row
  <2>3. \A f \in Sn!Settings : stored'[f] \in Sn!Values(f) /\ copy'[f] \in Sn!Values(f)
    <3>1. SnKind(a.to) /\ stored = [f \in Sn!Settings |-> stored[f]]
      BY <1>1, <2>1, <2>2 DEF SnShape
    <3>2. PICK o : o = Sn!Over(a.to, stored)
      OBVIOUS
    <3>3. \A f \in Sn!Settings : o[f] \in Sn!Values(f)
      BY <1>2, <1>3, <3>1, <3>2
    <3> QED
      BY <1>3, <2>2, <3>2, <3>3
  <2>4. \/ Sn!To(t, Sn!Tail(local[t].parts)) \/ Sn!Goto(t, "mirror", local[t])
        \/ /\ Sn!Head(local[t].parts).how = "hydrate"
           /\ \E to : /\ Sn!Goto(t, "mirror", [local[t] EXCEPT !.parts[1].to = to])
                      /\ to = <<>> \/ to = Sn!Restrict(stored, Sn!FieldsOf(Sn!Head(local[t].parts).table))
    BY <1>5, Zenon DEF Sn!Write
  <2>5. step[t] # "idle"
    BY <2>2
  <2> QED
    BY <2>2, <2>3, <2>4, <2>5, SnTypedGoesOn
<1>6. ASSUME NEW t \in Tasks, Sn!WriteFails(t) PROVE SnTyped'
  <2>1. step[t] = "write" /\ copy' = copy /\ stored' = stored
    BY <1>6 DEF Sn!WriteFails
  <2>2. \/ Sn!To(t, Sn!Tail(local[t].parts)) \/ Sn!Goto(t, "mirror", local[t]) \/ Sn!Goto(t, "idle", Sn!NoJob)
        \/ /\ Sn!Head(local[t].parts).how = "hydrate"
           /\ Sn!Goto(t, "mirror", [local[t] EXCEPT !.parts[1].to = <<>>])
    BY <1>6, Zenon DEF Sn!WriteFails
  <2>3. step[t] # "idle"
    BY <2>1
  <2> QED
    BY <1>3, <2>1, <2>2, <2>3, SnTypedGoesOn
<1>7. ASSUME NEW t \in Tasks, Sn!Mirror(t) PROVE SnTyped'
  <2>1. PICK a : a = Sn!Head(local[t].parts)
    OBVIOUS
  <2>2. /\ step[t] = "mirror" /\ stored' = stored /\ copy' = Sn!Over(Sn!Mirrored(a), copy)
        /\ Sn!To(t, Sn!Tail(local[t].parts))
    BY <1>7, <2>1, Zenon DEF Sn!Mirror
  <2>3. SnKind(Sn!Mirrored(a))
    <3>1. SnKind(a.to)
      BY <1>1, <2>1, <2>2
    <3> QED
      BY <3>1 DEF Sn!Mirrored, SnKind, Sn!Restrict
  <2>4. PICK to, o : to = Sn!Mirrored(a) /\ o = Sn!Over(to, copy)
    OBVIOUS
  <2>5. \A f \in Sn!Settings : o[f] \in Sn!Values(f)
    BY <1>2, <1>3, <2>3, <2>4 DEF SnShape
  <2>6. \A f \in Sn!Settings : stored'[f] \in Sn!Values(f) /\ copy'[f] \in Sn!Values(f)
    BY <1>3, <2>2, <2>4, <2>5
  <2>7. step[t] # "idle"
    BY <2>2
  <2> QED
    BY <2>2, <2>6, <2>7, SnTypedGoesOn
<1>8. ASSUME Sn!Crash PROVE SnTyped'
  <2>1. PICK j : j = Sn!NoJob
    OBVIOUS
  <2>2. SnKinds(j.parts) /\ j.fields = {} /\ j.before = {}
    BY <2>1, SnNoJobTyped
  <2>3. copy' = Sn!Default /\ stored' = stored /\ \A t \in Tasks : local'[t] = j
    BY <1>8, <2>1 DEF Sn!Crash
  <2> QED
    BY <1>3, <2>2, <2>3, SnDefaultKind DEF SnTyped
<1> QED
  BY <1>4, <1>5, <1>6, <1>7, <1>8, Zenon DEF Sn!Next, Sn!Change, Sn!Ready

LEMMA SnTypedInit == Sn!DataInit /\ Sn!TaskInit => SnTyped
<1>1. PICK j, default : j = Sn!NoJob /\ default = Sn!Default
  OBVIOUS
<1>2. SnKinds(j.parts) /\ j.fields = {} /\ j.before = {} /\ \A f \in Sn!Settings : default[f] \in Sn!Values(f)
  BY <1>1, SnNoJobTyped, SnDefaultKind
<1> QED
  BY <1>1, <1>2 DEF SnTyped, Sn!DataInit, Sn!TaskInit

LEMMA SnTypes == SnInv /\ SnTyped => Sn!TypeOK
<1> SUFFICES ASSUME SnInv, SnTyped PROVE Sn!TypeOK
  OBVIOUS
<1>1. \A t \in Tasks : step[t] \in {"idle", "write", "mirror"}
  BY DEF SnInv, SnShape, SnJob
<1>2. step \in [Tasks -> {"idle", "write", "mirror"}]
  BY <1>1 DEF SnInv, SnShape
<1> QED
  BY <1>2 DEF SnInv, SnShape, SnTyped, Sn!TypeOK

\* No embed has more fields than are allowed: not those it starts with, nor after a change.
EmFields(fields) == fields \in Seq(Fields) /\ Len(fields) <= MaxFields

LEMMA EmBounded == \A fields : fields \in Em!BoundedSeq(Fields, MaxFields) <=> EmFields(fields)
<1>1. \A fields : fields \in Em!BoundedSeq(Fields, MaxFields) <=> \E n \in 0 .. MaxFields : fields \in [1 .. n -> Fields]
  BY DEF Em!BoundedSeq, Em!SeqOf
<1>2. ASSUME NEW fields, NEW n \in 0 .. MaxFields, fields \in [1 .. n -> Fields] PROVE EmFields(fields)
  BY <1>2, EmbedConstants DEF EmFields
<1>3. ASSUME NEW fields, EmFields(fields) PROVE \E n \in 0 .. MaxFields : fields \in [1 .. n -> Fields]
  BY <1>3, EmbedConstants DEF EmFields
<1> QED
  BY <1>1, <1>2, <1>3

LEMMA EmEmbed ==
    /\ \A fields : \A text \in Texts \cup {Blank} : EmFields(fields) => Em!Embed(text, fields) \in Em!Embeds
    /\ \A e \in Em!Embeds : e.text \in Texts \cup {Blank} /\ EmFields(e.fields)
    /\ Em!Empty \in Em!Embeds /\ Em!Starter \in Em!Embeds
<1>1. \A fields : \A text \in Texts \cup {Blank} : EmFields(fields) => Em!Embed(text, fields) \in Em!Embeds
  BY EmBounded DEF Em!Embeds, Em!Embed
<1>2. \A e \in Em!Embeds : e.text \in Texts \cup {Blank} /\ EmFields(e.fields)
  BY EmBounded DEF Em!Embeds
<1>3. EmFields(<<>>)
  BY EmbedConstants DEF EmFields
<1>4. (CHOOSE x \in Texts : TRUE) \in Texts
  BY EmbedConstants
<1> QED
  BY <1>1, <1>2, <1>3, <1>4 DEF Em!Empty, Em!Starter

\* What is done to an embed is given what it needs.
EmGiven(what, arg) ==
    /\ what = "set" => arg \in Texts
    /\ what = "add" => arg \in Fields
    /\ what = "import" => arg \in Em!Embeds

LEMMA EmEdited ==
    ASSUME NEW what, NEW arg, EmGiven(what, arg), NEW e \in Em!Embeds
    PROVE  Em!Edited(what, arg, e) \in Em!Embeds
<1>1. PICK fields : fields = e.fields
  OBVIOUS
<1>2. EmFields(fields) /\ e.text \in Texts \cup {Blank}
  BY <1>1, EmEmbed
<1>3. CASE what = "set"
  BY <1>1, <1>2, <1>3, EmEmbed DEF Em!Edited, EmGiven
<1>4. CASE what = "add"
  <2>1. Len(fields) < MaxFields => EmFields(Append(fields, arg))
    BY <1>2, <1>4, EmbedConstants DEF EmFields, EmGiven
  <2>2. Em!AddField(e, arg) \in Em!Embeds
    BY <1>1, <1>2, <2>1, EmEmbed DEF Em!AddField
  <2> QED
    BY <1>4, <2>2 DEF Em!Edited
<1>5. CASE what = "remove"
  <2>1. ASSUME arg \in DOMAIN fields PROVE EmFields(Em!RemoveAt(fields, arg))
    <3>1. arg \in 1 .. Len(fields) /\ Len(fields) \in Nat
      BY <1>2, <2>1 DEF EmFields
    <3>2. PICK a, b : a = SubSeq(fields, 1, arg - 1) /\ b = SubSeq(fields, arg + 1, Len(fields))
      OBVIOUS
    <3>3. /\ a \in Seq(Fields) /\ Len(a) = arg - 1
          /\ b \in Seq(Fields) /\ Len(b) = Len(fields) - arg
      BY <1>2, <3>1, <3>2 DEF EmFields
    <3>4. a \o b \in Seq(Fields) /\ Len(a \o b) = Len(fields) - 1
      BY <3>1, <3>3
    <3>5. Em!RemoveAt(fields, arg) = a \o b
      BY <3>2 DEF Em!RemoveAt
    <3> QED
      BY <1>2, <3>1, <3>4, <3>5, EmbedConstants DEF EmFields
  <2>2. Em!RemoveField(e, arg) \in Em!Embeds
    BY <1>1, <1>2, <2>1, EmEmbed DEF Em!RemoveField
  <2> QED
    BY <1>5, <2>2 DEF Em!Edited
<1>6. CASE what = "import"
  BY <1>6 DEF Em!Edited, EmGiven
<1>7. CASE what \notin {"set", "add", "remove", "import"}
  BY <1>7 DEF Em!Edited
<1> QED
  BY <1>3, <1>4, <1>5, <1>6, <1>7

EmViews == {"none", "main", "remove", "send", "final"}
EmSteps == AtMessage \cup {"idle", "sending"}
EmPlaces == Messages \cup Authors \cup {NoMessage}

\* What a task at step p with locals j has in hand: an embed to store or show, or what
\* it needs to change one.
EmHolds(p, j) ==
    /\ j.on \in EmPlaces
    /\ p \in {"insert", "drop", "respond"} => j.embed \in Em!Embeds
    /\ p = "act" => EmGiven(j.what, j.arg)

EmTyped ==
    /\ builders \in [Messages -> Em!Embeds \cup {NoEmbed}] /\ shown \in [Messages -> Em!Embeds \cup {NoEmbed}]
    /\ drafts \in [Authors -> Em!Embeds \cup {NoEmbed}]
    /\ view \in [Messages -> EmViews] /\ tangled \subseteq Messages
    /\ step \in [Tasks -> EmSteps]
    /\ \A t \in Tasks : EmHolds(step[t], local[t])

LEMMA EmTypedMoves ==
    ASSUME EmbedShape, EmTyped, NEW t \in Tasks, NEW p \in EmSteps, NEW j, Em!Goto(t, p, j), EmHolds(p, j)
    PROVE  step' \in [Tasks -> EmSteps] /\ \A s \in Tasks : EmHolds(step'[s], local'[s])
<1>1. /\ step'[t] = p /\ local'[t] = j
      /\ \A s \in Tasks \ {t} : step'[s] = step[s] /\ local'[s] = local[s]
  BY EmMoves
<1>2. step' \in [Tasks -> EmSteps]
  BY DEF EmTyped, Em!Goto
<1>3. ASSUME NEW s \in Tasks PROVE EmHolds(step'[s], local'[s])
  BY <1>1, Zenon DEF EmTyped
<1> QED
  BY <1>2, <1>3

LEMMA EmIdle == EmHolds("idle", Em!NoJob)
  BY DEF EmHolds, EmPlaces, Em!NoJob, Em!Job

\* What the controls and forms ask for, they give.
LEMMA EmPressed ==
    ASSUME NEW m, NEW p \in Em!Controls(m) \cup Em!Forms
    PROVE  EmGiven(p[1], p[2])
<1>1. CASE p \in Em!Controls(m)
  <2>1. p[1] \notin {"set", "add", "import"}
    BY <1>1 DEF Em!Controls
  <2> QED
    BY <2>1 DEF EmGiven
<1>2. CASE p \in Em!Forms
  BY <1>2 DEF Em!Forms, EmGiven
<1> QED
  BY <1>1, <1>2

\* A step of task t at a session.
LEMMA EmTypedSession ==
    ASSUME EmbedInv, EmTyped, NEW t \in Tasks,
           \/ Em!InsertBuilder(t) \/ Em!Act(t) \/ Em!Drop(t) \/ Em!Respond(t) \/ Em!Post(t)
           \/ \E m \in Messages : Em!EmbedNew(t, m) \/ Em!Press(t, m)
    PROVE  EmTyped'
<1> USE DEF EmSteps, AtMessage
<1>0. /\ EmbedShape /\ local[t].on \in EmPlaces /\ EmHolds(step[t], local[t])
      /\ builders \in [Messages -> Em!Embeds \cup {NoEmbed}] /\ shown \in [Messages -> Em!Embeds \cup {NoEmbed}]
      /\ drafts \in [Authors -> Em!Embeds \cup {NoEmbed}]
      /\ view \in [Messages -> EmViews] /\ tangled \subseteq Messages
  BY DEF EmbedInv, EmTyped, EmHolds
<1>1. ASSUME NEW p \in EmSteps, NEW j, Em!Goto(t, p, j), EmHolds(p, j),
             builders' \in [Messages -> Em!Embeds \cup {NoEmbed}], shown' \in [Messages -> Em!Embeds \cup {NoEmbed}],
             view' \in [Messages -> EmViews], tangled' \subseteq Messages, drafts' = drafts
      PROVE  EmTyped'
  <2>1. step' \in [Tasks -> EmSteps] /\ \A s \in Tasks : EmHolds(step'[s], local'[s])
    BY <1>0, <1>1, EmTypedMoves
  <2> QED
    BY <1>0, <1>1, <2>1 DEF EmTyped
<1>2. ASSUME Em!Finish(t),
             builders' \in [Messages -> Em!Embeds \cup {NoEmbed}], shown' \in [Messages -> Em!Embeds \cup {NoEmbed}],
             view' \in [Messages -> EmViews], tangled' \subseteq Messages, drafts' = drafts
      PROVE  EmTyped'
  BY <1>1, <1>2, EmIdle DEF Em!Finish
<1>3. ASSUME NEW m \in Messages, Em!EmbedNew(t, m) PROVE EmTyped'
  <2>1. PICK e \in Em!Embeds : e = Em!Starter
    BY EmEmbed
  <2>2. PICK j : j = Em!Job("new", m, Blank, e, e)
    OBVIOUS
  <2>3. /\ Em!Goto(t, "insert", j) /\ UNCHANGED <<builders, drafts, tangled>>
        /\ view' = [view EXCEPT ![m] = "main"] /\ shown' = [shown EXCEPT ![m] = e]
    BY <1>3, <2>1, <2>2, Zenon DEF Em!EmbedNew
  <2>4. EmHolds("insert", j)
    BY <2>2, EmJob DEF EmHolds, EmPlaces
  <2>5. view' \in [Messages -> EmViews] /\ shown' \in [Messages -> Em!Embeds \cup {NoEmbed}]
    BY <1>0, <2>3 DEF EmViews
  <2> QED
    BY <1>0, <1>1, <2>3, <2>4, <2>5
<1>4. ASSUME Em!InsertBuilder(t) PROVE EmTyped'
  <2>1. step[t] = "insert" /\ Em!Finish(t) /\ UNCHANGED <<view, shown, drafts>>
    BY <1>4 DEF Em!InsertBuilder
  <2>2. PICK e \in Em!Embeds : e = local[t].embed
    BY <1>0, <2>1 DEF EmHolds
  <2>3. PICK lost \in IF Em!Cardinality(Em!Live) >= MaxBuilders THEN {{x} : x \in Em!Live} ELSE {{}} :
            /\ builders' = [n \in Messages |-> IF n = local[t].on THEN local[t].embed
                                               ELSE IF n \in lost THEN NoEmbed ELSE builders[n]]
            /\ tangled' = tangled \cup lost
    BY <1>4, Zenon DEF Em!InsertBuilder
  <2>4. lost \subseteq Em!Live
    BY <2>3, Zenon
  <2>5. tangled' \subseteq Messages
    BY <1>0, <2>3, <2>4 DEF Em!Live
  <2>6. builders' \in [Messages -> Em!Embeds \cup {NoEmbed}]
    BY <1>0, <2>2, <2>3
  <2> QED
    BY <1>0, <1>2, <2>1, <2>5, <2>6
<1>5. ASSUME NEW m \in Messages, Em!Press(t, m) PROVE EmTyped'
  <2>1. PICK p \in Em!Controls(m) \cup Em!Forms : Em!Goto(t, "act", Em!Job(p[1], m, p[2], NoEmbed, shown[m]))
    BY <1>5, Zenon DEF Em!Press
  <2>2. PICK j : j = Em!Job(p[1], m, p[2], NoEmbed, shown[m])
    OBVIOUS
  <2>3. EmGiven(p[1], p[2])
    BY EmPressed
  <2>4. EmHolds("act", j)
    BY <2>2, <2>3, EmJob DEF EmHolds, EmPlaces
  <2>5. tangled' \subseteq Messages /\ UNCHANGED <<builders, drafts, view, shown>>
    BY <1>0, <1>5 DEF Em!Press
  <2> QED
    BY <1>0, <1>1, <2>1, <2>2, <2>4, <2>5
<1>6. ASSUME Em!Act(t) PROVE EmTyped'
  <2>1. step[t] = "act" /\ UNCHANGED <<drafts, view, shown, tangled>>
    BY <1>6 DEF Em!Act
  <2>2. EmGiven(local[t].what, local[t].arg) /\ local[t].on \in Messages
    BY <1>0, <2>1 DEF EmHolds, EmbedShape
  <2>3. PICK held \in Em!Embeds \cup {NoEmbed} : held = builders[local[t].on]
    BY <1>0, <2>2
  <2>4. PICK e : e = IF held = NoEmbed THEN Em!Empty ELSE Em!Edited(local[t].what, local[t].arg, held)
    OBVIOUS
  <2>5. e \in Em!Embeds
    BY <2>2, <2>3, <2>4, EmEmbed, EmEdited
  <2>6. PICK j : j = Em!Job(local[t].what, local[t].on, local[t].arg, e, local[t].seen)
    OBVIOUS
  <2>7. \A p : p # "act" => EmHolds(p, j)
    BY <1>0, <2>5, <2>6, EmJob DEF EmHolds
  <2>8. \/ /\ builders' = [builders EXCEPT ![local[t].on] =
                              IF held = NoEmbed \/ local[t].what = "cancel" THEN NoEmbed ELSE e]
           /\ Em!Goto(t, IF local[t].what = "complete" THEN "drop" ELSE "respond", j)
        \/ Em!Finish(t) /\ builders' = builders
    BY <1>6, <2>3, <2>4, <2>6, Zenon DEF Em!Act
  <2>9. CASE Em!Finish(t) /\ builders' = builders
    BY <1>0, <1>2, <2>1, <2>9
  <2>10. ASSUME builders' = [builders EXCEPT ![local[t].on] =
                                IF held = NoEmbed \/ local[t].what = "cancel" THEN NoEmbed ELSE e],
                NEW p \in {"drop", "respond"}, Em!Goto(t, p, j)
         PROVE  EmTyped'
    <3>1. builders' \in [Messages -> Em!Embeds \cup {NoEmbed}]
      BY <1>0, <2>5, <2>10
    <3> QED
      BY <1>0, <1>1, <2>1, <2>7, <2>10, <3>1
  <2> QED
    BY <2>8, <2>9, <2>10
<1>7. ASSUME Em!Drop(t) PROVE EmTyped'
  <2>1. /\ step[t] = "drop" /\ builders' = [builders EXCEPT ![local[t].on] = NoEmbed]
        /\ Em!Goto(t, "respond", local[t]) /\ UNCHANGED <<drafts, view, shown, tangled>>
    BY <1>7 DEF Em!Drop
  <2>2. EmHolds("respond", local[t])
    BY <1>0, <2>1 DEF EmHolds
  <2>3. builders' \in [Messages -> Em!Embeds \cup {NoEmbed}]
    BY <1>0, <2>1
  <2> QED
    BY <1>0, <1>1, <2>1, <2>2, <2>3
<1>8. ASSUME Em!Respond(t) PROVE EmTyped'
  <2>1. PICK m, what, e : m = local[t].on /\ what = local[t].what /\ e = local[t].embed
    OBVIOUS
  <2>2. /\ step[t] = "respond" /\ UNCHANGED <<builders, drafts>>
        /\ Em!Goto(t, "post", local[t]) \/ Em!Finish(t)
        /\ \/ Em!Update(m, what, e) /\ tangled' = IF t \in alone THEN tangled \ {m} ELSE tangled
           \/ tangled' = tangled \cup {m} /\ UNCHANGED <<shown, view>>
    BY <1>8, <2>1, Zenon DEF Em!Respond
  <2>3. m \in Messages /\ e \in Em!Embeds
    BY <1>0, <2>1, <2>2 DEF EmHolds, EmbedShape
  <2>4. Em!NextView(what) \in EmViews
    BY DEF Em!NextView, EmViews
  <2>5. view' \in [Messages -> EmViews] /\ shown' \in [Messages -> Em!Embeds \cup {NoEmbed}] /\ tangled' \subseteq Messages
    BY <1>0, <2>2, <2>3, <2>4 DEF Em!Update
  <2>6. EmHolds("post", local[t])
    BY <1>0 DEF EmHolds
  <2> QED
    BY <1>0, <1>1, <1>2, <2>2, <2>5, <2>6
<1>9. ASSUME Em!Post(t) PROVE EmTyped'
  BY <1>0, <1>2, <1>9 DEF Em!Post, Em!data
<1> QED
  BY <1>3, <1>4, <1>5, <1>6, <1>7, <1>8, <1>9

LEMMA EmTypedStep == ASSUME EmbedInv, EmTyped, Em!Next PROVE EmTyped'
<1> USE DEF EmSteps, AtMessage
<1>0. EmbedShape
  BY DEF EmbedInv
<1>1. \A a \in Authors : Em!Draft(a) \in Em!Embeds
  BY EmEmbed DEF EmTyped, Em!Draft
<1>2. ASSUME NEW a, NEW e \in Em!Embeds \cup {NoEmbed}, Em!SetDraft(a, e),
             step' \in [Tasks -> EmSteps], \A s \in Tasks : EmHolds(step'[s], local'[s])
      PROVE  EmTyped'
  BY <1>2 DEF EmTyped, Em!SetDraft, Em!SameMessages
<1>3. ASSUME NEW a \in Authors, Em!EmbedSet(a) \/ Em!EmbedField(a) \/ Em!EmbedClear(a) PROVE EmTyped'
  <2>1. UNCHANGED <<step, local>> /\ \E e \in Em!Embeds \cup {NoEmbed} : Em!SetDraft(a, e)
    <3>1. \A x \in Texts : Em!Edited("set", x, Em!Draft(a)) \in Em!Embeds
      BY <1>1, EmEdited DEF EmGiven
    <3>2. \A f \in Fields : Em!Edited("add", f, Em!Draft(a)) \in Em!Embeds
      BY <1>1, EmEdited DEF EmGiven
    <3> QED
      BY <1>3, <3>1, <3>2, Zenon DEF Em!EmbedSet, Em!EmbedField, Em!EmbedClear
  <2>2. step' \in [Tasks -> EmSteps] /\ \A s \in Tasks : EmHolds(step'[s], local'[s])
    BY <2>1 DEF EmTyped
  <2> QED
    BY <1>2, <2>1, <2>2
<1>4. ASSUME NEW t \in Tasks, NEW a \in Authors, Em!EmbedSend(t, a) PROVE EmTyped'
  <2>1. PICK j : j = Em!Job("draft", a, Blank, drafts[a], NoEmbed)
    OBVIOUS
  <2>2. Em!Goto(t, "sending", j) /\ UNCHANGED <<builders, drafts, view, shown, tangled>>
    BY <1>4, <2>1 DEF Em!EmbedSend, Em!data
  <2>3. EmHolds("sending", j)
    BY <2>1, EmJob DEF EmHolds, EmPlaces
  <2>4. step' \in [Tasks -> EmSteps] /\ \A s \in Tasks : EmHolds(step'[s], local'[s])
    BY <1>0, <2>2, <2>3, EmTypedMoves
  <2> QED
    BY <2>2, <2>4 DEF EmTyped
<1>5. ASSUME NEW t \in Tasks, Em!DraftSent(t) PROVE EmTyped'
  <2>1. /\ Em!Goto(t, "idle", Em!NoJob)
        /\ Em!SetDraft(local[t].on, NoEmbed) \/ UNCHANGED <<builders, drafts, view, shown, tangled>>
    BY <1>5 DEF Em!DraftSent, Em!Finish, Em!data
  <2>2. step' \in [Tasks -> EmSteps] /\ \A s \in Tasks : EmHolds(step'[s], local'[s])
    BY <1>0, <2>1, EmIdle, EmTypedMoves
  <2>3. CASE Em!SetDraft(local[t].on, NoEmbed)
    BY <1>2, <2>2, <2>3
  <2>4. CASE UNCHANGED <<builders, drafts, view, shown, tangled>>
    BY <2>2, <2>4 DEF EmTyped
  <2> QED
    BY <2>1, <2>3, <2>4
<1>6. ASSUME Em!Crash PROVE EmTyped'
  <2>1. PICK j : j = Em!NoJob
    OBVIOUS
  <2>2. step' = [t \in Tasks |-> "idle"] /\ \A t \in Tasks : local'[t] = j
    BY <1>6, <2>1 DEF Em!Crash
  <2>3. EmHolds("idle", j)
    BY <2>1, EmIdle
  <2>4. step' \in [Tasks -> EmSteps] /\ \A s \in Tasks : EmHolds(step'[s], local'[s])
    BY <2>2, <2>3
  <2> QED
    BY <1>6, <2>4 DEF Em!Crash, EmTyped
<1> QED
  BY <1>3, <1>4, <1>5, <1>6, EmTypedSession, Zenon DEF Em!Next

LEMMA EmTypedInit == Em!DataInit /\ Em!TaskInit => EmTyped
<1>1. PICK j : j = Em!NoJob
  OBVIOUS
<1>2. EmHolds("idle", j)
  BY <1>1, EmIdle
<1> QED
  BY <1>1, <1>2 DEF EmTyped, EmSteps, EmViews, Em!DataInit, Em!TaskInit

LEMMA EmTypes == EmbedInv /\ EmTyped => Em!TypeOK
  BY DEF EmbedInv, EmTyped, EmHolds, EmPlaces, EmSteps, EmViews, AtMessage, Em!TypeOK

\* Whatever feature is exercised, its tables, copies, what Discord holds and what its
\* tasks carry keep their types, embeds their limit on fields among them.
THEOREM FeaturesTypeCorrect == MCSpec => []FeaturesTypeOK
<1> DEFINE Inv == /\ focus = "levels" => LevelsInv
                  /\ focus = "afk" => AfkInv
                  /\ focus = "joining" => JoinInv
                  /\ focus = "sentinel" => SnInv /\ SnTyped
                  /\ focus = "guilds" => GuildInv /\ GuildTyped
                  /\ focus = "limiter" => LimitInv /\ LimitTyped
                  /\ focus = "bulk" => BulkInv
                  /\ focus = "music" => MusicInv
                  /\ focus = "embeds" => EmbedInv /\ EmTyped
<1>1. MCInit => Inv
  BY LevelsInit, AfkInit, JoinInit, SnInit, SnTypedInit, GuildInit, GuildTypedInit, LimitInit, LimitTypedInit,
     BulkInit, MusicInit, EmbedInit, EmTypedInit DEF MCInit
<1>2. Inv /\ [MCNext]_<<focus, State, step, local, budget>> => Inv'
  <2> SUFFICES ASSUME Inv, [MCNext]_<<focus, State, step, local, budget>> PROVE Inv'
    OBVIOUS
  <2>1. focus' = focus
    BY DEF MCNext
  <2>2. focus = "levels" => LevelsInv'
    BY LevelsStep DEF MCNext, State, levelsVars, Lv!vars
  <2>3. focus = "afk" => AfkInv'
    BY AfkStep DEF MCNext, State, awayVars, Away!vars
  <2>4. focus = "joining" => JoinInv'
    BY JoinStep DEF MCNext, State, joinVars, Jn!vars
  <2>5. focus = "bulk" => BulkInv'
    BY BulkStep DEF MCNext, State, bulkVars, Br!vars
  <2>6. focus = "music" => MusicInv'
    BY MusicStep DEF MCNext, State, musicVars, Mu!vars
  <2>7. focus = "sentinel" => SnInv' /\ SnTyped'
    <3>1. SnInv /\ SnTyped /\ [Sn!Next]_(Sn!vars) => SnTyped'
      <4>1. SnTyped /\ UNCHANGED Sn!vars => SnTyped'
        BY DEF SnTyped, Sn!vars
      <4> QED
        BY <4>1, SnTypedStep DEF SnInv
    <3> QED
      BY <3>1, SnStep DEF MCNext, State, sentinelVars, Sn!vars
  <2>8. focus = "guilds" => GuildInv' /\ GuildTyped'
    <3>1. GuildInv /\ GuildTyped /\ [Gt!Next]_(Gt!vars) => GuildTyped'
      <4>1. GuildTyped /\ UNCHANGED Gt!vars => GuildTyped'
        BY DEF GuildTyped, Gt!vars, Gt!data
      <4> QED
        BY <4>1, GuildTypedStep
    <3> QED
      BY <3>1, GuildStep DEF MCNext, State, guildVars, Gt!vars, Gt!data
  <2>9. focus = "limiter" => LimitInv' /\ LimitTyped'
    <3>1. LimitInv /\ LimitTyped /\ [Hl!Next]_(Hl!vars) => LimitTyped'
      <4>1. LimitTyped /\ UNCHANGED Hl!vars => LimitTyped'
        BY DEF LimitTyped, Hl!vars
      <4> QED
        BY <4>1, LimitTypedStep
    <3> QED
      BY <3>1, LimitStep DEF MCNext, State, limiterVars, Hl!vars
  <2>10. focus = "embeds" => EmbedInv' /\ EmTyped'
    <3>1. EmbedInv /\ EmTyped /\ [Em!Next]_(Em!vars) => EmTyped'
      <4>1. EmTyped /\ UNCHANGED Em!vars => EmTyped'
        BY DEF EmTyped, Em!vars
      <4> QED
        BY <4>1, EmTypedStep
    <3> QED
      BY <3>1, EmbedStep DEF MCNext, State, embedVars, Em!vars
  <2> QED
    BY <2>1, <2>2, <2>3, <2>4, <2>5, <2>6, <2>7, <2>8, <2>9, <2>10
<1>3. Inv /\ TypeOK => FeaturesTypeOK
  BY TypesOfShapes, SnTypes, LimitTypes, EmTypes DEF FeaturesTypeOK
<1> QED
  BY <1>1, <1>2, <1>3, PremiumTyped, PTL DEF MCSpec
=============================================================================
