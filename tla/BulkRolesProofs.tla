-------------------------- MODULE BulkRolesProofs ---------------------------
(***************************************************************************)
(* A bulk change is carried out once at most, and only if it was confirmed *)
(* and not called off, however the prompts are pressed, evicted or left    *)
(* behind by a crash.                                                      *)
(***************************************************************************)
EXTENDS BulkRoles, TLAPS

Shape ==
    /\ DOMAIN pc = Tasks /\ DOMAIN job = Tasks /\ DOMAIN pending = Prompts
    /\ begun \in [Prompts -> Nat]

\* A change waits only before it is begun or called off.
Fresh(m) == begun[m] = 0 /\ m \notin calledOff

\* Tasks at a prompt have one; the change of a new prompt is not stored yet, and
\* only a confirmed one is started.
TasksFit ==
    \A t \in Tasks :
        /\ pc[t] \in {"insert", "start", "cancel"} => job[t].prompt \in Prompts
        /\ pc[t] = "insert" => Fresh(job[t].prompt) /\ job[t].prompt \in asked
                               /\ pending[job[t].prompt] = NoChange
        /\ pc[t] = "start" => job[t].prompt \in confirmed

OwnPrompts ==
    \A s, t \in Tasks :
        pc[s] = "insert" /\ pc[t] = "insert" /\ job[s].prompt = job[t].prompt => s = t

PromptsFit ==
    \A m \in Prompts :
        /\ m \notin asked => Fresh(m) /\ pending[m] = NoChange
        /\ pending[m] # NoChange => Fresh(m)

IInv == Shape /\ TasksFit /\ OwnPrompts /\ PromptsFit /\ ConfirmedOnce

LEMMA InvariantInit == Init => IInv
  BY DEF Init, DataInit, TaskInit, IInv, Shape, TasksFit, OwnPrompts, PromptsFit, ConfirmedOnce, Fresh

\* What concerns no prompt keeps the invariant.
LEMMA ElsewhereKeeps ==
    ASSUME IInv, SamePrompts, DOMAIN pc' = Tasks, DOMAIN job' = Tasks,
           \A t \in Tasks : \/ pc'[t] = pc[t] /\ job'[t] = job[t]
                            \/ pc'[t] \notin {"insert", "start", "cancel"}
    PROVE  IInv'
<1> USE DEF SamePrompts
<1>1. Shape' /\ PromptsFit' /\ ConfirmedOnce'
  BY DEF IInv, Shape, PromptsFit, ConfirmedOnce, Fresh
<1>2. TasksFit' /\ OwnPrompts'
  BY DEF IInv, TasksFit, OwnPrompts, Fresh
<1> QED
  BY <1>1, <1>2 DEF IInv

LEMMA GotoElsewhereKeeps ==
    ASSUME IInv, SamePrompts, NEW t \in Tasks, NEW next, next \notin {"insert", "start", "cancel"}, NEW j,
           Goto(t, next, j)
    PROVE  IInv'
<1>1. DOMAIN pc = Tasks /\ DOMAIN job = Tasks
  BY DEF IInv, Shape
<1>2. /\ DOMAIN pc' = Tasks /\ DOMAIN job' = Tasks /\ pc'[t] = next
      /\ \A s \in Tasks \ {t} : pc'[s] = pc[s] /\ job'[s] = job[s]
  BY <1>1 DEF Goto
<1> QED
  BY <1>2, ElsewhereKeeps

LEMMA MemberKeeps ==
    ASSUME IInv, NEW t \in Tasks, RoleAdd(t) \/ RoleRemove(t) \/ RoleCustom(t) \/ ChangeNext(t)
    PROVE  IInv'
<1>1. ASSUME NEW add, NEW drop, ChangeMember(t, add, drop) PROVE IInv'
  <2>1. SamePrompts /\ \E j : Goto(t, "change", j)
    BY <1>1 DEF ChangeMember, SamePrompts, data
  <2> QED
    BY <2>1, GotoElsewhereKeeps
<1>2. CASE ChangeNext(t)
  <2>1. SamePrompts /\ \E j : Goto(t, "change", j) \/ Goto(t, "idle", j)
    BY <1>2 DEF ChangeNext, Finish
  <2> QED
    BY <2>1, GotoElsewhereKeeps
<1> QED
  BY <1>1, <1>2 DEF RoleAdd, RoleRemove, RoleCustom

LEMMA BulkKeeps ==
    ASSUME IInv, NEW t \in Tasks, RoleAll(t) \/ FetchAllMembers(t) \/ RunBulk(t)
    PROVE  IInv'
<1>1. SamePrompts
  BY DEF RoleAll, FetchAllMembers, RunBulk, SamePrompts, data
<1>2. \E j : Goto(t, "fetch", j) \/ Goto(t, "prompt", j) \/ Goto(t, "run", j) \/ Goto(t, "idle", j)
  BY DEF RoleAll, FetchAllMembers, RunBulk, Finish
<1> QED
  BY <1>1, <1>2, GotoElsewhereKeeps

LEMMA ShowKeeps == ASSUME IInv, NEW t \in Tasks, ShowPrompt(t) PROVE IInv'
<1>1. PICK m \in Prompts \ asked :
        asked' = asked \cup {m} /\ Goto(t, "insert", OfPrompt(m, job[t].change))
  BY DEF ShowPrompt
<1>2. UNCHANGED <<pending, confirmed, calledOff, begun>>
  BY DEF ShowPrompt
<1>3. /\ DOMAIN pc' = Tasks /\ DOMAIN job' = Tasks /\ pc'[t] = "insert" /\ job'[t].prompt = m
      /\ \A s \in Tasks \ {t} : pc'[s] = pc[s] /\ job'[s] = job[s]
  BY <1>1 DEF Goto, OfPrompt, Job, IInv, Shape
<1>4. Shape' /\ ConfirmedOnce' /\ PromptsFit'
  BY <1>1, <1>2, <1>3 DEF IInv, Shape, ConfirmedOnce, PromptsFit, Fresh
<1>5. TasksFit'
  BY <1>1, <1>2, <1>3 DEF IInv, TasksFit, PromptsFit, Fresh
<1>6. OwnPrompts'
  BY <1>1, <1>3 DEF IInv, OwnPrompts, TasksFit
<1> QED
  BY <1>4, <1>5, <1>6 DEF IInv

LEMMA StoreKeeps == ASSUME IInv, NEW t \in Tasks, StorePending(t) PROVE IInv'
<1> DEFINE p == job[t].prompt
<1>1. UNCHANGED <<buttons, asked, confirmed, calledOff, begun>> /\ pc[t] = "insert"
  BY DEF StorePending
<1>2. p \in Prompts /\ Fresh(p) /\ p \in asked
  BY <1>1 DEF IInv, TasksFit
<1>3. DOMAIN pending' = Prompts /\ \A m \in Prompts \ {p} : pending'[m] \in {pending[m], NoChange}
  BY DEF StorePending
<1>4. /\ DOMAIN pc' = Tasks /\ DOMAIN job' = Tasks /\ pc'[t] = "idle"
      /\ \A s \in Tasks \ {t} : pc'[s] = pc[s] /\ job'[s] = job[s]
  BY DEF StorePending, Finish, Goto, IInv, Shape
<1>5. Shape' /\ ConfirmedOnce'
  BY <1>1, <1>3, <1>4 DEF IInv, Shape, ConfirmedOnce
<1>6. PromptsFit'
  BY <1>1, <1>2, <1>3 DEF IInv, PromptsFit, Fresh
<1>7. TasksFit'
  <2> SUFFICES ASSUME NEW s \in Tasks PROVE TasksFit!(s)'
    BY DEF TasksFit
  <2>1. CASE s = t
    BY <1>4, <2>1
  <2>2. CASE s # t
    <3>1. TasksFit!(s)
      BY DEF IInv, TasksFit
    <3>2. pc[s] = "insert" => job[s].prompt \in Prompts \ {p}
      BY <1>1, <2>2, <3>1 DEF IInv, OwnPrompts
    <3> QED
      BY <1>1, <1>3, <1>4, <2>2, <3>1, <3>2 DEF Fresh
  <2> QED
    BY <2>1, <2>2
<1>8. OwnPrompts'
  BY <1>4 DEF IInv, OwnPrompts
<1> QED
  BY <1>5, <1>6, <1>7, <1>8 DEF IInv

LEMMA PressKeeps ==
    ASSUME IInv, NEW t \in Tasks, NEW m \in Prompts, PressStart(t, m) \/ PressCancel(t, m)
    PROVE  IInv'
<1>1. UNCHANGED <<pending, asked, calledOff, begun>> /\ confirmed \subseteq confirmed'
  BY DEF PressStart, PressCancel, data
<1>2. \/ Goto(t, "start", OfPrompt(m, NoChange)) /\ m \in confirmed'
      \/ Goto(t, "cancel", OfPrompt(m, NoChange))
  BY DEF PressStart, PressCancel
<1>3. /\ DOMAIN pc' = Tasks /\ DOMAIN job' = Tasks /\ job'[t].prompt = m
      /\ pc'[t] = "cancel" \/ (pc'[t] = "start" /\ m \in confirmed')
      /\ \A s \in Tasks \ {t} : pc'[s] = pc[s] /\ job'[s] = job[s]
  BY <1>2 DEF Goto, OfPrompt, Job, IInv, Shape
<1>4. Shape' /\ ConfirmedOnce' /\ PromptsFit'
  BY <1>1, <1>3 DEF IInv, Shape, ConfirmedOnce, PromptsFit, Fresh
<1>5. TasksFit' /\ OwnPrompts'
  BY <1>1, <1>3 DEF IInv, TasksFit, OwnPrompts, Fresh
<1> QED
  BY <1>4, <1>5 DEF IInv

\* Once its change no longer waits, a prompt may be begun, if it is confirmed, or
\* called off: but not both.
LEMMA TakenKeeps ==
    ASSUME IInv, NEW t \in Tasks, NEW next \in {"idle", "run"}, NEW j, Goto(t, next, j),
           NEW m \in Prompts, pending[m] # NoChange, pending' = [pending EXCEPT ![m] = NoChange],
           UNCHANGED <<asked, confirmed>>,
           \/ m \in confirmed /\ begun' = [begun EXCEPT ![m] = @ + 1] /\ UNCHANGED calledOff
           \/ calledOff' = calledOff \cup {m} /\ UNCHANGED begun
    PROVE  IInv'
<1>1. Fresh(m) /\ m \in asked
  BY DEF IInv, PromptsFit
<1>2. /\ DOMAIN pc' = Tasks /\ DOMAIN job' = Tasks /\ pc'[t] = next
      /\ \A s \in Tasks \ {t} : pc'[s] = pc[s] /\ job'[s] = job[s]
  BY DEF Goto, IInv, Shape
<1>3. /\ DOMAIN pending' = Prompts /\ begun' \in [Prompts -> Nat]
      /\ \A n \in Prompts \ {m} :
            pending'[n] = pending[n] /\ begun'[n] = begun[n] /\ (Fresh(n)' <=> Fresh(n))
      /\ pending'[m] = NoChange
  BY DEF IInv, Shape, Fresh
<1>4. Shape' /\ PromptsFit'
  BY <1>1, <1>2, <1>3 DEF IInv, Shape, PromptsFit
<1>5. ConfirmedOnce'
  <2>1. begun'[m] <= 1 /\ (begun'[m] > 0 => m \in confirmed /\ m \notin calledOff')
    BY <1>1 DEF IInv, Shape, Fresh
  <2> QED
    BY <1>3, <2>1 DEF IInv, ConfirmedOnce
<1>6. TasksFit'
  <2> SUFFICES ASSUME NEW s \in Tasks PROVE TasksFit!(s)'
    BY DEF TasksFit
  <2>1. CASE s = t
    BY <1>2, <2>1
  <2>2. CASE s # t
    <3>1. TasksFit!(s)
      BY DEF IInv, TasksFit
    <3>2. pc[s] = "insert" => job[s].prompt \in Prompts \ {m}
      BY <3>1
    <3> QED
      BY <1>2, <1>3, <2>2, <3>1, <3>2
  <2> QED
    BY <2>1, <2>2
<1>7. OwnPrompts'
  BY <1>2 DEF IInv, OwnPrompts
<1> QED
  BY <1>4, <1>5, <1>6, <1>7 DEF IInv

LEMMA CancelKeeps == ASSUME IInv, NEW t \in Tasks, Cancel(t) PROVE IInv'
<1> DEFINE m == job[t].prompt
<1>1. /\ pc[t] = "cancel" /\ Goto(t, "idle", NoJob) /\ UNCHANGED <<asked, confirmed, begun>>
      /\ pending' = [pending EXCEPT ![m] = NoChange]
      /\ calledOff' = IF pending[m] = NoChange THEN calledOff ELSE calledOff \cup {m}
  BY DEF Cancel, Finish
<1>2. m \in Prompts
  BY <1>1 DEF IInv, TasksFit
<1>3. CASE pending[m] # NoChange
  BY <1>1, <1>2, <1>3, TakenKeeps
<1>4. CASE pending[m] = NoChange
  <2>1. DOMAIN pending' = Prompts /\ \A n \in Prompts : pending'[n] = pending[n]
    BY <1>1, <1>2, <1>4 DEF IInv, Shape
  <2>2. /\ DOMAIN pc' = Tasks /\ DOMAIN job' = Tasks /\ pc'[t] = "idle"
        /\ \A s \in Tasks \ {t} : pc'[s] = pc[s] /\ job'[s] = job[s]
    BY <1>1 DEF Goto, IInv, Shape
  <2>3. calledOff' = calledOff
    BY <1>1, <1>4
  <2>4. Shape' /\ PromptsFit' /\ ConfirmedOnce'
    BY <1>1, <2>1, <2>2, <2>3 DEF IInv, Shape, PromptsFit, ConfirmedOnce, Fresh
  <2>5. TasksFit' /\ OwnPrompts'
    BY <1>1, <2>1, <2>2, <2>3 DEF IInv, TasksFit, OwnPrompts, Fresh
  <2> QED
    BY <2>4, <2>5 DEF IInv
<1> QED
  BY <1>3, <1>4

LEMMA StartKeeps == ASSUME IInv, NEW t \in Tasks, Start(t) PROVE IInv'
<1> DEFINE m == job[t].prompt
<1>1. pc[t] = "start" /\ UNCHANGED <<asked, confirmed, calledOff>>
  BY DEF Start
<1>2. m \in Prompts /\ m \in confirmed
  BY <1>1 DEF IInv, TasksFit
<1>3. CASE pending[m] # NoChange
  <2>1. /\ pending' = [pending EXCEPT ![m] = NoChange] /\ begun' = [begun EXCEPT ![m] = @ + 1]
        /\ Goto(t, "run", OfPrompt(m, pending[m]))
    BY <1>3 DEF Start
  <2> QED
    BY <1>1, <1>2, <1>3, <2>1, TakenKeeps
<1>4. CASE pending[m] = NoChange
  <2>1. SamePrompts /\ Goto(t, "idle", NoJob)
    BY <1>4 DEF Start, Finish, SamePrompts
  <2> QED
    BY <2>1, GotoElsewhereKeeps
<1> QED
  BY <1>3, <1>4

LEMMA OthersKeep == ASSUME IInv, Staff \/ Crash PROVE IInv'
<1>1. CASE Staff
  BY <1>1, ElsewhereKeeps DEF Staff, IInv, Shape
<1>2. CASE Crash
  <2> USE <1>2 DEF Crash
  <2>1. Shape' /\ PromptsFit' /\ ConfirmedOnce'
    BY DEF IInv, Shape, PromptsFit, ConfirmedOnce, Fresh
  <2>2. TasksFit' /\ OwnPrompts'
    BY DEF TasksFit, OwnPrompts
  <2> QED
    BY <2>1, <2>2 DEF IInv
<1> QED
  BY <1>1, <1>2

LEMMA InvariantStep == IInv /\ [Next]_vars => IInv'
<1> SUFFICES ASSUME IInv, [Next]_vars PROVE IInv'
  OBVIOUS
<1>1. CASE UNCHANGED vars
  BY <1>1, ElsewhereKeeps DEF vars, SamePrompts, IInv, Shape
<1>2. CASE Next
  BY <1>2, MemberKeeps, BulkKeeps, ShowKeeps, StoreKeeps, PressKeeps, CancelKeeps, StartKeeps,
     OthersKeep DEF Next
<1> QED
  BY <1>1, <1>2

\* A bulk change is carried out at most once, only when it was confirmed, and never
\* once it was called off.
THEOREM CarriedOutOnce == Spec => []ConfirmedOnce
<1>1. IInv => ConfirmedOnce
  BY DEF IInv
<1> QED
  BY <1>1, InvariantInit, InvariantStep, PTL DEF Spec
=============================================================================
