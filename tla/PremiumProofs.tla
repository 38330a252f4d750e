--------------------------- MODULE PremiumProofs ----------------------------
(***************************************************************************)
(* Nobody holds a tier they did not pay for, and whoever redeems one token *)
(* at a time holds the highest they paid for, for any number of users,     *)
(* tokens, tasks, failures and crashes.                                    *)
(***************************************************************************)
EXTENDS Premium, TLAPS

\* An activation under way has a token that exists; once burnt, it is its user's, and
\* the tier that was read is one its user paid for.
JobsFit ==
    \A t \in Tasks :
        /\ pc[t] = "idle" => job[t] = NoJob
        /\ pc[t] # "idle" =>
              job[t].user \in Users /\ job[t].token \in Tokens /\ tokens[job[t].token] # 0
        /\ pc[t] \in {"existing", "apply"} => owner[job[t].token] = job[t].user
        /\ pc[t] = "apply" => job[t].existing \in PaidFor(job[t].user)

\* Only tokens that were generated are redeemed.
Redeemed == \A k \in Tokens : owner[k] # NoUser => tokens[k] # 0

TiersPaid == \A u \in Users : tier[u] \in PaidFor(u)

OneAtATime ==
    \A u \in Users \ spoilt : \A s, t \in Tasks : job[s].user = u /\ job[t].user = u => s = t

BeingApplied(u, k) ==
    \E t \in Tasks : pc[t] \in {"existing", "apply"} /\ job[t].user = u /\ job[t].token = k

\* A redeemed token counts in its owner's tier, or is about to.
NoneForgotten ==
    \A u \in Users \ spoilt : \A k \in Tokens :
        owner[k] = u => tokens[k] <= tier[u] \/ BeingApplied(u, k)

\* The tier that was read is still the user's.
ReadIsFresh ==
    \A t \in Tasks :
        pc[t] = "apply" /\ job[t].user \notin spoilt => job[t].existing = tier[job[t].user]

IInv == TypeOK /\ JobsFit /\ Redeemed /\ TiersPaid /\ OneAtATime /\ NoneForgotten /\ ReadIsFresh

LEMMA InvariantInit == Init => IInv
<1> SUFFICES ASSUME Init PROVE IInv
  OBVIOUS
<1> USE DEF Init, DataInit, TaskInit
<1>1. TypeOK
  BY PremiumConstants DEF TypeOK, NoJob, Job
<1>2. JobsFit /\ Redeemed /\ ReadIsFresh
  BY DEF JobsFit, Redeemed, ReadIsFresh
<1>3. TiersPaid
  BY DEF TiersPaid, PaidFor
<1>4. OneAtATime /\ NoneForgotten
  BY PremiumConstants DEF OneAtATime, NoneForgotten, NoJob, Job
<1> QED
  BY <1>1, <1>2, <1>3, <1>4 DEF IInv

\* What was paid for stays so while owners and redeemed tokens stay.
LEMMA PaidForGrows ==
    ASSUME \A k \in Tokens : owner[k] # NoUser => owner'[k] = owner[k] /\ tokens'[k] = tokens[k]
    PROVE  \A u \in Users : PaidFor(u) \subseteq PaidFor(u)'
  BY PremiumConstants DEF PaidFor

LEMMA LevelsAreNumbers ==
    IInv => /\ Tiers \cup {0} \subseteq Nat
            /\ \A k \in Tokens : tokens[k] \in Nat
            /\ \A u \in Users : tier[u] \in Nat
<1>1. Tiers \cup {0} \subseteq Nat
  BY PremiumConstants
<1>2. IInv => /\ \A k \in Tokens : tokens[k] \in Tiers \cup {0}
              /\ \A u \in Users : tier[u] \in Tiers \cup {0}
  BY DEF IInv, TypeOK
<1> QED
  BY <1>1, <1>2

LEMMA GenerateKeeps == ASSUME IInv, NEW k \in Tokens, PremiumGenerate(k) PROVE IInv'
<1> USE DEF PremiumGenerate
<1>1. PICK level \in Tiers : tokens' = [tokens EXCEPT ![k] = level]
  OBVIOUS
<1>2. TypeOK'
  BY <1>1 DEF IInv, TypeOK
<1>3. \A j \in Tokens : tokens[j] # 0 => tokens'[j] = tokens[j]
  BY <1>1 DEF IInv, TypeOK
<1>4. \A j \in Tokens : owner[j] # NoUser => owner'[j] = owner[j] /\ tokens'[j] = tokens[j]
  BY <1>3 DEF IInv, Redeemed
<1>5. \A u \in Users : PaidFor(u) \subseteq PaidFor(u)'
  BY <1>4, PaidForGrows
<1>6. JobsFit'
  BY <1>3, <1>5 DEF IInv, JobsFit
<1>7. Redeemed' /\ TiersPaid'
  BY <1>3, <1>4, <1>5 DEF IInv, Redeemed, TiersPaid
<1>8. OneAtATime' /\ ReadIsFresh'
  BY DEF IInv, OneAtATime, ReadIsFresh
<1>9. NoneForgotten'
  BY <1>4, PremiumConstants DEF IInv, NoneForgotten, BeingApplied
<1> QED
  BY <1>2, <1>6, <1>7, <1>8, <1>9 DEF IInv

LEMMA FindTokenKeeps == ASSUME IInv, NEW t \in Tasks, FindToken(t) PROVE IInv'
<1>1. PICK u \in Users, k \in Tokens :
        /\ tokens[k] # 0 /\ owner[k] = NoUser
        /\ Goto(t, "burn", Job(u, k, 0))
        /\ spoilt' = IF Busy(u) THEN spoilt \cup {u} ELSE spoilt
  BY DEF FindToken
<1> USE DEF FindToken, Goto
<1>2. TypeOK'
  BY <1>1 DEF IInv, TypeOK, Job
<1>3. /\ job'[t].user = u /\ job'[t].token = k /\ pc'[t] = "burn"
      /\ \A s \in Tasks \ {t} : job'[s] = job[s] /\ pc'[s] = pc[s]
  BY <1>1 DEF IInv, TypeOK, Job
<1>4. PaidFor(u)' = PaidFor(u) /\ (\A v \in Users : PaidFor(v)' = PaidFor(v))
  BY DEF PaidFor
<1>5. JobsFit'
  BY <1>1, <1>3, <1>4, <1>2 DEF IInv, JobsFit
<1>6. Redeemed' /\ TiersPaid'
  BY <1>4 DEF IInv, Redeemed, TiersPaid
<1>7. OneAtATime'
  BY <1>1, <1>3 DEF IInv, OneAtATime, Busy
<1>8. pc[t] = "idle"
  OBVIOUS
<1>9. \A v \in Users, j \in Tokens : BeingApplied(v, j) => BeingApplied(v, j)'
  BY <1>3, <1>8 DEF BeingApplied
<1>10. NoneForgotten' /\ ReadIsFresh'
  BY <1>1, <1>3, <1>9 DEF IInv, NoneForgotten, ReadIsFresh
<1> QED
  BY <1>2, <1>5, <1>6, <1>7, <1>10 DEF IInv

\* A task that ends without having burnt its token.
LEMMA GiveUpKeeps ==
    ASSUME IInv, NEW t \in Tasks, pc[t] = "burn", Finish(t), UNCHANGED data,
           allowed' \in [activations : Nat, faults : Nat]
    PROVE  IInv'
<1> USE DEF Finish, Goto, data
<1>1. TypeOK'
  BY DEF IInv, TypeOK, NoJob, Job
<1>2. /\ job'[t] = NoJob /\ pc'[t] = "idle"
      /\ \A s \in Tasks \ {t} : job'[s] = job[s] /\ pc'[s] = pc[s]
  BY DEF IInv, TypeOK
<1>3. \A v \in Users : PaidFor(v)' = PaidFor(v)
  BY DEF PaidFor
<1>4. JobsFit'
  BY <1>2, <1>3 DEF IInv, JobsFit
<1>5. Redeemed' /\ TiersPaid'
  BY <1>3 DEF IInv, Redeemed, TiersPaid
<1>6. NoJob.user \notin Users
  BY PremiumConstants DEF NoJob, Job
<1>7. OneAtATime'
  BY <1>2, <1>6 DEF IInv, OneAtATime
<1>8. \A v \in Users, j \in Tokens : BeingApplied(v, j) => BeingApplied(v, j)'
  BY <1>2 DEF BeingApplied
<1>9. NoneForgotten' /\ ReadIsFresh'
  BY <1>2, <1>8 DEF IInv, NoneForgotten, ReadIsFresh
<1> QED
  BY <1>1, <1>4, <1>5, <1>7, <1>9 DEF IInv

LEMMA BurnKeeps == ASSUME IInv, NEW t \in Tasks, Burn(t) \/ BurnFails(t) PROVE IInv'
<1>1. CASE BurnFails(t) \/ (Burn(t) /\ owner[job[t].token] # NoUser)
  <2>1. allowed' \in [activations : Nat, faults : Nat]
    BY <1>1 DEF BurnFails, Burn, Fault, IInv, TypeOK
  <2> QED
    BY <1>1, <2>1, GiveUpKeeps DEF BurnFails, Burn, data
<1>2. CASE Burn(t) /\ owner[job[t].token] = NoUser
  <2> DEFINE u == job[t].user
             k == job[t].token
  <2>1. u \in Users /\ k \in Tokens /\ tokens[k] # 0
    BY <1>2 DEF Burn, IInv, JobsFit
  <2>2. owner' = [owner EXCEPT ![k] = u] /\ Goto(t, "existing", job[t])
    BY <1>2 DEF Burn
  <2>3. UNCHANGED <<tokens, tier, spoilt, allowed, job>>
    BY <1>2, <2>2 DEF Burn, Goto, IInv, TypeOK
  <2>4. pc[t] = "burn" /\ pc'[t] = "existing" /\ (\A s \in Tasks \ {t} : pc'[s] = pc[s])
    BY <1>2, <2>2 DEF Burn, Goto, IInv, TypeOK
  <2>5. TypeOK'
    BY <2>1, <2>2, <2>3 DEF Goto, IInv, TypeOK
  <2>6. owner'[k] = u /\ (\A j \in Tokens : owner[j] # NoUser => owner'[j] = owner[j])
    BY <1>2, <2>1, <2>2 DEF IInv, TypeOK
  <2>7. \A v \in Users : PaidFor(v) \subseteq PaidFor(v)'
    BY <2>3, <2>6, PaidForGrows
  <2>8. JobsFit'
    <3> SUFFICES ASSUME NEW s \in Tasks PROVE JobsFit!(s)'
      BY DEF JobsFit
    <3>1. CASE s = t
      BY <2>1, <2>3, <2>4, <2>6, <3>1
    <3>2. CASE s # t
      <4>1. JobsFit!(s)
        BY DEF IInv, JobsFit
      <4>2. pc[s] \in {"existing", "apply"} => owner'[job[s].token] = job[s].user
        BY <2>6, <4>1, PremiumConstants
      <4> QED
        BY <2>3, <2>4, <2>7, <3>2, <4>1, <4>2
    <3> QED
      BY <3>1, <3>2
  <2>9. Redeemed' /\ TiersPaid'
    BY <2>1, <2>2, <2>3, <2>7 DEF IInv, Redeemed, TiersPaid, TypeOK
  <2>10. OneAtATime' /\ ReadIsFresh'
    BY <2>3, <2>4 DEF IInv, OneAtATime, ReadIsFresh
  <2>11. \A v \in Users, j \in Tokens : BeingApplied(v, j) => BeingApplied(v, j)'
    BY <2>3, <2>4 DEF BeingApplied
  <2>12. BeingApplied(u, k)'
    BY <2>3, <2>4 DEF BeingApplied
  <2>13. \A j \in Tokens \ {k} : owner'[j] = owner[j]
    BY <2>2, <2>5 DEF TypeOK
  <2>14. NoneForgotten'
    BY <2>1, <2>3, <2>6, <2>11, <2>12, <2>13 DEF IInv, NoneForgotten
  <2> QED
    BY <2>5, <2>8, <2>9, <2>10, <2>14 DEF IInv
<1> QED
  BY <1>1, <1>2

LEMMA ReadKeeps ==
    ASSUME IInv, NEW t \in Tasks, ReadExisting(t) \/ ReadExistingFails(t)
    PROVE  IInv'
<1> DEFINE u == job[t].user
           k == job[t].token
<1>1. u \in Users /\ k \in Tokens /\ tokens[k] # 0 /\ owner[k] = u /\ pc[t] = "existing"
  BY DEF ReadExisting, ReadExistingFails, IInv, JobsFit
<1>2. PICK e \in {tier[u], 0} :
        /\ Goto(t, "apply", Job(u, k, e))
        /\ (e = tier[u] /\ spoilt' = spoilt) \/ spoilt' = spoilt \cup {u}
  BY DEF ReadExisting, ReadExistingFails, data
<1>3. UNCHANGED <<tokens, owner, tier>> /\ allowed' \in [activations : Nat, faults : Nat]
  BY DEF ReadExisting, ReadExistingFails, data, Fault, IInv, TypeOK
<1>4. e \in Tiers \cup {0}
  BY <1>1 DEF IInv, TypeOK
<1>5. TypeOK'
  BY <1>1, <1>2, <1>3, <1>4 DEF Goto, Job, IInv, TypeOK
<1>6. /\ job'[t].user = u /\ job'[t].token = k /\ job'[t].existing = e /\ pc'[t] = "apply"
      /\ \A s \in Tasks \ {t} : job'[s] = job[s] /\ pc'[s] = pc[s]
  BY <1>2 DEF Goto, Job, IInv, TypeOK
<1>7. \A v \in Users : PaidFor(v)' = PaidFor(v)
  BY <1>3 DEF PaidFor
<1>8. e \in PaidFor(u)
  BY <1>1, <1>2 DEF IInv, TiersPaid, PaidFor
<1>9. JobsFit'
  BY <1>1, <1>3, <1>6, <1>7, <1>8 DEF IInv, JobsFit
<1>10. Redeemed' /\ TiersPaid'
  BY <1>3, <1>7 DEF IInv, Redeemed, TiersPaid
<1>11. spoilt \subseteq spoilt'
  BY <1>2
<1>12. OneAtATime'
  <2>1. \A s \in Tasks : job'[s].user = job[s].user
    BY <1>6
  <2> QED
    BY <1>11, <2>1 DEF IInv, OneAtATime
<1>13. \A v \in Users, j \in Tokens : BeingApplied(v, j) => BeingApplied(v, j)'
  BY <1>1, <1>6 DEF BeingApplied
<1>14. NoneForgotten'
  BY <1>3, <1>11, <1>13 DEF IInv, NoneForgotten
<1>15. ReadIsFresh'
  BY <1>2, <1>3, <1>6, <1>11 DEF IInv, ReadIsFresh
<1> QED
  BY <1>5, <1>9, <1>10, <1>12, <1>14, <1>15 DEF IInv

LEMMA ApplyKeeps ==
    ASSUME IInv, NEW t \in Tasks, ApplyTier(t) \/ ApplyTierFails(t)
    PROVE  IInv'
<1> DEFINE u == job[t].user
           k == job[t].token
           e == job[t].existing
<1>1. /\ u \in Users /\ k \in Tokens /\ tokens[k] # 0 /\ owner[k] = u /\ pc[t] = "apply"
      /\ e \in PaidFor(u) /\ e \in Tiers \cup {0}
  BY DEF ApplyTier, ApplyTierFails, IInv, JobsFit, TypeOK
<1>2. Finish(t) /\ UNCHANGED <<tokens, owner>> /\ allowed' \in [activations : Nat, faults : Nat]
  BY DEF ApplyTier, ApplyTierFails, Fault, IInv, TypeOK
<1>3. \/ tier' = [tier EXCEPT ![u] = Higher(tokens[k], e)] /\ spoilt' = spoilt
      \/ tier' = tier /\ spoilt' = spoilt \cup {u}
  BY DEF ApplyTier, ApplyTierFails
<1>4. Higher(tokens[k], e) \in (Tiers \cup {0}) \cap PaidFor(u)
  BY <1>1 DEF Higher, PaidFor, IInv, TypeOK
<1>5. TypeOK'
  BY <1>1, <1>2, <1>3, <1>4 DEF Finish, Goto, NoJob, Job, IInv, TypeOK
<1>6. /\ job'[t] = NoJob /\ pc'[t] = "idle"
      /\ \A s \in Tasks \ {t} : job'[s] = job[s] /\ pc'[s] = pc[s]
  BY <1>2 DEF Finish, Goto, IInv, TypeOK
<1>7. \A v \in Users : PaidFor(v)' = PaidFor(v)
  BY <1>2 DEF PaidFor
<1>8. JobsFit'
  BY <1>2, <1>6, <1>7 DEF IInv, JobsFit
<1>9. Redeemed' /\ TiersPaid'
  BY <1>1, <1>2, <1>3, <1>4, <1>7 DEF IInv, Redeemed, TiersPaid, TypeOK
<1>10. spoilt \subseteq spoilt'
  BY <1>3
<1>11. NoJob.user \notin Users
  BY PremiumConstants DEF NoJob, Job
<1>12. OneAtATime'
  BY <1>6, <1>10, <1>11 DEF IInv, OneAtATime
<1>13. \A v \in Users \ {u}, j \in Tokens : BeingApplied(v, j) => BeingApplied(v, j)'
  BY <1>6 DEF BeingApplied
<1>14. \A v \in Users \ {u} : tier'[v] = tier[v]
  BY <1>3 DEF IInv, TypeOK
<1>15. NoneForgotten'
  <2> SUFFICES ASSUME NEW v \in Users \ spoilt', NEW j \in Tokens, owner'[j] = v,
                      ~(tokens'[j] <= tier'[v])
               PROVE  BeingApplied(v, j)'
    BY DEF NoneForgotten
  <2>1. tokens[j] <= tier[v] \/ BeingApplied(v, j)
    BY <1>2, <1>10 DEF IInv, NoneForgotten
  <2>2. v # u
    <3> SUFFICES ASSUME v = u PROVE FALSE
      OBVIOUS
    <3>1. u \notin spoilt /\ tier' = [tier EXCEPT ![u] = Higher(tokens[k], e)]
      BY <1>3
    <3>2. e = tier[u]
      BY <1>1, <3>1 DEF IInv, ReadIsFresh
    <3>3. \A s \in Tasks : job[s].user = u => s = t
      BY <1>1, <3>1 DEF IInv, OneAtATime
    <3>4. BeingApplied(u, j) => j = k
      BY <3>3 DEF BeingApplied
    <3>5. tier'[u] = Higher(tokens[k], e) /\ tokens'[j] = tokens[j]
      BY <1>1, <1>2, <3>1 DEF IInv, TypeOK
    <3>6. tokens[k] \in Nat /\ e \in Nat /\ tokens[j] \in Nat
      BY <1>1, LevelsAreNumbers
    <3>7. tokens[k] <= Higher(tokens[k], e) /\ e <= Higher(tokens[k], e)
      BY <3>6 DEF Higher
    <3>8. Higher(tokens[k], e) \in Nat
      BY <3>6 DEF Higher
    <3> QED
      BY <2>1, <3>2, <3>4, <3>5, <3>6, <3>7, <3>8
  <2> QED
    BY <1>2, <1>13, <1>14, <2>1, <2>2
<1>16. ReadIsFresh'
  <2> SUFFICES ASSUME NEW s \in Tasks, pc'[s] = "apply", job'[s].user \notin spoilt'
               PROVE  job'[s].existing = tier'[job'[s].user]
    BY DEF ReadIsFresh
  <2>1. s # t /\ job'[s] = job[s] /\ pc[s] = "apply" /\ job[s].user \notin spoilt
    BY <1>6, <1>10
  <2>2. job[s].existing = tier[job[s].user] /\ job[s].user \in Users
    BY <2>1 DEF IInv, ReadIsFresh, JobsFit
  <2>3. job[s].user # u
    BY <1>1, <2>1 DEF IInv, OneAtATime
  <2> QED
    BY <1>14, <2>1, <2>2, <2>3
<1> QED
  BY <1>5, <1>8, <1>9, <1>12, <1>15, <1>16 DEF IInv

LEMMA CrashKeeps == ASSUME IInv, Crash PROVE IInv'
<1> USE DEF Crash
<1>1. TypeOK'
  BY DEF Fault, IInv, TypeOK, NoJob, Job
<1>2. \A v \in Users : PaidFor(v)' = PaidFor(v)
  BY DEF PaidFor
<1>3. JobsFit' /\ Redeemed' /\ TiersPaid' /\ ReadIsFresh'
  BY <1>2 DEF IInv, JobsFit, Redeemed, TiersPaid, ReadIsFresh
<1>4. OneAtATime'
  BY PremiumConstants DEF OneAtATime, NoJob, Job
<1>5. \A v \in Users \ spoilt', j \in Tokens : ~BeingApplied(v, j)
  BY DEF BeingApplied, Busy
<1>6. NoneForgotten'
  BY <1>5 DEF IInv, NoneForgotten
<1> QED
  BY <1>1, <1>3, <1>4, <1>6 DEF IInv

LEMMA InvariantStep == IInv /\ [Next]_vars => IInv'
<1> SUFFICES ASSUME IInv, [Next]_vars PROVE IInv'
  OBVIOUS
<1>1. CASE UNCHANGED vars
  BY <1>1 DEF vars, IInv, TypeOK, JobsFit, Redeemed, TiersPaid, PaidFor, OneAtATime, NoneForgotten,
     BeingApplied, ReadIsFresh
<1>2. CASE Next
  BY <1>2, GenerateKeeps, FindTokenKeeps, BurnKeeps, ReadKeeps, ApplyKeeps, CrashKeeps
     DEF Next, Activation
<1> QED
  BY <1>1, <1>2

\* Every variable keeps its type, whatever fails.
THEOREM TypeCorrect == Spec => []TypeOK
<1>1. IInv => TypeOK
  BY DEF IInv
<1> QED
  BY <1>1, InvariantInit, InvariantStep, PTL DEF Spec

\* A tier was paid for, and one token at a time gives the highest.
THEOREM TiersPaidFor == Spec => []TierPaidFor
<1>1. IInv => TierPaidFor
  <2> SUFFICES ASSUME IInv, NEW u \in Users, ~Busy(u), u \notin spoilt, NEW level \in PaidFor(u)
               PROVE  level <= tier[u]
    BY DEF IInv, TiersPaid, TierPaidFor
  <2>1. tier[u] \in Nat
    BY LevelsAreNumbers
  <2>2. CASE level = 0
    BY <2>1, <2>2
  <2>3. CASE level # 0
    <3>1. PICK k \in Tokens : owner[k] = u /\ level = tokens[k]
      BY <2>3 DEF PaidFor
    <3>2. ~BeingApplied(u, k)
      BY DEF BeingApplied, Busy
    <3> QED
      BY <3>1, <3>2 DEF IInv, NoneForgotten
  <2> QED
    BY <2>2, <2>3
<1> QED
  BY <1>1, InvariantInit, InvariantStep, PTL DEF Spec
=============================================================================
