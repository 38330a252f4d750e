------------------------------- MODULE CaseLog -------------------------------
(***************************************************************************)
(* The case log as moderators are told it works: each new case gets the    *)
(* number after the highest in the log, whoever else is punishing at the   *)
(* time; what a case says never changes; it is closed when its term is     *)
(* over, or as a warn that was spent, and never opened again.              *)
(***************************************************************************)
EXTENDS Naturals

CONSTANT Timed      \* the types of cases that have a term

VARIABLES
    log,        \* number -> [type, by, user, until, active]
    excused,    \* numbers whose term was cut short, or that changed hands
    clock

logVars == <<log, excused, clock>>

LogInit == log = [n \in {} |-> n] /\ excused = {} /\ clock = 0

Numbers == DOMAIN log
Highest == CHOOSE h \in Numbers \cup {0} : \A n \in Numbers : n <= h

Open ==
    LET n == Highest + 1 IN
    /\ n \notin Numbers /\ DOMAIN log' = Numbers \cup {n}
    /\ log'[n].active /\ \A m \in Numbers : log'[m] = log[m]
    /\ UNCHANGED <<excused, clock>>

\* The cases in spent are closed, everything else stays as it is.
Closing(spent) ==
    log' = [n \in Numbers |-> [log[n] EXCEPT !.active = @ /\ n \notin spent]]

Expire ==
    /\ \E n \in Numbers :
         /\ n \in excused \/ (log[n].type \in Timed /\ log[n].until <= clock)
         /\ Closing({n})
    /\ UNCHANGED <<excused, clock>>

SpendWarns ==
    /\ \E n \in Numbers :
         Closing({m \in Numbers : log[m].type = "warn" /\ log[m].user = log[n].user})
    /\ UNCHANGED <<excused, clock>>

Remove ==
    /\ \E n \in Numbers :
         /\ log' = [m \in Numbers \ {n} |-> log[m]]
         /\ excused' = excused \cup {n}
    /\ UNCHANGED clock

Excuse == excused \subseteq excused' /\ UNCHANGED <<log, clock>>

Pass == clock' = clock + 1 /\ UNCHANGED <<log, excused>>

LogNext == Open \/ Expire \/ SpendWarns \/ Remove \/ Excuse \/ Pass

LogSpec == LogInit /\ [][LogNext]_logVars
=============================================================================
