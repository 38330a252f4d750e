------------------------------- MODULE MCCases -------------------------------
(* The log of cases and the tally of warns, in behaviours of two kinds, chosen *)
(* at the start.                                                               *)
EXTENDS MCModeration, WarnTally

VARIABLE
    focus   \* "log": one moderator punishes, another also edits the log
            \* "warns": two moderators warn, one deletes cases, one sets the policy

LogCommands == (t1 :> {"tempban", "kick"}) @@ (t2 :> {"timeout", "delcase", "lift", "policy"})
WarnCommands == (t1 :> {"warn", "policy"}) @@ (t2 :> {"warn", "delcase"})
AllCommands == [t \in Tasks |-> LogCommands[t] \cup WarnCommands[t]]
KickAtTwo == [threshold |-> 2, action |-> "kick"]
TimeoutAtThree == {[threshold |-> 3, action |-> "timeout"]}

\* Warns are counted whatever the time is; without them a command less is enough.
InFocus ==
    /\ \A t \in Tasks : pc[t] = "idle" /\ pc'[t] # "idle" =>
           job'[t].type \in IF focus = "log" THEN LogCommands[t] ELSE WarnCommands[t]
    /\ IF focus = "log" THEN budget'.commands > 0 ELSE UNCHANGED clock

MCInit == TallyInit /\ focus \in {"log", "warns"}
MCNext == TallyNext /\ InFocus /\ UNCHANGED focus

MCSpec == MCInit /\ [][MCNext]_<<vars, tally, focus>>
=============================================================================
