---------------------------- MODULE EmbedSessions ---------------------------
(***************************************************************************)
(* The embed builder.  Interactive sessions are kept under the message     *)
(* that shows the embed and its controls, in a map of bounded size; text   *)
(* drafts under their author.  Each press or submitted form is handled by  *)
(* a task of its own: it reads or changes the session, in one step, and    *)
(* then updates the message.  An embed is a text, which stands for all its *)
(* single properties, and a list of fields.                                *)
(***************************************************************************)
EXTENDS Naturals, Sequences, FiniteSets, SequencesExt

CONSTANTS
    Messages, NoMessage,
    Authors,            \* of text drafts
    Texts, Blank,       \* Blank stands for an embed without any text
    Fields,
    MaxFields, MaxBuilders,
    Tasks,
    MaxPresses, MaxFaults,  \* bounds
    NoEmbed

VARIABLES
    builders,   \* BUILDERS: message -> embed, or NoEmbed
    drafts,     \* TEXT_SESSIONS: author -> embed, or NoEmbed
    view,       \* Discord: the controls a message has, "none" before it is sent
    shown,      \* the embed it shows
    pc, job,    \* the await task t is at, and its locals
    allowed,    \* presses and faults the bounds still allow
    \* history
    alone,      \* tasks no other task of their message has come near
    tangled     \* messages of which two tasks overlapped, one got no answer through, or
                \* the session was evicted, since one alone updated them

data == <<builders, drafts, view, shown, alone, tangled>>
vars == <<builders, drafts, view, shown, alone, tangled, pc, job, allowed>>

Embed(text, fields) == [text |-> text, fields |-> fields]
Empty == Embed(Blank, <<>>)
Starter == Embed(CHOOSE x \in Texts : TRUE, <<>>)
Embeds == [text : Texts \cup {Blank}, fields : BoundedSeq(Fields, MaxFields)]

\* What a task is to do, to which message or draft, with an embed, a text, a field or
\* an index; the embed it has in hand, and the one its author saw.
Job(what, on, arg, embed, seen) ==
    [what |-> what, on |-> on, arg |-> arg, embed |-> embed, seen |-> seen]
NoJob == Job("nothing", NoMessage, Blank, NoEmbed, NoEmbed)

DataInit ==
    /\ builders = [m \in Messages |-> NoEmbed] /\ drafts = [a \in Authors |-> NoEmbed]
    /\ view = [m \in Messages |-> "none"] /\ shown = builders
    /\ alone = {} /\ tangled = {}
TaskInit ==
    /\ pc = [t \in Tasks |-> "idle"] /\ job = [t \in Tasks |-> NoJob]
    /\ allowed = [presses |-> MaxPresses, faults |-> MaxFaults]
Init == DataInit /\ TaskInit

Goto(t, next, j) == pc' = [pc EXCEPT ![t] = next] /\ job' = [job EXCEPT ![t] = j]
Finish(t) == Goto(t, "idle", NoJob)
Spend(what) == allowed[what] > 0 /\ allowed' = [allowed EXCEPT ![what] = @ - 1]
On(m) == {t \in Tasks : job[t].on = m}
SameMessages == UNCHANGED <<builders, view, shown, alone, tangled>>

(***************************************************************************)
(* What is done to an embed.                                               *)
(***************************************************************************)
\* Mutant: fields are added whatever their number.
AddFieldAlways(embed, f) == Embed(embed.text, Append(embed.fields, f))

AddField(embed, f) ==
    IF Len(embed.fields) < MaxFields THEN Embed(embed.text, Append(embed.fields, f)) ELSE embed
RemoveField(embed, i) ==
    IF i \in DOMAIN embed.fields THEN Embed(embed.text, RemoveAt(embed.fields, i)) ELSE embed

Edited(what, arg, embed) ==
    CASE what = "set" -> Embed(arg, embed.fields)
      [] what = "add" -> AddField(embed, arg)
      [] what = "remove" -> RemoveField(embed, arg)
      [] what = "import" -> arg
      [] OTHER -> embed

(***************************************************************************)
(* Interactive sessions.                                                   *)
(***************************************************************************)
\* embed new sends the message, and then stores the session; a full map loses an
\* arbitrary entry first.
EmbedNew(t, m) ==
    /\ pc[t] = "idle" /\ view[m] = "none" /\ Spend("presses")
    /\ view' = [view EXCEPT ![m] = "main"] /\ shown' = [shown EXCEPT ![m] = Starter]
    /\ Goto(t, "insert", Job("new", m, Blank, Starter, Starter))
    /\ UNCHANGED <<builders, drafts, alone, tangled>>

Live == {m \in Messages : builders[m] # NoEmbed}

InsertBuilder(t) ==
    /\ pc[t] = "insert" /\ Finish(t)
    /\ \E evicted \in IF Cardinality(Live) >= MaxBuilders THEN {{m} : m \in Live} ELSE {{}} :
         /\ builders' = [m \in Messages |-> IF m = job[t].on THEN job[t].embed
                                            ELSE IF m \in evicted THEN NoEmbed ELSE builders[m]]
         /\ tangled' = tangled \cup evicted
    /\ UNCHANGED <<drafts, view, shown, alone, allowed>>

\* The controls of each view, and the forms opened from the main one: which may be
\* submitted later, whatever the message shows by then.
Controls(m) ==
    CASE view[m] = "main" ->
            {<<"viewFields", Blank>>, <<"viewSend", Blank>>, <<"cancel", Blank>>, <<"complete", Blank>>}
      [] view[m] = "remove" -> {<<"remove", i>> : i \in DOMAIN shown[m].fields} \cup {<<"back", Blank>>}
      [] view[m] = "send" -> {<<"send", Blank>>, <<"back", Blank>>}
      [] OTHER -> {}
Forms == {<<"set", x>> : x \in Texts} \cup {<<"add", f>> : f \in Fields} \cup {<<"import", e>> : e \in Embeds}

\* Pressed or submitted by the owner, and the session is there; anything else does nothing.
Press(t, m) ==
    /\ pc[t] = "idle" /\ builders[m] # NoEmbed /\ view[m] # "none" /\ Spend("presses")
    /\ \E p \in Controls(m) \cup Forms : Goto(t, "act", Job(p[1], m, p[2], NoEmbed, shown[m]))
    /\ alone' = alone \ On(m)
    /\ tangled' = IF On(m) = {} THEN tangled ELSE tangled \cup {m}
    /\ UNCHANGED <<builders, drafts, view, shown>>

\* What is imported from a paste has to be fetched, which may fail, before the session
\* is looked for again.
NextView(what) ==
    CASE what = "viewFields" -> "remove"
      [] what = "viewSend" -> "send"
      [] what \in {"cancel", "complete"} -> "final"
      [] OTHER -> "main"

\* The session is changed, or read; it may be gone by now.  Only the view for sending
\* and completion then go on, with an empty embed.
Act(t) ==
    LET j == job[t]  m == j.on  held == builders[m]
        embed == IF held = NoEmbed THEN Empty ELSE Edited(j.what, j.arg, held) IN
    /\ pc[t] = "act"
    /\ \/ /\ held # NoEmbed \/ j.what \in {"viewSend", "complete", "cancel"}
          /\ ~(j.what = "viewFields" /\ held.fields = <<>>)
          /\ builders' = [builders EXCEPT ![m] = IF held = NoEmbed \/ j.what = "cancel" THEN NoEmbed ELSE embed]
          /\ Goto(t, IF j.what = "complete" THEN "drop" ELSE "respond", Job(j.what, m, j.arg, embed, j.seen))
          /\ alone' = IF On(m) = {t} THEN alone \cup {t} ELSE alone
          /\ UNCHANGED allowed
       \/ /\ \/ held = NoEmbed /\ j.what \notin {"viewSend", "complete", "cancel"}
             \/ held # NoEmbed /\ j.what = "viewFields" /\ held.fields = <<>>
          /\ Finish(t) /\ UNCHANGED <<builders, alone, allowed>>
       \/ j.what = "import" /\ Spend("faults") /\ Finish(t) /\ UNCHANGED <<builders, alone>>
    /\ UNCHANGED <<drafts, view, shown, tangled>>

\* Completion removes the session in a step of its own.
Drop(t) ==
    /\ pc[t] = "drop"
    /\ builders' = [builders EXCEPT ![job[t].on] = NoEmbed]
    /\ Goto(t, "respond", job[t])
    /\ UNCHANGED <<drafts, view, shown, alone, tangled, allowed>>

\* Mutant: the controls change, the embed does not.
UpdateControls(m, what, embed) == view' = [view EXCEPT ![m] = NextView(what)] /\ UNCHANGED shown

Update(m, what, embed) ==
    view' = [view EXCEPT ![m] = NextView(what)] /\ shown' = [shown EXCEPT ![m] = embed]

\* The message is updated; an update that fails is ignored.  An embed to be sent goes
\* out after it, if its author may send there.
Respond(t) ==
    LET j == job[t]  m == j.on IN
    /\ pc[t] = "respond"
    /\ IF j.what = "send" THEN Goto(t, "post", j) ELSE Finish(t)
    /\ \/ /\ Update(m, j.what, j.embed)
          /\ tangled' = IF t \in alone THEN tangled \ {m} ELSE tangled
          /\ UNCHANGED allowed
       \/ Spend("faults") /\ tangled' = tangled \cup {m} /\ UNCHANGED <<shown, view>>
    /\ alone' = alone \ {t}
    /\ UNCHANGED <<builders, drafts>>

Post(t) == pc[t] = "post" /\ Finish(t) /\ UNCHANGED <<data, allowed>>

(***************************************************************************)
(* Text drafts.                                                            *)
(***************************************************************************)
Draft(a) == IF drafts[a] = NoEmbed THEN Empty ELSE drafts[a]
SetDraft(a, embed) == drafts' = [drafts EXCEPT ![a] = embed] /\ SameMessages

\* title, description, color, author and footer set a property; a field is added while
\* there is room.
EmbedSet(a) ==
    /\ Spend("presses") /\ (\E x \in Texts : SetDraft(a, Edited("set", x, Draft(a)))) /\ UNCHANGED <<pc, job>>
EmbedField(a) ==
    /\ Spend("presses") /\ (\E f \in Fields : SetDraft(a, Edited("add", f, Draft(a)))) /\ UNCHANGED <<pc, job>>
EmbedClear(a) ==
    /\ Spend("presses") /\ drafts[a] # NoEmbed /\ SetDraft(a, NoEmbed) /\ UNCHANGED <<pc, job>>

\* send takes the draft as it is once its author is known to have permission, sends it,
\* and then removes what is there.
EmbedSend(t, a) ==
    /\ pc[t] = "idle" /\ drafts[a] # NoEmbed /\ Spend("presses")
    /\ Goto(t, "sending", Job("draft", a, Blank, drafts[a], NoEmbed))
    /\ UNCHANGED data

DraftSent(t) ==
    /\ pc[t] = "sending" /\ Finish(t)
    /\ \/ SetDraft(job[t].on, NoEmbed) /\ UNCHANGED allowed
       \/ Spend("faults") /\ UNCHANGED data

Crash ==
    /\ Spend("faults")
    /\ builders' = [m \in Messages |-> NoEmbed] /\ drafts' = [a \in Authors |-> NoEmbed]
    /\ pc' = [t \in Tasks |-> "idle"] /\ job' = [t \in Tasks |-> NoJob]
    /\ alone' = {}
    /\ UNCHANGED <<view, shown, tangled>>

Next ==
    \/ \E t \in Tasks :
         \/ \E m \in Messages : EmbedNew(t, m) \/ Press(t, m)
         \/ InsertBuilder(t) \/ Act(t) \/ Drop(t) \/ Respond(t) \/ Post(t)
         \/ \E a \in Authors : EmbedSend(t, a)
         \/ DraftSent(t)
    \/ \E a \in Authors : EmbedSet(a) \/ EmbedField(a) \/ EmbedClear(a)
    \/ Crash

Spec == Init /\ [][Next]_vars

(***************************************************************************)
(* Properties.                                                             *)
(***************************************************************************)
\* Sessions, drafts and messages have embeds of no more fields than are allowed.
TypeOK ==
    /\ builders \in [Messages -> Embeds \cup {NoEmbed}] /\ shown \in [Messages -> Embeds \cup {NoEmbed}]
    /\ drafts \in [Authors -> Embeds \cup {NoEmbed}]
    /\ view \in [Messages -> {"none", "main", "remove", "send", "final"}]
    /\ alone \subseteq Tasks /\ tangled \subseteq Messages
    /\ pc \in [Tasks -> {"idle", "insert", "act", "drop", "respond", "post", "sending"}]
    /\ \A t \in Tasks : job[t].on \in Messages \cup Authors \cup {NoMessage}

\* Everything is done to the embed its author had before them: what is edited, sent
\* or kept is what the message showed when they pressed, and a field is removed by
\* the number it had there, unless another press overlapped or an update failed
\* (on_component, on_modal).
DoneToWhatIsShown ==
    \A t \in Tasks :
        pc[t] = "respond" /\ job[t].what # "cancel" /\ job[t].on \notin tangled =>
            job[t].embed = Edited(job[t].what, job[t].arg, job[t].seen)
=============================================================================
