------------------------------- MODULE Forms -------------------------------
(***************************************************************************)
(* The cards of the console that show or edit what the server has stored   *)
(* for a subject (an account, a PHP version, a package, a site): when the  *)
(* form is filled, what a save sends and to whom, and how a page follows a *)
(* job that runs on the server (web/src/pages).                            *)
(*                                                                         *)
(* Cards are one machine with other parameters:                            *)
(*   fills    when the form takes what was read: with every reply, once    *)
(*            when it is first drawn, or never                             *)
(*   chooses  what choosing another subject does: there is no choice, its  *)
(*            state is read, or the form is kept as it is                  *)
(*   clears   the form is empty while the next subject is read             *)
(*   empties  a read that fails empties the form                           *)
(*   saves    whether the form is edited and saved, and if a save is read  *)
(*            back when it is done, or always                              *)
(*   closes   a save that succeeds closes the card                         *)
(*   others   other operations of the page read again what fills the form, *)
(*            whatever was answered                                        *)
(*   polls    how a running job is followed: by a timer armed by every     *)
(*            reply, by an interval, or not                                *)
(* A call is sent, served and its answer taken up, in any order.  What     *)
(* follows a call is the rest of the handler that sent it, which knows the *)
(* subject that was chosen at the click.                                   *)
(*                                                                         *)
(* A definition marked (slip) is a plausible mistake in the one that       *)
(* follows it and is used nowhere.                                         *)
(***************************************************************************)
EXTENDS Naturals, FiniteSets

CONSTANTS Subjects,  \* also what is stored for each at first
          Default,   \* what a form holds that nothing has filled
          CardNames, \* the cards of this instance
          Patience,  \* whether the user waits for answers: a subset of BOOLEAN
          MayFail,   \* whether calls are refused or their answers lost
          MaxKeys,   \* bound: edits
          MaxOps,    \* bound: subjects chosen, saves, other operations
          MaxCalls   \* bound: calls in flight

----------------------------------------------------------------------------
(* The cards.                                                              *)

Plain == [fills |-> "reply", chooses |-> "no", clears |-> FALSE, empties |-> FALSE, saves |-> "done",
          closes |-> FALSE, others |-> FALSE, polls |-> "no"]
\* A page whose handlers all end in a read, whatever the answer.
Guarded == [Plain EXCEPT !.saves = "always", !.others = TRUE]

ScheduleCard == [Guarded EXCEPT !.chooses = "reads", !.polls = "timeout"]
PlanRow == Guarded
NotificationForm == Plain
\* What a form sends without ever having read it: events, mode, exclusions.
NotificationEvents == [Plain EXCEPT !.fills = "never"]
WafMode == [Guarded EXCEPT !.fills = "never"]
\* The categories of rules, sent by the same Save as the mode.
WafRules == Guarded
MalwareSchedule == [Plain EXCEPT !.fills = "once", !.chooses = "keeps", !.others = TRUE, !.polls = "interval"]
Branding == [Guarded EXCEPT !.fills = "once"]
TerminalSettings == [Plain EXCEPT !.fills = "once", !.others = TRUE]
VersionSettings == [Plain EXCEPT !.chooses = "reads"]
ResellerLimits == [Plain EXCEPT !.chooses = "reads", !.closes = TRUE]
Manage == [Plain EXCEPT !.chooses = "reads", !.clears = TRUE, !.saves = "no"]
Logs == [Plain EXCEPT !.chooses = "reads", !.empties = TRUE, !.saves = "no"]
Reusable == [Plain EXCEPT !.chooses = "reads", !.empties = TRUE, !.saves = "no"]

Card ==
  [backups |-> ScheduleCard, plans |-> PlanRow, notifications |-> NotificationForm,
   events |-> NotificationEvents, mode |-> WafMode, rules |-> WafRules, malware |-> MalwareSchedule,
   branding |-> Branding, terminal |-> TerminalSettings, php |-> VersionSettings,
   limits |-> ResellerLimits, wordpress |-> Manage, logs |-> Logs, reusable |-> Reusable]

\* What the constants have to be.
ConstantsFit ==
  /\ CardNames \subseteq DOMAIN Card
  /\ Patience \subseteq BOOLEAN /\ MayFail \in BOOLEAN
  /\ MaxKeys \in Nat /\ MaxOps \in Nat /\ MaxCalls \in Nat

VARIABLES card,     \* the card on screen
          stored,   \* what the server has for each subject
          subject,  \* the subject chosen
          form,     \* what the form holds, and whose it is
          edited,   \* whether it was edited since it was filled or saved
          job,      \* a job of the server
          known,    \* whether the page shows it running
          timer,    \* whether the page will ask again by itself
          calls,    \* calls sent and not yet taken up
          keys,     \* edits so far
          ops,      \* operations so far
          patient,  \* whether the user waits
          unread,   \* history: the last read failed
          crossed   \* history: a read was sent while another was on its way, or
                    \* another subject chosen while any call was

watch == <<job, known, timer>>
bounds == <<keys, ops>>
vars == <<card, stored, subject, form, edited, watch, calls, bounds, patient, unread, crossed>>

Value == Subjects \cup {Default} \cup 1..MaxKeys
Unfilled == [of |-> Default, val |-> Default]
Call == [op: {"read", "save", "other"}, n: 0..MaxOps, of: Subjects, val: Value, running: BOOLEAN,
         stage: {"sent", "done", "refused"}]

TypeOK ==
  /\ card \in CardNames
  /\ stored \in [Subjects -> Value] /\ subject \in Subjects
  /\ form \in [of: Subjects \cup {Default}, val: Value] /\ edited \in BOOLEAN
  /\ job \in {"none", "running", "ended"} /\ {known, timer} \subseteq BOOLEAN
  /\ calls \subseteq Call
  /\ keys \in 0..MaxKeys /\ ops \in 0..MaxOps
  /\ {patient, unread, crossed} \subseteq BOOLEAN

Read(s) == [op |-> "read", n |-> ops, of |-> s, val |-> Default, running |-> FALSE,
            stage |-> "sent"]
Reading == \E c \in calls : c.op = "read"

Init ==
  /\ card \in CardNames
  /\ stored = [s \in Subjects |-> s]
  /\ subject \in Subjects
  /\ form = Unfilled /\ edited = FALSE
  /\ job = "none" /\ known = FALSE /\ timer = FALSE
  /\ keys = 0 /\ ops = 0
  /\ calls = {[op |-> "read", n |-> 0, of |-> subject, val |-> Default, running |-> FALSE,
               stage |-> "sent"]}
  /\ patient \in Patience
  /\ unread = FALSE /\ crossed = FALSE

MayAct == Cardinality(calls) < MaxCalls /\ (patient => calls = {})
Begin == MayAct /\ ops < MaxOps /\ ops' = ops + 1 /\ UNCHANGED keys
Asks(s) == calls' = calls \cup {Read(s)} /\ crossed' = (crossed \/ Reading)

----------------------------------------------------------------------------
(* What the user does.                                                     *)

\* (slip) The state of the next subject is not read.
ChooseSlip(s) ==
  /\ Begin /\ Card[card].chooses = "reads" /\ s # subject
  /\ subject' = s
  /\ UNCHANGED <<card, stored, form, edited, watch, calls, patient, unread, crossed>>

\* Choosing re-arms the timer of a page that shows a running job.
Choose(s) ==
  /\ Begin /\ Card[card].chooses = "reads" /\ (s # subject \/ form = Unfilled)
  /\ subject' = s
  /\ form' = IF Card[card].clears THEN Unfilled ELSE form
  /\ edited' = (edited /\ ~Card[card].clears)
  /\ timer' = IF Card[card].polls = "timeout" THEN known ELSE timer
  /\ calls' = calls \cup {Read(s)} /\ crossed' = (crossed \/ calls # {})
  /\ UNCHANGED <<card, stored, job, known, patient, unread>>

\* Where only the address of the next save changes.
ChooseOwner(s) ==
  /\ Begin /\ Card[card].chooses = "keeps" /\ s # subject
  /\ subject' = s
  /\ UNCHANGED <<card, stored, form, edited, watch, calls, patient, unread, crossed>>

\* A form with a default is there before anything was read; the others are
\* drawn when there is something to draw.
Drawn == form # Unfilled \/ Card[card].fills = "never"

Edit ==
  /\ MayAct /\ Card[card].saves # "no" /\ Drawn /\ keys < MaxKeys
  /\ keys' = keys + 1
  /\ form' = [form EXCEPT !.val = keys + 1] /\ edited' = TRUE
  /\ UNCHANGED <<card, stored, subject, watch, calls, ops, patient, unread, crossed>>

\* A call that changes something, for the subject chosen at the click.
Change(op, val) == [Read(subject) EXCEPT !.op = op, !.n = ops + 1, !.val = val]

\* The form goes to the subject chosen now.
Save ==
  /\ Begin /\ Card[card].saves # "no" /\ Drawn
  /\ calls' = calls \cup {Change("save", form.val)}
  /\ UNCHANGED <<card, stored, subject, form, edited, watch, patient, unread, crossed>>

\* Another operation of the page.
OtherOperation ==
  /\ Begin /\ Card[card].others
  /\ calls' = calls \cup {Change("other", Default)}
  /\ UNCHANGED <<card, stored, subject, form, edited, watch, patient, unread, crossed>>

----------------------------------------------------------------------------
(* The server and the browser.                                             *)

JobEnds ==
  /\ job = "running" /\ job' = "ended"
  /\ UNCHANGED <<card, stored, subject, form, edited, known, timer, calls, bounds, patient, unread, crossed>>

Answered(c) == [c EXCEPT !.stage = "done", !.val = IF c.op = "read" THEN stored[c.of] ELSE c.val,
                         !.running = (job = "running")]

Replace(c, d) == calls' = (calls \ {c}) \cup {d}

\* What a call that is carried out changes: a save the setting, another
\* operation perhaps the job it starts.
Carries(c) ==
  /\ stored' = IF c.op = "save" THEN [stored EXCEPT ![c.of] = c.val] ELSE stored
  /\ job' \in IF c.op = "other" /\ Card[card].polls # "no" /\ job = "none" THEN {job, "running"} ELSE {job}

\* A refusal may hide that the call was carried out.
Serve(c) ==
  /\ c.stage = "sent"
  /\ \/ Replace(c, Answered(c)) /\ Carries(c)
     \/ MayFail /\ Replace(c, [c EXCEPT !.stage = "refused"]) /\ UNCHANGED <<stored, job>>
     \/ MayFail /\ c.op # "read" /\ Replace(c, [c EXCEPT !.stage = "refused"]) /\ Carries(c)
  /\ UNCHANGED <<card, subject, form, edited, known, timer, bounds, patient, unread, crossed>>

Fills == Card[card].fills = "reply" \/ (Card[card].fills = "once" /\ form = Unfilled)

\* (slip) The form is taken to be the one of the subject chosen first.
TakeReadSlip(c) ==
  /\ c.op = "read" /\ c.stage = "done"
  /\ calls' = calls \ {c}
  /\ IF form = Unfilled THEN form' = [of |-> c.of, val |-> c.val] /\ edited' = FALSE
                        ELSE UNCHANGED <<form, edited>>
  /\ known' = c.running /\ timer' = (Card[card].polls # "no" /\ c.running)
  /\ unread' = FALSE
  /\ UNCHANGED <<card, stored, subject, job, bounds, patient, crossed>>

TakeRead(c) ==
  /\ c.op = "read" /\ c.stage = "done"
  /\ calls' = calls \ {c}
  /\ IF Fills THEN form' = [of |-> c.of, val |-> c.val] /\ edited' = FALSE ELSE UNCHANGED <<form, edited>>
  /\ known' = c.running /\ timer' = (Card[card].polls # "no" /\ c.running)
  /\ unread' = FALSE
  /\ UNCHANGED <<card, stored, subject, job, bounds, patient, crossed>>

TakeNoRead(c) ==
  /\ c.op = "read" /\ c.stage = "refused"
  /\ calls' = calls \ {c}
  /\ IF Card[card].empties THEN form' = Unfilled /\ edited' = FALSE ELSE UNCHANGED <<form, edited>>
  /\ unread' = TRUE
  /\ UNCHANGED <<card, stored, subject, watch, bounds, patient, crossed>>

\* The handler of a call reads again, for the subject of its click.
ReadsBack(c) == calls' = (calls \ {c}) \cup {Read(c.of)} /\ crossed' = (crossed \/ Reading)

\* A save that succeeded is read back, or closes its card.
TakeSaved(c) ==
  /\ c.op = "save" /\ c.stage = "done"
  /\ edited' = (edited /\ form.val # c.val)
  /\ IF Card[card].closes
     THEN form' = Unfilled /\ calls' = calls \ {c} /\ UNCHANGED crossed
     ELSE ReadsBack(c) /\ UNCHANGED form
  /\ UNCHANGED <<card, stored, subject, watch, bounds, patient, unread>>

\* A save that failed leaves the form as it is, and is read back where
\* handlers end so.
TakeNotSaved(c) ==
  /\ c.op = "save" /\ c.stage = "refused"
  /\ IF Card[card].saves = "always" THEN ReadsBack(c) ELSE calls' = calls \ {c} /\ UNCHANGED crossed
  /\ UNCHANGED <<card, stored, subject, form, edited, watch, bounds, patient, unread>>

TakeOther(c) ==
  /\ c.op = "other" /\ c.stage # "sent"
  /\ ReadsBack(c)
  /\ UNCHANGED <<card, stored, subject, form, edited, watch, bounds, patient, unread>>

\* The timer fires once, the interval again and again.
Tick ==
  /\ timer /\ ~Reading
  /\ Asks(subject)
  /\ timer' = (Card[card].polls = "interval")
  /\ UNCHANGED <<card, stored, subject, form, edited, job, known, bounds, patient, unread>>

Answer == \E c \in calls :
  Serve(c) \/ TakeRead(c) \/ TakeNoRead(c) \/ TakeSaved(c) \/ TakeNotSaved(c) \/ TakeOther(c)

\* What a network that works now and then owes the page.
ReadAnswered == \E c \in calls :
  /\ c.op = "read" /\ c.stage = "sent" /\ Replace(c, Answered(c))
  /\ UNCHANGED <<card, stored, subject, form, edited, watch, bounds, patient, unread, crossed>>

Next ==
  \/ \E s \in Subjects : Choose(s) \/ ChooseOwner(s)
  \/ Edit \/ Save \/ OtherOperation
  \/ Answer \/ Tick \/ JobEnds

Spec == Init /\ [][Next]_vars
        /\ WF_vars(Answer) /\ WF_vars(Tick) /\ WF_vars(JobEnds) /\ SF_vars(ReadAnswered)

----------------------------------------------------------------------------
(* What makes a card correct.                                              *)

\* When all is answered, the form is of the subject chosen: unless the last
\* read failed, two reads were on their way at once (the late one wins), another
\* subject was chosen while a call was on its way (its handler reads the subject
\* of its click, Backups.jsx:57-66, Php.jsx:180-189), or the card keeps its form
\* (MalwareSchedule).
QuietFormIsOfSubject ==
  calls = {} /\ ~unread /\ ~crossed /\ Card[card].chooses # "keeps" /\ form # Unfilled
    /\ Card[card].fills # "never"
    => form.of = subject

\* Saving a form nobody has edited changes nothing, for a user who waits and
\* whose last read arrived and met no other: the form was filled from what is
\* stored.  What a form never read (NotificationEvents, WafMode) and what it
\* read for another subject (MalwareSchedule) is overwritten.
UntouchedSaveChangesNothing ==
  [][\A c \in calls' \ calls :
       /\ c.op = "save" /\ c.stage = "sent" /\ patient /\ ~unread /\ ~crossed /\ ~edited
       /\ Card[card].fills # "never" /\ Card[card].chooses # "keeps"
       => c.val = stored[c.of]]_vars

\* A job the page shows running is followed to its end, where an interval asks.
WatchingEnds == (known /\ Card[card].polls = "interval") ~> ~known

\* "A running backup finishes on the server, so poll while one is in flight and
\* stop as soon as none are" (Backups.jsx:49-50).
FollowedToTheEnd == known ~> ~known
=============================================================================
