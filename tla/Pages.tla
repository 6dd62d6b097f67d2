------------------------------- MODULE Pages -------------------------------
(***************************************************************************)
(* The pages of the console (web/src/pages): a list of rows read from the  *)
(* server, buttons and forms that change it, one message for the outcome   *)
(* of the last action, and flags that disable what is running.             *)
(*                                                                         *)
(* Every page is the same machine with other handlers, so a page is a set  *)
(* of operations, each a record that says what its handler does:           *)
(*   asks      questions put before it, 0, 1 or 2 (the second only decides *)
(*             between two ways of doing it)                               *)
(*   redraws   a question declined reads the list again                    *)
(*   first     what becomes of the message before the call                 *)
(*   gate      the flag that disables its button                           *)
(*   flags     the flags it raises                                         *)
(*   frees     when its own flag goes: at the answer, on success only, or  *)
(*             after the list was read again                               *)
(*   catches   whether a failure is shown                                  *)
(*   told      what becomes of the message on success                      *)
(*   tail      a second call: "notes" only warns, "must" is part of it     *)
(*   reload    when the list is read again                                 *)
(*   form      what becomes of the text it is given: blanked on "success", *)
(*             at the "end" of one, "before" the call, or never ("stays"); *)
(*             "wipes" blanks a text it has no use for                     *)
(*   prompts   the browser asks the user, who may cancel                   *)
(*   effect    what it does to a row on the server                         *)
(* The tables are in PageTables.  A call is sent, served and its answer    *)
(* taken up, and answers are taken up in any order.                        *)
(*                                                                         *)
(* A definition marked (slip) is a plausible mistake in the one that       *)
(* follows it and is used nowhere.                                         *)
(***************************************************************************)
EXTENDS PageTables, Naturals, FiniteSets

CONSTANTS Pages,     \* the pages of this instance
          Rows,      \* rows a page may show
          Old,       \* the rows on the server at the start
          Patience,  \* whether the user waits for answers: a subset of BOOLEAN
          MayFail,   \* whether calls are refused or their answers lost
          MaxOps,    \* bound: operations begun
          MaxTasks   \* bound: operations and listings in flight

ASSUME PagesAssumption ==
  /\ Pages \subseteq DOMAIN Table /\ Old \subseteq Rows
  /\ Rows # {} /\ {"free", "page"} \cap Rows = {}
  /\ Patience \subseteq BOOLEAN /\ MayFail \in BOOLEAN /\ MaxOps \in Nat /\ MaxTasks \in Nat \ {0}

VARIABLES page,      \* the page on screen
          server,    \* rows as the server has them: 0 absent, 1 and 2 two settings
          shown,     \* rows as they are on screen
          msg,       \* the message
          busy,      \* the page's flag: free, raised, or raised for a row
          own,       \* operations whose own flag is raised
          form,      \* whether the form holds a text
          saved,     \* history: whether that text has reached the server
          waiting,   \* changes not confirmed yet: what the server would put back
          tasks,     \* handlers running
          ops,       \* operations begun
          patient,   \* whether the user waits
          failed,    \* history: the operation begun last failed, and its handler looks at that
          missed,    \* history: a list was not read, or an answer lost, since the list on screen
          crossed    \* history: a flag was raised over another handler's, or freed by another

vars == <<page, server, shown, msg, busy, own, form, saved, waiting, tasks, ops, patient, failed, missed, crossed>>

OpsHere == Table[page].ops
Values == [Rows -> 0..2]
Nothing == 3
Visit == [Button("visit") EXCEPT !.effect = "none"]
Task == [n: 0..MaxOps, op: OpsHere \cup {Visit}, row: Rows, rows: Values,
         done: BOOLEAN, stage: {"first", "second", "sent", "done", "refused", "more", "list", "listed"}]

TypeOK ==
  /\ page \in Pages /\ server \in Values /\ shown \in Values
  /\ msg \in {"none", "ok", "warn", "err"}
  /\ busy \in {"free", "page"} \cup Rows
  /\ own \subseteq {o.name : o \in OpsHere}
  /\ form \in {"blank", "typed"} /\ saved \in BOOLEAN
  /\ waiting \in [Rows -> 0..3]
  /\ tasks \subseteq Task /\ Cardinality(tasks) <= MaxTasks
  /\ ops \in 0..MaxOps
  /\ {patient, failed, missed, crossed} \subseteq BOOLEAN

Empty == [r \in Rows |-> 0]
AnyRow == CHOOSE r \in Rows : TRUE
Reading(n) == [n |-> n, op |-> Visit, row |-> AnyRow, rows |-> Empty, done |-> FALSE, stage |-> "list"]

\* A page that is opened reads its list.
Init ==
  /\ page \in Pages
  /\ server = [r \in Rows |-> IF r \in Old THEN 1 ELSE 0] /\ shown = Empty
  /\ msg = "none" /\ busy = "free" /\ own = {}
  /\ form = "blank" /\ saved = FALSE
  /\ waiting = [r \in Rows |-> Nothing]
  /\ tasks = {Reading(0)}
  /\ ops = 0 /\ patient \in Patience
  /\ failed = FALSE /\ missed = TRUE /\ crossed = FALSE

Questioned(t) == t.stage \in {"first", "second"}
Running(t) == t.op # Visit /\ t.stage \in {"sent", "done", "refused", "more"}
MayAct == (\A t \in tasks : ~Questioned(t)) /\ (patient => tasks = {})
Becomes(t, u) == tasks' = (tasks \ {t}) \cup {u}
To(t, stage) == Becomes(t, [t EXCEPT !.stage = stage])

----------------------------------------------------------------------------
(* What the user does.                                                     *)

\* (slip) The component's own flag is not looked at.
DisabledSlip(o, r) ==
  CASE o.gate = "page" -> busy # "free" [] o.gate = "row" -> busy = r [] OTHER -> FALSE

Disabled(o, r) ==
  CASE o.gate = "none" -> FALSE
    [] o.gate = "page" -> busy # "free"
    [] o.gate = "row"  -> busy = r
    [] o.gate = "own"  -> o.name \in own

TakesText(o) == o.form \in {"success", "end", "before", "stays"}

\* A row's buttons are there while the row is shown; a form that needs a text
\* is not sent without one.
Offered(o, r) ==
  /\ ~Disabled(o, r)
  /\ IF o.effect = "make" THEN shown[r] = 0 ELSE shown[r] # 0
  /\ TakesText(o) => form = "typed"

\* Whether a handler has raised the flag of the page and has still to lower it.
Holds(t) ==
  /\ t.op.flags \cap {"page", "row"} # {}
  /\ Running(t) \/ (t.stage \in {"list", "listed"} /\ t.op.frees = "reload" /\ "page" \notin t.op.flags)

\* The handler from its first line to its call.
Starts(t) ==
  /\ msg' = CASE t.op.first = "none" -> "none" [] t.op.first = "ok" -> "ok" [] t.op.first = "keep" -> msg
  /\ busy' = IF "page" \in t.op.flags THEN "page" ELSE IF "row" \in t.op.flags THEN t.row ELSE busy
  /\ own' = IF "own" \in t.op.flags THEN own \cup {t.op.name} ELSE own
  /\ crossed' = (crossed \/ (t.op.flags \cap {"page", "row"} # {}
                              /\ \E u \in tasks : Holds(u) /\ (u.op # t.op \/ u.row # t.row)))
  /\ form' = IF t.op.form = "before" THEN "blank" ELSE form
  /\ failed' = FALSE
  /\ tasks' = {u \in tasks : u.n # t.n} \cup {[t EXCEPT !.stage = "sent"]}

Click(o, r) ==
  LET t == [n |-> ops + 1, op |-> o, row |-> r, rows |-> Empty, done |-> FALSE, stage |-> "first"] IN
  /\ MayAct /\ Cardinality(tasks) < MaxTasks /\ ops < MaxOps
  /\ Offered(o, r)
  /\ ops' = ops + 1
  /\ IF o.asks = 0 THEN Starts(t)
     ELSE tasks' = tasks \cup {t} /\ UNCHANGED <<msg, busy, own, crossed, form, failed>>
  /\ UNCHANGED <<page, server, shown, saved, waiting, patient, missed>>

Confirm(t) ==
  /\ (t.stage = "first" /\ t.op.asks = 1) \/ t.stage = "second"
  /\ Starts(t)
  /\ UNCHANGED <<page, server, shown, saved, waiting, ops, patient, missed>>

\* Whether to keep the findings as well: either answer goes on.
AskAgain(t) ==
  /\ t.stage = "first" /\ t.op.asks = 2
  /\ To(t, "second")
  /\ UNCHANGED <<page, server, shown, msg, busy, own, form, saved, waiting, ops, patient, failed, missed, crossed>>

Decline(t) ==
  /\ t.stage = "first"
  /\ IF t.op.redraws THEN Becomes(t, Reading(t.n)) ELSE tasks' = tasks \ {t}
  /\ UNCHANGED <<page, server, shown, msg, busy, own, form, saved, waiting, ops, patient, failed, missed, crossed>>

Type ==
  /\ MayAct /\ form = "blank" /\ \E o \in OpsHere : o.form # "none"
  /\ form' = "typed" /\ saved' = FALSE
  /\ UNCHANGED <<page, server, shown, msg, busy, own, waiting, tasks, ops, patient, failed, missed, crossed>>

Refresh ==
  /\ MayAct /\ Table[page].refresh /\ Cardinality(tasks) < MaxTasks /\ ops < MaxOps
  /\ ops' = ops + 1
  /\ tasks' = tasks \cup {Reading(ops + 1)}
  /\ UNCHANGED <<page, server, shown, msg, busy, own, form, saved, waiting, patient, failed, missed, crossed>>

\* "Success fades, failure does not."
Fade ==
  /\ msg = "ok" /\ msg' = "none"
  /\ UNCHANGED <<page, server, shown, busy, own, form, saved, waiting, tasks, ops, patient, failed, missed, crossed>>

----------------------------------------------------------------------------
(* The server.                                                             *)

Changed(o, v) == CASE o.effect = "make" -> 1 [] o.effect = "drop" -> 0
                   [] o.effect = "change" -> 3 - v [] o.effect = "none" -> v

\* What is there already is not made, what is gone is not changed.
Possible(o, r) == IF o.effect = "make" THEN server[r] = 0 ELSE server[r] # 0

\* Carried out, or refused, or carried out with the answer lost.
Serve(t) ==
  /\ t.stage = "sent"
  /\ \/ /\ Possible(t.op, t.row)
        /\ server' = [server EXCEPT ![t.row] = Changed(t.op, @)]
        /\ saved' = (saved \/ TakesText(t.op))
        /\ waiting' = IF t.op.tail = "must" /\ waiting[t.row] = Nothing
                      THEN [waiting EXCEPT ![t.row] = server[t.row]] ELSE waiting
        /\ \/ Becomes(t, [t EXCEPT !.stage = "done", !.rows = server']) /\ UNCHANGED missed
           \/ MayFail /\ To(t, "refused") /\ missed' = TRUE
     \/ /\ MayFail \/ ~Possible(t.op, t.row)
        /\ To(t, "refused")
        /\ UNCHANGED <<server, saved, waiting, missed>>
  /\ UNCHANGED <<page, shown, msg, busy, own, form, ops, patient, failed, crossed>>

\* A change that is not confirmed in time is taken back.
TakeBack(r) ==
  /\ waiting[r] # Nothing
  /\ server' = [server EXCEPT ![r] = waiting[r]]
  /\ waiting' = [waiting EXCEPT ![r] = Nothing]
  /\ missed' = TRUE
  /\ UNCHANGED <<page, shown, msg, busy, own, form, saved, tasks, ops, patient, failed, crossed>>

ServeList(t) ==
  /\ t.stage = "list"
  /\ Becomes(t, [t EXCEPT !.stage = "listed", !.rows = server])
  /\ UNCHANGED <<page, server, shown, msg, busy, own, form, saved, waiting, ops, patient, failed, missed, crossed>>

----------------------------------------------------------------------------
(* Answers.                                                                *)

\* (slip) The list is not read again.
RereadsSlip(o, done) == FALSE

Rereads(o, done) == o.reload = "always" \/ (o.reload = "success" /\ done)

FreesNow(o, done) == IF o.frees = "reload" THEN ~Rereads(o, done) ELSE TRUE

\* A flag of the page that is not this handler's any more goes all the same.
Lower(t) ==
  /\ busy' = IF t.op.flags \cap {"page", "row"} # {} THEN "free" ELSE busy
  /\ crossed' = (crossed \/ (busy' # busy /\ busy # IF "page" \in t.op.flags THEN "page" ELSE t.row))

Frees(t, done) ==
  /\ IF FreesNow(t.op, done) \/ "page" \in t.op.flags THEN Lower(t) ELSE UNCHANGED <<busy, crossed>>
  /\ own' = IF FreesNow(t.op, done) /\ (t.op.frees = "success" => done) THEN own \ {t.op.name} ELSE own

GoesOn(t, done) ==
  IF Rereads(t.op, done) THEN Becomes(t, [t EXCEPT !.stage = "list", !.done = done]) ELSE tasks' = tasks \ {t}

\* (slip) The form is emptied whatever the answer.
BlanksSlip(o, done) == o.form # "none"

Blanks(o, done) == done /\ o.form \in {"success", "wipes"}

Ends(t, done, outcome) ==
  /\ msg' = outcome
  /\ Frees(t, done)
  /\ GoesOn(t, done)
  /\ form' = IF Blanks(t.op, done) THEN "blank" ELSE form
  /\ UNCHANGED <<page, server, saved, ops, patient>>

Outcome(o) == CASE o.told = "ok" -> "ok" [] o.told = "keep" -> msg [] o.told = "clear" -> "none"

TakeDone(t) ==
  /\ t.stage = "done"
  /\ IF t.op.tail # "no"
     THEN /\ To(t, "more") /\ msg' = IF t.op.tail = "notes" THEN "ok" ELSE msg
          /\ UNCHANGED <<page, server, shown, busy, own, form, saved, waiting, ops, patient, missed, crossed>>
     ELSE /\ Ends(t, TRUE, Outcome(t.op))
          /\ UNCHANGED waiting
          /\ shown' = IF t.op.reload = "answer" THEN t.rows ELSE shown
          /\ missed' = (missed /\ t.op.reload # "answer")
  /\ UNCHANGED failed

\* The second call: a certificate and WordPress for a new site are worth a
\* note, while a firewall change that is not confirmed has failed, and the
\* server takes it back.
TakeMore(t) ==
  /\ t.stage = "more"
  /\ \/ /\ t.op.tail = "must" => waiting[t.row] # Nothing
        /\ Ends(t, TRUE, "ok") /\ waiting' = [waiting EXCEPT ![t.row] = Nothing] /\ UNCHANGED failed
     \/ MayFail /\ t.op.tail = "notes" /\ Ends(t, TRUE, "warn") /\ UNCHANGED <<waiting, failed>>
     \/ /\ t.op.tail = "must" /\ (MayFail \/ waiting[t.row] = Nothing)
        /\ Ends(t, FALSE, "err") /\ failed' = TRUE /\ UNCHANGED waiting
  /\ UNCHANGED <<shown, missed>>

\* (slip) A failure leaves the flags up.
TakeRefusedSlip(t) ==
  /\ t.stage = "refused"
  /\ msg' = "err" /\ GoesOn(t, FALSE) /\ failed' = TRUE
  /\ UNCHANGED <<page, server, shown, busy, own, form, saved, waiting, ops, patient, missed, crossed>>

TakeRefused(t) ==
  /\ t.stage = "refused"
  /\ Ends(t, FALSE, IF t.op.catches THEN "err" ELSE msg)
  /\ failed' = t.op.catches
  /\ UNCHANGED <<shown, waiting, missed>>

\* A passkey prompt the user waved away is not a failure.
TakeCancelled(t) ==
  /\ t.stage = "sent" /\ t.op.prompts
  /\ Ends(t, FALSE, "none")
  /\ UNCHANGED <<shown, waiting, failed, missed>>

\* The end of a handler that waits for the list.
AfterList(t) ==
  /\ IF t.op.frees = "reload" /\ "page" \notin t.op.flags THEN Lower(t) ELSE UNCHANGED <<busy, crossed>>
  /\ own' = IF t.op.frees = "reload" THEN own \ {t.op.name} ELSE own
  /\ form' = IF t.op.form = "end" /\ t.done THEN "blank" ELSE form
  /\ tasks' = tasks \ {t}
  /\ UNCHANGED <<page, server, saved, waiting, ops, patient, failed>>

\* (slip) A list that arrives takes the message away on every page.
TakeListSlip(t) ==
  /\ t.stage = "listed"
  /\ shown' = t.rows
  /\ msg' = "none" /\ missed' = FALSE
  /\ AfterList(t)

TakeList(t) ==
  /\ t.stage = "listed"
  /\ shown' = t.rows
  /\ msg' = IF Table[page].clears THEN "none" ELSE msg
  /\ missed' = FALSE
  /\ AfterList(t)

TakeNoList(t) ==
  /\ MayFail /\ t.stage = "list"
  /\ shown' = IF Table[page].unlisted = "empties" THEN Empty ELSE shown
  /\ msg' = IF Table[page].unlisted = "silent" THEN msg ELSE "err"
  /\ missed' = TRUE
  /\ AfterList(t)

Answer(t) == Serve(t) \/ ServeList(t) \/ TakeDone(t) \/ TakeMore(t) \/ TakeRefused(t)
             \/ TakeCancelled(t) \/ TakeList(t) \/ TakeNoList(t)

Next ==
  \/ \E o \in OpsHere, r \in Rows : Click(o, r)
  \/ \E t \in tasks : Confirm(t) \/ AskAgain(t) \/ Decline(t) \/ Answer(t)
  \/ Type \/ Refresh \/ Fade
  \/ \E r \in Rows : TakeBack(r)

\* The server answers every call or the browser gives it up, and takes up
\* what arrived.
Spec == Init /\ [][Next]_vars /\ WF_vars(\E t \in tasks : Answer(t))

----------------------------------------------------------------------------
(* What makes a page correct.                                              *)

\* A user who waits and whose operation failed is told so once all is quiet:
\* the list is read again after the failure and must not take the message away
\* (guard and load of every page).  The file manager's does (FailureStays), and
\* two handlers look at no failure (Malware.jsx:421, Import.jsx:56).
FailureIsTold ==
  patient /\ tasks = {} /\ failed /\ ~Table[page].clears => msg = "err"

\* A user who waits sees what is on the server once all is quiet: every handler
\* that changes something reads the list again, or takes it from the answer.
\* Not after a list that could not be read or an answer that was lost.
\* What the server takes back by itself (TakeBack) is not on the page either.
QuietListIsCurrent ==
  patient /\ tasks = {} /\ ~missed /\ (\A o \in OpsHere : o.tail # "must") => shown = server

\* An operation that raises a flag does not run twice on the same row, however
\* fast the user clicks, as long as no handler took the page's one flag over
\* from another row.
RunsOnce ==
  \A t, u \in tasks :
    Running(t) /\ Running(u) /\ t.op = u.op /\ t.row = u.row /\ t # u /\ t.op.gate \in t.op.flags
      => crossed

\* What every state keeps: its types, and no operation run twice.
PagesInv == TypeOK /\ RunsOnce

\* What a user who waits has typed leaves the form only once it has reached
\* the server; the forms that are emptied before the call, and those that
\* close with another operation of their page, do not keep to it.
TextIsKept ==
  [][patient /\ form = "typed" /\ form' = "blank" /\ (\A o \in OpsHere : o.form \notin {"before", "wipes"})
       => saved]_vars

\* "Success fades, failure does not: a customer who looked away must still find
\* out the delete failed" (components.jsx:24-25): for a user who waits, a
\* failure on screen goes only when the user begins something.
FailureStays ==
  [][patient /\ msg = "err" /\ msg' # "err" => \E t \in tasks \cup tasks' : Running(t)]_vars

\* No flag stays up for ever, except the one of the WordPress form of a site,
\* which a failed installation leaves up (Sites.jsx:591-597).
Raised == busy # "free" \/ \E o \in OpsHere : o.frees # "success" /\ o.name \in own
FlagsEnd == Raised ~> ~Raised
=============================================================================
