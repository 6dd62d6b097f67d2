----------------------------- MODULE FileEditor -----------------------------
(***************************************************************************)
(* The editor of the file manager in the browser (web/src/pages/Files.jsx, *)
(* web/src/CodeEditor.jsx): which file is open, what the view shows, what  *)
(* is marked as unsaved, and the calls that read and write the file.       *)
(*                                                                         *)
(* The page keeps an editing object (path and content); the view, which is *)
(* built once per path, reports what is typed into the object it was built *)
(* for.  A call is sent, is carried out or refused by the server, and its  *)
(* answer is taken up, in three steps; answers arrive in any order.  A     *)
(* text is the number of the keystroke that made it, 0 the text at first.  *)
(* A dialog covers the page: nothing is clicked or typed while it is open. *)
(* What else changes a file under the editor (a paste, an upload, another  *)
(* session) is not here; nor is a folder that is deleted or renamed.       *)
(*                                                                         *)
(* A definition marked (slip) is a plausible mistake in the one that       *)
(* follows it and is used nowhere.                                         *)
(***************************************************************************)
EXTENDS Naturals, FiniteSets

CONSTANTS Accounts,   \* hosting accounts the user may choose from
          Paths,      \* files of an account
          Prefixes,   \* pairs of paths whose first is the beginning of the second's name
          Patience,   \* whether the user waits for answers: a subset of BOOLEAN
          MaxKeys,    \* bound: keystrokes
          MaxCalls    \* bound: calls sent

Empty == MaxKeys + 1  \* what a new file holds
Text == 0..Empty
Absent == MaxKeys + 2
Nothing == [path |-> "none"]

\* What the constants have to be.
ConstantsFit ==
  /\ "none" \notin Paths /\ Prefixes \subseteq Paths \X Paths
  /\ \A p \in Paths : <<p, p>> \in Prefixes
  /\ Patience \subseteq BOOLEAN /\ MaxKeys \in Nat /\ MaxCalls \in Nat

VARIABLES disk,     \* what each account's files hold
          account,  \* the account chosen on the page
          editing,  \* the editing object: identity, path, content; of is the account it was read from
          view,     \* the editor's document and the object it reports to
          value,    \* the content of the last render
          dirty,    \* whether the page says there are unsaved changes
          asking,   \* the question on screen
          calls,    \* calls sent and not yet taken up
          sent,     \* calls sent so far
          keys,     \* keystrokes so far
          patient,  \* whether the user waits for an answer before doing more
          kept,     \* history: texts that have been in a file
          dropped   \* history: texts that went out of the page unsaved and unasked

vars == <<disk, account, editing, view, value, dirty, asking, calls, sent, keys, patient, kept, dropped>>

Editing == [id: 1..MaxCalls, path: Paths, of: Accounts, content: Text]
View == [path: Paths, text: Text, into: 1..MaxCalls]
Call == [n: 1..MaxCalls, op: {"open", "save", "create", "touch"}, account: Accounts, path: Paths,
         text: Text \cup {Absent}, of: Accounts, shown: Text, asked: BOOLEAN, stage: {"sent", "done", "refused"}]

TypeOK ==
  /\ disk \in [Accounts \X Paths -> Text \cup {Absent}]
  /\ account \in Accounts
  /\ editing \in Editing \cup {Nothing}
  /\ view \in View \cup {Nothing}
  /\ value \in Text
  /\ dirty \in BOOLEAN
  /\ asking \in [what: {"no", "close"}] \cup [what: {"open", "delete"}, path: Paths, from: Accounts]
  /\ calls \subseteq Call
  /\ sent \in 0..MaxCalls
  /\ keys \in 0..MaxKeys
  /\ patient \in BOOLEAN
  /\ kept \subseteq Text /\ dropped \subseteq Text

Init ==
  /\ disk = [f \in Accounts \X Paths |-> 0]
  /\ account \in Accounts
  /\ editing = Nothing /\ view = Nothing /\ value = 0
  /\ dirty = FALSE
  /\ asking = [what |-> "no"]
  /\ calls = {} /\ sent = 0 /\ keys = 0
  /\ patient \in Patience
  /\ kept = {0} /\ dropped = {}

MayAct == asking.what = "no" /\ (patient => calls = {})

\* What the view holds and no file ever did: lost if the page lets go of it.
Unsaved == IF view = Nothing \/ view.text \in kept THEN {} ELSE {view.text}

----------------------------------------------------------------------------
(* Rendering.  The view is built for a path and reports to the object of   *)
(* that moment; a later object of the same path only brings its content.   *)

Build(e) == [path |-> e.path, text |-> e.content, into |-> e.id]

\* The second effect: the content changed since the last render and is not
\* what the view shows, so the document is replaced, which the listener
\* reports like a keystroke.
Replaces(e) == /\ view # Nothing /\ view.path = e.path
               /\ e.content # value /\ e.content # view.text

Show(e, mark) ==
  /\ editing' = e
  /\ IF e = Nothing
     THEN view' = Nothing /\ value' = value /\ dirty' = mark
     ELSE /\ value' = e.content
          /\ dirty' = (mark \/ Replaces(e))
          /\ view' = IF view = Nothing \/ view.path # e.path THEN Build(e)
                     ELSE IF Replaces(e) THEN [view EXCEPT !.text = e.content] ELSE view

----------------------------------------------------------------------------
(* What the user does.                                                     *)

\* A call is one more in flight, or follows the one whose handler sends it.
SendAfter(done, op, from, path, text, of, shown, asked) ==
  /\ sent < MaxCalls
  /\ sent' = sent + 1
  /\ calls' = (calls \ done) \cup {[n |-> sent + 1, op |-> op, account |-> from, path |-> path,
                                     text |-> text, of |-> of, shown |-> shown,
                                     asked |-> asked, stage |-> "sent"]}

Send(op, path, text, of, shown, asked) == SendAfter({}, op, account, path, text, of, shown, asked)

Question(what, path, from) == [what |-> what, path |-> path, from |-> from]

ChangeAccount(a) ==
  /\ MayAct /\ a # account
  /\ account' = a
  /\ Show(Nothing, dirty)
  /\ dropped' = dropped \cup Unsaved
  /\ UNCHANGED <<disk, asking, calls, sent, keys, patient, kept>>

\* (slip) Nobody is asked about unsaved changes.
ClickFileSlip(p) ==
  /\ MayAct
  /\ Send("open", p, Absent, account, 0, FALSE) /\ UNCHANGED asking
  /\ UNCHANGED <<disk, account, editing, view, value, dirty, keys, patient, kept, dropped>>

\* openEditor up to its request.  With the mark set and no object the body
\* of the question cannot be written, and nothing happens.
ClickFile(p) ==
  /\ MayAct
  /\ \/ dirty /\ editing # Nothing /\ asking' = Question("open", p, account) /\ UNCHANGED <<calls, sent>>
     \/ ~dirty /\ Send("open", p, Absent, account, 0, FALSE) /\ UNCHANGED asking
  /\ UNCHANGED <<disk, account, editing, view, value, dirty, keys, patient, kept, dropped>>

\* Discard them, and the file is asked for.
DiscardAndOpen ==
  /\ asking.what = "open"
  /\ asking' = [what |-> "no"]
  /\ SendAfter({}, "open", asking.from, asking.path, Absent, asking.from, 0, TRUE)
  /\ UNCHANGED <<disk, account, editing, view, value, dirty, keys, patient, kept, dropped>>

\* (slip) The mark is not set.
TypeSlip ==
  /\ MayAct /\ view # Nothing /\ keys < MaxKeys
  /\ keys' = keys + 1
  /\ view' = [view EXCEPT !.text = keys + 1]
  /\ editing' = [editing EXCEPT !.content = keys + 1]
  /\ UNCHANGED <<disk, account, value, dirty, asking, calls, sent, patient, kept, dropped>>

\* The listener of the view: the object it was built for takes the text, the
\* page takes the mark.  Nothing is rendered when the mark was there already.
Type ==
  /\ MayAct /\ view # Nothing /\ keys < MaxKeys
  /\ keys' = keys + 1
  /\ view' = [view EXCEPT !.text = keys + 1]
  /\ LET into == IF view.into = editing.id THEN [editing EXCEPT !.content = keys + 1] ELSE editing
     IN editing' = into /\ value' = IF dirty THEN value ELSE into.content
  /\ dirty' = TRUE
  /\ UNCHANGED <<disk, account, asking, calls, sent, patient, kept, dropped>>

\* saveEditor up to its request, from the button or from Ctrl-S.
Save ==
  /\ MayAct /\ editing # Nothing
  /\ Send("save", editing.path, editing.content, editing.of, view.text, FALSE)
  /\ UNCHANGED <<disk, account, editing, view, value, dirty, asking, keys, patient, kept, dropped>>

Close ==
  /\ MayAct /\ editing # Nothing
  /\ IF dirty THEN /\ asking' = [what |-> "close"]
                   /\ UNCHANGED <<editing, view, value, dirty, dropped>>
              ELSE Show(Nothing, FALSE) /\ UNCHANGED asking /\ dropped' = dropped \cup Unsaved
  /\ UNCHANGED <<disk, account, calls, sent, keys, patient, kept>>

DiscardAndClose ==
  /\ asking.what = "close"
  /\ asking' = [what |-> "no"]
  /\ Show(Nothing, FALSE)
  /\ UNCHANGED <<disk, account, calls, sent, keys, patient, kept, dropped>>

ClickDelete(p) ==
  /\ MayAct
  /\ asking' = Question("delete", p, account)
  /\ UNCHANGED <<disk, account, editing, view, value, dirty, calls, sent, keys, patient, kept, dropped>>

\* The object goes when its name begins with the deleted one, the mark stays.
\* The deletion itself is carried out or refused.
Delete ==
  /\ asking.what = "delete"
  /\ asking' = [what |-> "no"]
  /\ \E d \in {disk[<<account, asking.path>>], Absent} : disk' = [disk EXCEPT ![<<account, asking.path>>] = d]
  /\ IF editing # Nothing /\ <<asking.path, editing.path>> \in Prefixes
     THEN Show(Nothing, dirty) /\ dropped' = dropped \cup Unsaved
     ELSE UNCHANGED <<editing, view, value, dirty, dropped>>
  /\ UNCHANGED <<account, calls, sent, keys, patient, kept>>

\* The object goes when it is of the very file, nobody is asked and the mark
\* stays.  What has the new name already is replaced.
Rename(p, q) ==
  /\ MayAct /\ p # q
  /\ \/ UNCHANGED disk
     \/ /\ disk[<<account, p>>] # Absent
        /\ disk' = [disk EXCEPT ![<<account, p>>] = Absent, ![<<account, q>>] = disk[<<account, p>>]]
  /\ IF editing # Nothing /\ editing.path = p
     THEN Show(Nothing, dirty) /\ dropped' = dropped \cup Unsaved
     ELSE UNCHANGED <<editing, view, value, dirty, dropped>>
  /\ UNCHANGED <<account, asking, calls, sent, keys, patient, kept>>

\* New file: nothing is written over what has that name, asked or not, and then
\* openEditor follows, with the mark and the object of the click ("create"); with
\* a mark and no object it fails there ("touch").
NewFile(p) ==
  /\ MayAct
  /\ Send(IF dirty /\ editing = Nothing THEN "touch" ELSE "create", p, Empty, account, 0, dirty)
  /\ UNCHANGED <<disk, account, editing, view, value, dirty, asking, keys, patient, kept, dropped>>

Cancel ==
  /\ asking.what # "no"
  /\ asking' = [what |-> "no"]
  /\ UNCHANGED <<disk, account, editing, view, value, dirty, calls, sent, keys, patient, kept, dropped>>

----------------------------------------------------------------------------
(* The server, and the answers.                                            *)

\* A read answers with the file; a file too large for the editor, or none,
\* is refused.  A write replaces the file or makes it.
Serve(c) ==
  /\ c.stage = "sent"
  /\ \/ /\ c.op = "open" /\ disk[<<c.account, c.path>>] # Absent
        /\ calls' = (calls \ {c}) \cup {[c EXCEPT !.stage = "done", !.text = disk[<<c.account, c.path>>]]}
        /\ UNCHANGED <<disk, kept>>
     \/ /\ c.op # "open"
        /\ calls' = (calls \ {c}) \cup {[c EXCEPT !.stage = "done"]}
        /\ disk' = [disk EXCEPT ![<<c.account, c.path>>] = c.text]
        /\ kept' = kept \cup {c.text}
     \/ calls' = (calls \ {c}) \cup {[c EXCEPT !.stage = "refused"]} /\ UNCHANGED <<disk, kept>>
  /\ UNCHANGED <<account, editing, view, value, dirty, asking, sent, keys, patient, dropped>>

Opened(c) == [id |-> c.n, path |-> c.path, of |-> c.account, content |-> c.text]

TakeOpen(c) ==
  /\ c.stage = "done" /\ c.op = "open"
  /\ calls' = calls \ {c}
  /\ Show(Opened(c), FALSE)
  /\ dropped' = IF c.asked THEN dropped ELSE dropped \cup Unsaved
  /\ UNCHANGED <<disk, account, asking, sent, keys, patient, kept>>

\* A save that succeeded takes the mark away, whatever is marked by then.
TakeSave(c) ==
  /\ c.stage = "done" /\ c.op = "save"
  /\ calls' = calls \ {c}
  /\ IF editing = Nothing THEN dirty' = FALSE /\ UNCHANGED <<editing, view, value>>
                          ELSE Show(editing, FALSE)
  /\ UNCHANGED <<disk, account, asking, sent, keys, patient, kept, dropped>>

TakeRefusal(c) ==
  /\ c.stage = "refused" /\ c.op \in {"open", "save"}
  /\ calls' = calls \ {c}
  /\ UNCHANGED <<disk, account, editing, view, value, dirty, asking, sent, keys, patient, kept, dropped>>

\* Whatever was answered, the new file is opened: after a question, if there
\* were changes at the click.
TakeCreate(c) ==
  /\ c.stage # "sent" /\ c.op \in {"create", "touch"}
  /\ \/ c.op = "touch" /\ calls' = calls \ {c} /\ UNCHANGED <<asking, sent>>
     \/ /\ c.op = "create" /\ c.asked
        /\ asking' = Question("open", c.path, c.account)
        /\ calls' = calls \ {c} /\ UNCHANGED sent
     \/ /\ c.op = "create" /\ ~c.asked
        /\ SendAfter({c}, "open", c.account, c.path, Absent, c.account, 0, FALSE)
        /\ UNCHANGED asking
  /\ UNCHANGED <<disk, account, editing, view, value, dirty, keys, patient, kept, dropped>>

Answer == \E c \in calls : Serve(c) \/ TakeOpen(c) \/ TakeSave(c) \/ TakeRefusal(c) \/ TakeCreate(c)

Next ==
  \/ \E a \in Accounts : ChangeAccount(a)
  \/ \E p \in Paths : ClickFile(p) \/ ClickDelete(p) \/ NewFile(p)
  \/ \E p, q \in Paths : Rename(p, q)
  \/ DiscardAndOpen \/ DiscardAndClose \/ Delete \/ Cancel
  \/ Type \/ Save \/ Close
  \/ Answer

Spec == Init /\ [][Next]_vars

----------------------------------------------------------------------------
(* What makes the editor correct.                                          *)

\* The view reports to the object the page would save.
Attached == view # Nothing => view.into = editing.id

\* A save carries the text the view shows.  "The view owns the text and only
\* reports changes upward; the parent ... asks for the current one when it
\* saves" (CodeEditor.jsx:48-49).
SavedIsShown == \A c \in calls : c.op = "save" => c.text = c.shown

\* For a user who waits for answers, and while the view reports to the right
\* object: a text that was never in a file is marked as unsaved, so that leaving
\* it asks.  The mark is set by the listener and taken away by three different
\* answers (Files.jsx:119, 132, 610).
UnsavedIsMarked == patient /\ Attached /\ Unsaved # {} => dirty

\* For a user who waits, and while the view reports to the right object: a text
\* goes unsaved and unasked only with the account, with a deletion, or when the
\* file it is of is renamed (Files.jsx:243, 551, 443), never with another file,
\* with a new one or with Close.
LossIsAsked ==
  [][patient /\ Attached /\ dropped' # dropped =>
       account' # account \/ asking.what = "delete" \/ \E q \in Paths : Rename(editing.path, q)]_vars

\* A file is written from the account it was read from, for a user who waits:
\* the editor forgets its file when the account changes (Files.jsx:243).
SaveStaysInAccount == \A c \in calls : patient /\ c.op = "save" => c.account = c.of
=============================================================================
