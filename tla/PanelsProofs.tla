---------------------------- MODULE PanelsProofs ----------------------------
(***************************************************************************)
(* Why the file manager and the cards keep what a user sees and has typed, *)
(* for every set of accounts, files, jobs and cards, as long as the user   *)
(* waits for answers where a property says so.                             *)
(*                                                                         *)
(* The editor (IInv): the view, the editing object and the calls fit       *)
(* together (Shape, Numbered), nothing moves while a call is on its way    *)
(* (OneCall), what is read or written has been in a file (Answers), and a  *)
(* view without a mark shows such a text (CleanIsKept).  Then the listing  *)
(* (ListingInv) and the cards (CardsInv), under the names MCPanels gives   *)
(* their state.                                                            *)
(***************************************************************************)
EXTENDS MCPanels, TLAPS

\* The view and the object come and go together and are of one path; the view
\* shows the content of the object it reports to.
Shape ==
  \/ editing = Nothing /\ view = Nothing
  \/ /\ editing \in Editing /\ view \in View
     /\ view.path = editing.path
     /\ view.into = editing.id => view.text = editing.content

\* Calls are told apart by their numbers, no object is of a call still on its
\* way, and a file that was read is one the editor can hold.
Numbered ==
  /\ view # Nothing => view.into <= sent /\ \A c \in calls : c.n # view.into
  /\ \A c \in calls : c.n <= sent
  /\ \A c, d \in calls : c.n = d.n => c = d
  /\ \A c \in calls : c.op # "open" \/ c.stage = "done" => c.text \in Text
  /\ \A f \in DOMAIN disk : disk[f] \in kept \cup {Absent}

\* A user who waits has one call on its way, and asks nothing meanwhile; the
\* call and the file in the editor are of the account on screen.
OneCall ==
  patient =>
    /\ asking.what # "no" => calls = {}
    /\ asking.what \in {"open", "delete"} => asking.from = account
    /\ \A c, d \in calls : c = d
    /\ \A c \in calls : c.account = account /\ c.of = account
    /\ editing # Nothing => editing.of = account

\* What a call of such a user says of the editor, and of what was in files.
Answers ==
  patient => \A c \in calls :
    /\ c.op \in {"open", "create"} /\ ~c.asked => ~dirty
    /\ c.op = "save" => editing # Nothing /\ c.path = editing.path /\ c.text = editing.content
    /\ c.op \in {"open", "save"} /\ c.stage = "done" => c.text \in kept

\* A view that is not marked shows what has been in a file.
CleanIsKept == patient /\ ~dirty /\ view # Nothing /\ view.into = editing.id => view.text \in kept

IInv == TypeOK /\ Shape /\ Numbered /\ OneCall /\ Answers /\ CleanIsKept

----------------------------------------------------------------------------
(* What the steps are made of.                                             *)

\* An object or a view is not the absence of one.
LEMMA Distinct ==
  ASSUME ConstantsFit
  PROVE  (\A e \in Editing : e # Nothing) /\ (\A v \in View : v # Nothing)
BY DEF ConstantsFit, Editing, View, Nothing

\* A call that is served keeps what it asked for.
LEMMA ServeAnswers ==
  ASSUME TypeOK, NEW c \in calls, Serve(c)
  PROVE  \E d : /\ calls' = (calls \ {c}) \cup {d}
                /\ d.n = c.n /\ d.op = c.op /\ d.account = c.account /\ d.path = c.path
                /\ d.of = c.of /\ d.asked = c.asked /\ d \in Call
                /\ \/ /\ d.stage = "done" /\ c.op = "open" /\ UNCHANGED <<disk, kept>>
                      /\ d.text = disk[<<c.account, c.path>>] /\ d.text # Absent
                   \/ /\ d.stage = "done" /\ c.op # "open" /\ d.text = c.text
                      /\ disk' = [disk EXCEPT ![<<c.account, c.path>>] = c.text] /\ kept' = kept \cup {c.text}
                   \/ d.stage = "refused" /\ d.text = c.text /\ UNCHANGED <<disk, kept>>
<1> DEFINE read == [c EXCEPT !.stage = "done", !.text = disk[<<c.account, c.path>>]]
           wrote == [c EXCEPT !.stage = "done"]
           no == [c EXCEPT !.stage = "refused"]
<1>1. c \in Call /\ disk[<<c.account, c.path>>] \in Text \cup {Absent}
  BY DEF TypeOK, Call
<1>2. read \in Call /\ wrote \in Call /\ no \in Call
  BY <1>1 DEF Call
<1>3. /\ read.n = c.n /\ read.op = c.op /\ read.account = c.account /\ read.path = c.path
      /\ read.of = c.of /\ read.asked = c.asked /\ read.stage = "done"
      /\ read.text = disk[<<c.account, c.path>>]
  BY <1>1 DEF Call
<1>4. /\ wrote.n = c.n /\ wrote.op = c.op /\ wrote.account = c.account /\ wrote.path = c.path
      /\ wrote.of = c.of /\ wrote.asked = c.asked /\ wrote.stage = "done" /\ wrote.text = c.text
  BY <1>1 DEF Call
<1>5. /\ no.n = c.n /\ no.op = c.op /\ no.account = c.account /\ no.path = c.path
      /\ no.of = c.of /\ no.asked = c.asked /\ no.stage = "refused" /\ no.text = c.text
  BY <1>1 DEF Call
<1> HIDE DEF read, wrote, no
<1>6. \/ /\ c.op = "open" /\ disk[<<c.account, c.path>>] # Absent
         /\ calls' = (calls \ {c}) \cup {read} /\ UNCHANGED <<disk, kept>>
      \/ /\ c.op # "open" /\ calls' = (calls \ {c}) \cup {wrote}
         /\ disk' = [disk EXCEPT ![<<c.account, c.path>>] = c.text] /\ kept' = kept \cup {c.text}
      \/ calls' = (calls \ {c}) \cup {no} /\ UNCHANGED <<disk, kept>>
  BY DEF Serve, read, wrote, no
<1> QED BY <1>2, <1>3, <1>4, <1>5, <1>6

\* Showing an object builds its view, brings the view its content, or leaves it.
LEMMA ShowShows ==
  ASSUME ConstantsFit, Shape, value \in Text, NEW e \in Editing, NEW mark \in BOOLEAN, Show(e, mark)
  PROVE  /\ editing' = e /\ view' \in View /\ view'.path = e.path
         /\ value' \in Text /\ dirty' \in BOOLEAN
         /\ view = Nothing \/ view.path # e.path
              => view'.into = e.id /\ view'.text = e.content
         /\ view # Nothing /\ view.path = e.path => view'.into = view.into
         /\ view # Nothing /\ view.path = e.path /\ view.text = e.content
              => view'.text = e.content /\ dirty' = mark
<1>1. e # Nothing /\ e.path \in Paths /\ e.content \in Text /\ e.id \in 1..MaxCalls
  BY Distinct DEF Editing
<1>2. editing' = e /\ value' = e.content /\ dirty' = (mark \/ Replaces(e))
  BY <1>1 DEF Show
<1>3. view' = IF view = Nothing \/ view.path # e.path THEN Build(e)
              ELSE IF Replaces(e) THEN [view EXCEPT !.text = e.content] ELSE view
  BY <1>1 DEF Show
<1>4. CASE view = Nothing \/ view.path # e.path
  <2>1. view' = Build(e)
    BY <1>3, <1>4
  <2>2. view' \in View /\ view'.path = e.path /\ view'.into = e.id /\ view'.text = e.content
    BY <1>1, <2>1 DEF Build, View
  <2> QED BY <1>1, <1>2, <1>4, <2>2 DEF Replaces
<1>5. CASE view # Nothing /\ view.path = e.path
  <2>1. view \in View
    BY <1>5 DEF Shape
  <2>2. CASE Replaces(e)
    <3>1. view' = [view EXCEPT !.text = e.content]
      BY <1>3, <1>5, <2>2
    <3>2. view' \in View /\ view'.path = e.path /\ view'.into = view.into
      BY <1>1, <1>5, <2>1, <3>1 DEF View
    <3>3. view.text # e.content
      BY <2>2 DEF Replaces
    <3> QED BY <1>1, <1>2, <1>5, <2>2, <3>2, <3>3
  <2>3. CASE ~Replaces(e)
    <3>1. view' = view
      BY <1>3, <1>5, <2>3
    <3> QED BY <1>1, <1>2, <1>5, <2>1, <2>3, <3>1
  <2> QED BY <2>2, <2>3
<1> QED BY <1>4, <1>5

----------------------------------------------------------------------------
(* Each action keeps the invariant.                                        *)

LEMMA ChangeAccountKeeps ==
  ASSUME ConstantsFit, IInv, NEW a \in Accounts, ChangeAccount(a)
  PROVE  IInv'
<1>1. editing' = Nothing /\ view' = Nothing /\ dirty' = dirty /\ value' = value
  BY DEF ChangeAccount, Show
<1>2. TypeOK'
  BY <1>1 DEF IInv, TypeOK, Shape, ChangeAccount, Unsaved, View
<1>3. Shape' /\ Numbered' /\ CleanIsKept'
  BY <1>1 DEF IInv, Shape, Numbered, CleanIsKept, ChangeAccount
<1>4. OneCall' /\ Answers'
  BY <1>1 DEF IInv, OneCall, Answers, ChangeAccount, MayAct
<1> QED BY <1>2, <1>3, <1>4 DEF IInv

\* What a new call has to be for the invariant to go on.
LEMMA SendKeeps ==
  ASSUME ConstantsFit, IInv, NEW done \in SUBSET calls,
         NEW op \in {"open", "save", "create", "touch"}, NEW from \in Accounts, NEW p \in Paths,
         NEW text \in Text \cup {Absent}, NEW of \in Accounts, NEW was \in Text, NEW asked \in BOOLEAN,
         SendAfter(done, op, from, p, text, of, was, asked),
         UNCHANGED <<disk, account, editing, view, value, dirty, keys, patient, kept, dropped>>,
         asking' = asking \/ asking' = [what |-> "no"], op # "open" => text \in Text,
         patient => /\ asking'.what = "no" /\ calls = done /\ of = account /\ from = account
                    /\ op \in {"open", "create"} /\ ~asked => ~dirty
                    /\ op = "save" => editing # Nothing /\ p = editing.path /\ text = editing.content
  PROVE  IInv'
<1> DEFINE d == [n |-> sent + 1, op |-> op, account |-> from, path |-> p, text |-> text,
                 of |-> of, shown |-> was, asked |-> asked, stage |-> "sent"]
<1>1. sent + 1 \in 1..MaxCalls /\ sent' = sent + 1 /\ sent' \in 0..MaxCalls /\ calls' = (calls \ done) \cup {d}
  BY DEF ConstantsFit, IInv, TypeOK, SendAfter
<1>2. /\ d \in Call /\ d.n = sent + 1 /\ d.op = op /\ d.account = from /\ d.path = p
      /\ d.text = text /\ d.of = of /\ d.asked = asked /\ d.stage = "sent"
  BY <1>1 DEF Call
<1> HIDE DEF d
<1>3. TypeOK'
  BY <1>1, <1>2 DEF IInv, TypeOK
<1>4. Shape' /\ CleanIsKept'
  BY DEF IInv, Shape, CleanIsKept
<1>5. Numbered'
  <2>1. sent \in Nat /\ (view # Nothing => view.into \in Nat) /\ \A c \in calls : c.n \in Nat
    BY DEF IInv, TypeOK, Shape, View, Call
  <2> QED BY <1>1, <1>2, <2>1 DEF IInv, Numbered
<1>6. OneCall'
  BY <1>1, <1>2 DEF IInv, OneCall
<1>7. Answers'
  BY <1>1, <1>2 DEF IInv, Answers
<1> QED BY <1>3, <1>4, <1>5, <1>6, <1>7 DEF IInv

LEMMA ClickFileKeeps ==
  ASSUME ConstantsFit, IInv, NEW p \in Paths, ClickFile(p)
  PROVE  IInv'
<1>1. CASE dirty /\ editing # Nothing /\ asking' = Question("open", p, account) /\ UNCHANGED <<calls, sent>>
  <2>1. UNCHANGED <<disk, account, editing, view, value, dirty, keys, patient, kept, dropped>>
    BY DEF ClickFile
  <2>2. TypeOK'
    BY <1>1, <2>1 DEF IInv, TypeOK, Question
  <2>3. Shape' /\ Numbered' /\ Answers' /\ CleanIsKept'
    BY <1>1, <2>1 DEF IInv, Shape, Numbered, Answers, CleanIsKept
  <2>4. OneCall'
    BY <1>1, <2>1 DEF IInv, OneCall, ClickFile, MayAct, Question
  <2> QED BY <2>2, <2>3, <2>4 DEF IInv
<1>2. CASE ~dirty /\ Send("open", p, Absent, account, 0, FALSE) /\ UNCHANGED asking
  <2>1. UNCHANGED <<disk, account, editing, view, value, dirty, keys, patient, kept, dropped>>
    BY DEF ClickFile
  <2>2. asking' = [what |-> "no"]
    BY <1>2 DEF ClickFile, MayAct, IInv, TypeOK
  <2>3. account \in Accounts /\ 0 \in Text /\ (patient => calls = {})
    BY DEF IInv, TypeOK, ClickFile, MayAct, ConstantsFit, Text, Empty
  <2>4. SendAfter({}, "open", account, p, Absent, account, 0, FALSE)
    BY <1>2 DEF Send
  <2>5. asking'.what = "no" /\ {} \in SUBSET calls
    BY <2>2
  <2> QED BY <1>2, <2>1, <2>2, <2>3, <2>4, <2>5, SendKeeps
<1> QED BY <1>1, <1>2 DEF ClickFile

LEMMA DiscardAndOpenKeeps ==
  ASSUME ConstantsFit, IInv, DiscardAndOpen
  PROVE  IInv'
<1>1. /\ SendAfter({}, "open", asking.from, asking.path, Absent, asking.from, 0, TRUE) /\ asking' = [what |-> "no"]
      /\ UNCHANGED <<disk, account, editing, view, value, dirty, keys, patient, kept, dropped>>
  BY DEF DiscardAndOpen
<1>2. asking.path \in Paths /\ asking.from \in Accounts /\ 0 \in Text /\ (patient => calls = {} /\ asking.from = account)
  BY DEF IInv, TypeOK, OneCall, DiscardAndOpen, ConstantsFit, Text, Empty
<1>3. asking'.what = "no" /\ {} \in SUBSET calls
  BY <1>1
<1> QED BY <1>1, <1>2, <1>3, SendKeeps

LEMMA SaveKeeps ==
  ASSUME ConstantsFit, IInv, Save
  PROVE  IInv'
<1>1. /\ SendAfter({}, "save", account, editing.path, editing.content, editing.of, view.text, FALSE)
      /\ UNCHANGED <<disk, account, editing, view, value, dirty, asking, keys, patient, kept, dropped>>
      /\ editing # Nothing /\ (patient => calls = {}) /\ account \in Accounts
  BY DEF Save, MayAct, Send, IInv, TypeOK
<1>2. asking' = [what |-> "no"]
  BY <1>1 DEF IInv, TypeOK, Save, MayAct
<1>3. /\ editing.path \in Paths /\ editing.content \in Text /\ editing.of \in Accounts
      /\ view.text \in Text /\ (patient => editing.of = account)
  BY <1>1 DEF IInv, Shape, OneCall, Editing, View
<1>4. asking'.what = "no" /\ {} \in SUBSET calls
  BY <1>1, <1>2, <1>3
<1> QED BY <1>1, <1>2, <1>3, <1>4, SendKeeps

LEMMA TypeKeeps ==
  ASSUME ConstantsFit, IInv, Type
  PROVE  IInv'
<1> DEFINE text == keys + 1
           into == IF view.into = editing.id THEN [editing EXCEPT !.content = text] ELSE editing
<1>1. /\ keys' = text /\ view' = [view EXCEPT !.text = text] /\ editing' = into
      /\ value' = (IF dirty THEN value ELSE into.content) /\ dirty' = TRUE
      /\ UNCHANGED <<disk, account, asking, calls, sent, patient, kept, dropped>>
  BY DEF Type
<1>2. text \in Text
  BY DEF Type, IInv, TypeOK, ConstantsFit, Text, Empty
<1>3. view \in View /\ editing \in Editing
  BY DEF Type, IInv, Shape
<1>4. /\ view' \in View /\ view'.path = view.path /\ view'.into = view.into /\ view'.text = text
  BY <1>1, <1>2, <1>3 DEF View
<1>5. /\ into \in Editing /\ into.path = editing.path /\ into.of = editing.of /\ into.id = editing.id
      /\ into.content \in Text /\ (view.into = editing.id => into.content = text)
  BY <1>2, <1>3 DEF Editing
<1> HIDE DEF text, into
<1>6. value' \in Text
  BY <1>1, <1>5 DEF IInv, TypeOK
<1>7. TypeOK'
  BY <1>1, <1>4, <1>5, <1>6 DEF IInv, TypeOK, Type, ConstantsFit
<1>8. Shape'
  BY <1>1, <1>3, <1>4, <1>5, Distinct DEF IInv, Shape
<1>9. Numbered' /\ CleanIsKept'
  BY <1>1, <1>3, <1>4, Distinct DEF IInv, Numbered, CleanIsKept
<1>10. OneCall' /\ Answers'
  BY <1>1, <1>3, <1>5, Distinct DEF IInv, OneCall, Answers, Type, MayAct
<1> QED BY <1>7, <1>8, <1>9, <1>10 DEF IInv

\* The view and the object go, and no call depends on them.
LEMMA LetsGo ==
  ASSUME ConstantsFit, IInv, Show(Nothing, dirty'), dirty' \in BOOLEAN, patient => calls = {},
         asking' = [what |-> "no"], dropped' \subseteq Text, disk' \in [Accounts \X Paths -> Text \cup {Absent}],
         \A f \in DOMAIN disk' : disk'[f] \in kept \cup {Absent},
         UNCHANGED <<account, calls, sent, keys, patient, kept>>
  PROVE  IInv'
<1>1. editing' = Nothing /\ view' = Nothing /\ value' = value
  BY DEF Show
<1>2. TypeOK'
  BY <1>1 DEF IInv, TypeOK
<1>3. Shape' /\ Numbered' /\ CleanIsKept'
  BY <1>1 DEF IInv, Shape, Numbered, CleanIsKept
<1>4. OneCall' /\ Answers'
  BY <1>1 DEF IInv, OneCall, Answers
<1> QED BY <1>2, <1>3, <1>4 DEF IInv

\* What goes unsaved is a text.
LEMMA UnsavedIsText ==
  ASSUME IInv
  PROVE  Unsaved \subseteq Text
BY DEF IInv, Shape, Unsaved, View

\* A step that changes only the question, while nothing is on its way.
LEMMA AskKeeps ==
  ASSUME IInv, patient /\ asking'.what # "no" => calls = {},
         asking' \in [what: {"no", "close"}] \cup [what: {"open", "delete"}, path: Paths, from: Accounts],
         asking'.what \in {"open", "delete"} => asking'.from = account,
         UNCHANGED <<disk, account, editing, view, value, dirty, calls, sent, keys, patient, kept, dropped>>
  PROVE  IInv'
<1>1. TypeOK'
  BY DEF IInv, TypeOK
<1>2. Shape' /\ Numbered' /\ OneCall' /\ Answers' /\ CleanIsKept'
  BY DEF IInv, Shape, Numbered, OneCall, Answers, CleanIsKept
<1> QED BY <1>1, <1>2 DEF IInv

LEMMA CloseKeeps ==
  ASSUME ConstantsFit, IInv, Close
  PROVE  IInv'
<1>1. CASE dirty
  <2>1. asking' = [what |-> "close"] /\ (patient => calls = {})
        /\ UNCHANGED <<disk, account, editing, view, value, dirty, calls, sent, keys, patient, kept, dropped>>
    BY <1>1 DEF Close, MayAct
  <2> QED BY <2>1, AskKeeps
<1>2. CASE ~dirty
  <2>1. /\ Show(Nothing, FALSE) /\ UNCHANGED <<disk, account, asking, calls, sent, keys, patient, kept>>
        /\ dropped' = dropped \cup Unsaved /\ (patient => calls = {}) /\ asking.what = "no"
    BY <1>2 DEF Close, MayAct
  <2>2. dirty' = FALSE
    BY <2>1 DEF Show
  <2>3. /\ asking' = [what |-> "no"] /\ dropped' \subseteq Text /\ disk' \in [Accounts \X Paths -> Text \cup {Absent}]
        /\ \A f \in DOMAIN disk' : disk'[f] \in kept \cup {Absent}
    BY <2>1, UnsavedIsText DEF IInv, TypeOK, Numbered
  <2> QED BY <2>1, <2>2, <2>3, LetsGo
<1> QED BY <1>1, <1>2

LEMMA DiscardAndCloseKeeps ==
  ASSUME ConstantsFit, IInv, DiscardAndClose
  PROVE  IInv'
<1>1. /\ Show(Nothing, FALSE) /\ asking' = [what |-> "no"]
      /\ UNCHANGED <<disk, account, calls, sent, keys, patient, kept, dropped>>
      /\ (patient => calls = {})
  BY DEF DiscardAndClose, IInv, OneCall
<1>2. dirty' = FALSE
  BY <1>1 DEF Show
<1>3. /\ dropped' \subseteq Text /\ disk' \in [Accounts \X Paths -> Text \cup {Absent}]
      /\ \A f \in DOMAIN disk' : disk'[f] \in kept \cup {Absent}
  BY <1>1 DEF IInv, TypeOK, Numbered
<1> QED BY <1>1, <1>2, <1>3, LetsGo

\* A deletion and a renaming change no text, and the editor is left or not.
LEMMA FileGoesKeeps ==
  ASSUME ConstantsFit, IInv, NEW left \in BOOLEAN,
         IF left THEN Show(Nothing, dirty) /\ dropped' = dropped \cup Unsaved
                 ELSE UNCHANGED <<editing, view, value, dirty, dropped>>,
         disk' \in [Accounts \X Paths -> Text \cup {Absent}], \A f \in DOMAIN disk' : disk'[f] \in kept \cup {Absent},
         asking' = [what |-> "no"], UNCHANGED <<account, calls, sent, keys, patient, kept>>, patient => calls = {}
  PROVE  IInv'
<1>1. CASE left
  <2>1. Show(Nothing, dirty) /\ dropped' = dropped \cup Unsaved
    BY <1>1
  <2>2. dirty' = dirty /\ dirty \in BOOLEAN
    BY <2>1 DEF Show, IInv, TypeOK
  <2>3. dropped' \subseteq Text
    BY <2>1, UnsavedIsText DEF IInv, TypeOK
  <2> QED BY <2>1, <2>2, <2>3, LetsGo
<1>2. CASE ~left
  <2>1. UNCHANGED <<editing, view, value, dirty, dropped>>
    BY <1>2
  <2>2. TypeOK'
    BY <2>1 DEF IInv, TypeOK
  <2>3. Shape' /\ Numbered' /\ OneCall' /\ Answers' /\ CleanIsKept'
    BY <2>1 DEF IInv, Shape, Numbered, OneCall, Answers, CleanIsKept
  <2> QED BY <2>2, <2>3 DEF IInv
<1> QED BY <1>1, <1>2

LEMMA DeleteKeeps ==
  ASSUME ConstantsFit, IInv, Delete
  PROVE  IInv'
<1> DEFINE left == editing # Nothing /\ <<asking.path, editing.path>> \in Prefixes
<1>1. /\ asking' = [what |-> "no"] /\ UNCHANGED <<account, calls, sent, keys, patient, kept>>
      /\ account \in Accounts /\ asking.path \in Paths /\ (patient => calls = {})
  BY DEF Delete, IInv, TypeOK, OneCall
<1>2. PICK d \in {disk[<<account, asking.path>>], Absent} : disk' = [disk EXCEPT ![<<account, asking.path>>] = d]
  BY DEF Delete
<1>3. /\ disk' \in [Accounts \X Paths -> Text \cup {Absent}]
      /\ \A f \in DOMAIN disk' : disk'[f] \in kept \cup {Absent}
  BY <1>1, <1>2 DEF IInv, TypeOK, Numbered
<1>4. IF left THEN Show(Nothing, dirty) /\ dropped' = dropped \cup Unsaved
              ELSE UNCHANGED <<editing, view, value, dirty, dropped>>
  BY DEF Delete
<1>5. left \in BOOLEAN
  OBVIOUS
<1> HIDE DEF left
<1> QED BY <1>1, <1>3, <1>4, <1>5, FileGoesKeeps

LEMMA RenameKeeps ==
  ASSUME ConstantsFit, IInv, NEW p \in Paths, NEW q \in Paths, Rename(p, q)
  PROVE  IInv'
<1> DEFINE left == editing # Nothing /\ editing.path = p
           moved == disk[<<account, p>>]
<1>1. /\ asking' = [what |-> "no"] /\ UNCHANGED <<account, calls, sent, keys, patient, kept>>
      /\ account \in Accounts /\ (patient => calls = {})
  BY DEF Rename, IInv, TypeOK, OneCall, MayAct
<1>2. \/ disk' = disk
      \/ disk' = [disk EXCEPT ![<<account, p>>] = Absent, ![<<account, q>>] = moved]
  BY DEF Rename
<1>3. moved \in Text \cup {Absent} /\ moved \in kept \cup {Absent}
  BY <1>1 DEF IInv, TypeOK, Numbered
<1> HIDE DEF moved
<1>4. /\ disk' \in [Accounts \X Paths -> Text \cup {Absent}]
      /\ \A f \in DOMAIN disk' : disk'[f] \in kept \cup {Absent}
  BY <1>1, <1>2, <1>3 DEF IInv, TypeOK, Numbered
<1>5. IF left THEN Show(Nothing, dirty) /\ dropped' = dropped \cup Unsaved
              ELSE UNCHANGED <<editing, view, value, dirty, dropped>>
  BY DEF Rename
<1>6. left \in BOOLEAN
  OBVIOUS
<1> HIDE DEF left
<1> QED BY <1>1, <1>4, <1>5, <1>6, FileGoesKeeps

LEMMA NewFileKeeps ==
  ASSUME ConstantsFit, IInv, NEW p \in Paths, NewFile(p)
  PROVE  IInv'
<1> DEFINE op == IF dirty /\ editing = Nothing THEN "touch" ELSE "create"
<1>1. /\ SendAfter({}, op, account, p, Empty, account, 0, dirty)
      /\ UNCHANGED <<disk, account, editing, view, value, dirty, asking, keys, patient, kept, dropped>>
      /\ (patient => calls = {})
  BY DEF NewFile, Send, MayAct
<1>2. /\ asking' = [what |-> "no"] /\ account \in Accounts /\ dirty \in BOOLEAN
      /\ 0 \in Text /\ Empty \in Text
  BY DEF IInv, TypeOK, NewFile, MayAct, ConstantsFit, Text, Empty
<1>3. op \in {"create", "touch"}
  OBVIOUS
<1> HIDE DEF op
<1> QED BY <1>1, <1>2, <1>3, SendKeeps

\* What was in a file stays known, and what is read or written comes to be.
LEMMA ServeKeeps ==
  ASSUME ConstantsFit, IInv, NEW c \in calls, Serve(c)
  PROVE  IInv'
<1>1. UNCHANGED <<account, editing, view, value, dirty, asking, sent, keys, patient, dropped>>
  BY DEF Serve
<1>2. c \in Call /\ c.n <= sent /\ disk \in [Accounts \X Paths -> Text \cup {Absent}]
  BY DEF IInv, TypeOK, Numbered
<1>3. PICK d : /\ calls' = (calls \ {c}) \cup {d}
               /\ d.n = c.n /\ d.op = c.op /\ d.account = c.account /\ d.path = c.path
               /\ d.of = c.of /\ d.asked = c.asked /\ d \in Call
               /\ \/ /\ d.stage = "done" /\ c.op = "open" /\ UNCHANGED <<disk, kept>>
                     /\ d.text = disk[<<c.account, c.path>>] /\ d.text # Absent
                  \/ /\ d.stage = "done" /\ c.op # "open" /\ d.text = c.text
                     /\ disk' = [disk EXCEPT ![<<c.account, c.path>>] = c.text] /\ kept' = kept \cup {c.text}
                  \/ d.stage = "refused" /\ d.text = c.text /\ UNCHANGED <<disk, kept>>
  BY ServeAnswers DEF IInv
<1>4. c.text \in Text \cup {Absent} /\ <<c.account, c.path>> \in Accounts \X Paths
      /\ d.text \in Text \cup {Absent} /\ (c.op # "open" => c.text \in Text)
  BY <1>2, <1>3 DEF Call, IInv, Numbered
<1>5. /\ disk' \in [Accounts \X Paths -> Text \cup {Absent}] /\ kept \subseteq kept' /\ kept' \subseteq Text
      /\ \A f \in DOMAIN disk' : disk'[f] \in kept' \cup {Absent}
      /\ d.stage = "done" => d.text \in kept'
  BY <1>2, <1>3, <1>4 DEF IInv, TypeOK, Numbered
<1>6. TypeOK'
  BY <1>1, <1>3, <1>5 DEF IInv, TypeOK
<1>7. Shape'
  BY <1>1 DEF IInv, Shape
<1>8. Numbered'
  BY <1>1, <1>2, <1>3, <1>4, <1>5 DEF IInv, Numbered
<1>9. OneCall'
  BY <1>1, <1>3 DEF IInv, OneCall
<1>10. patient => calls = {c} /\ calls' = {d}
  BY <1>3 DEF IInv, OneCall
<1>11. Answers'
  BY <1>1, <1>3, <1>5, <1>10 DEF IInv, Answers
<1>12. CleanIsKept'
  BY <1>1, <1>5 DEF IInv, CleanIsKept
<1> QED BY <1>6, <1>7, <1>8, <1>9, <1>11, <1>12 DEF IInv

LEMMA TakeOpenKeeps ==
  ASSUME ConstantsFit, IInv, NEW c \in calls, TakeOpen(c)
  PROVE  IInv'
<1> DEFINE e == Opened(c)
<1>1. /\ c.stage = "done" /\ c.op = "open" /\ calls' = calls \ {c} /\ Show(e, FALSE)
      /\ UNCHANGED <<disk, account, asking, sent, keys, patient, kept>>
      /\ dropped' = IF c.asked THEN dropped ELSE dropped \cup Unsaved
  BY DEF TakeOpen
<1>2. c \in Call /\ c.text \in Text /\ c.n <= sent
  BY <1>1 DEF IInv, TypeOK, Numbered
<1>3. /\ e \in Editing /\ e.id = c.n /\ e.path = c.path /\ e.of = c.account /\ e.content = c.text
  BY <1>2 DEF Opened, Editing, Call
<1> HIDE DEF e
<1>4. /\ editing' = e /\ view' \in View /\ view'.path = e.path /\ value' \in Text /\ dirty' \in BOOLEAN
      /\ view = Nothing \/ view.path # e.path => view'.into = e.id /\ view'.text = e.content
      /\ view # Nothing /\ view.path = e.path => view'.into = view.into
      /\ view # Nothing /\ view.path = e.path /\ view.text = e.content
           => view'.text = e.content /\ dirty' = FALSE
  BY <1>1, <1>3, ShowShows DEF IInv, TypeOK
<1>5. dropped' \subseteq Text
  BY <1>1, UnsavedIsText DEF IInv, TypeOK
<1>6. TypeOK'
  BY <1>1, <1>3, <1>4, <1>5 DEF IInv, TypeOK
<1>7. patient => calls = {c} /\ calls' = {}
  BY <1>1 DEF IInv, OneCall
<1>8. Numbered'
  <2>1. CASE view = Nothing \/ view.path # e.path
    <3>1. view'.into = c.n
      BY <1>3, <1>4, <2>1
    <3> QED BY <1>1, <1>2, <3>1 DEF IInv, Numbered
  <2>2. CASE view # Nothing /\ view.path = e.path
    <3>1. view'.into = view.into
      BY <1>4, <2>2
    <3> QED BY <1>1, <2>2, <3>1 DEF IInv, Numbered
  <2> QED BY <2>1, <2>2
<1>9. OneCall' /\ Answers'
  BY <1>1, <1>3, <1>4, <1>7 DEF IInv, OneCall, Answers
<1>10. CleanIsKept'
  BY <1>1, <1>3, <1>4, <1>7 DEF IInv, Numbered, Answers, CleanIsKept
<1>11. Shape'
  BY <1>1, <1>3, <1>4, Distinct DEF IInv, Shape, Numbered
<1> QED BY <1>6, <1>8, <1>9, <1>10, <1>11 DEF IInv

\* What was saved is what the view shows, so the mark may go.
LEMMA TakeSaveKeeps ==
  ASSUME ConstantsFit, IInv, NEW c \in calls, TakeSave(c)
  PROVE  IInv'
<1>1. /\ c.stage = "done" /\ c.op = "save" /\ calls' = calls \ {c}
      /\ UNCHANGED <<disk, account, asking, sent, keys, patient, kept, dropped>>
  BY DEF TakeSave
<1>2. patient => calls = {c} /\ calls' = {}
  BY <1>1 DEF IInv, OneCall
<1>3. CASE editing = Nothing
  <2>1. dirty' = FALSE /\ UNCHANGED <<editing, view, value>> /\ view = Nothing
    BY <1>3, Distinct DEF TakeSave, IInv, Shape
  <2>2. TypeOK'
    BY <1>1, <2>1 DEF IInv, TypeOK
  <2>3. Shape' /\ Numbered' /\ OneCall' /\ CleanIsKept'
    BY <1>1, <2>1 DEF IInv, Shape, Numbered, OneCall, CleanIsKept
  <2>4. Answers'
    BY <1>1, <1>2, <2>1 DEF Answers
  <2> QED BY <2>2, <2>3, <2>4 DEF IInv
<1>4. CASE editing # Nothing
  <2>1. Show(editing, FALSE) /\ editing \in Editing /\ view \in View /\ view # Nothing /\ view.path = editing.path
    BY <1>4, Distinct DEF TakeSave, IInv, Shape
  <2>2. /\ editing' = editing /\ view' \in View /\ view'.path = editing.path
        /\ value' \in Text /\ dirty' \in BOOLEAN /\ view'.into = view.into
        /\ view.text = editing.content => view'.text = editing.content
    BY <2>1, ShowShows DEF IInv, TypeOK
  <2>3. TypeOK'
    BY <1>1, <2>1, <2>2 DEF IInv, TypeOK
  <2>4. Shape' /\ Numbered'
    BY <1>1, <2>1, <2>2, Distinct DEF IInv, Shape, Numbered
  <2>5. OneCall' /\ Answers'
    BY <1>1, <1>2, <2>2 DEF IInv, OneCall, Answers
  <2>6. CleanIsKept'
    <3>1. SUFFICES ASSUME patient, view.into = editing.id PROVE view'.text \in kept
      BY <1>1, <2>2 DEF CleanIsKept
    <3>2. view'.text = editing.content
      BY <2>1, <2>2, <3>1, Distinct DEF IInv, Shape
    <3>3. c.text = editing.content /\ c.text \in kept
      BY <1>1, <3>1 DEF IInv, Answers
    <3> QED BY <3>2, <3>3
  <2> QED BY <2>3, <2>4, <2>5, <2>6 DEF IInv
<1> QED BY <1>3, <1>4

LEMMA TakeRefusalKeeps ==
  ASSUME IInv, NEW c \in calls, TakeRefusal(c)
  PROVE  IInv'
<1>1. /\ calls' = calls \ {c}
      /\ UNCHANGED <<disk, account, editing, view, value, dirty, asking, sent, keys, patient, kept, dropped>>
  BY DEF TakeRefusal
<1>2. TypeOK'
  BY <1>1 DEF IInv, TypeOK
<1>3. Shape' /\ Numbered' /\ CleanIsKept'
  BY <1>1 DEF IInv, Shape, Numbered, CleanIsKept
<1>4. OneCall' /\ Answers'
  BY <1>1 DEF IInv, OneCall, Answers
<1> QED BY <1>2, <1>3, <1>4 DEF IInv

\* After a new file the page asks, or opens it.
LEMMA TakeCreateKeeps ==
  ASSUME ConstantsFit, IInv, NEW c \in calls, TakeCreate(c)
  PROVE  IInv'
<1>1. /\ UNCHANGED <<disk, account, editing, view, value, dirty, keys, patient, kept, dropped>>
      /\ c \in Call /\ (patient => calls = {c} /\ c.account = account /\ asking.what = "no")
  BY DEF TakeCreate, IInv, TypeOK, OneCall
<1>2. CASE calls' = calls \ {c} /\ UNCHANGED sent /\ (UNCHANGED asking \/ asking' = Question("open", c.path, c.account))
  <2>1. TypeOK'
    BY <1>1, <1>2 DEF IInv, TypeOK, Call, Question
  <2>2. Shape' /\ Numbered' /\ Answers' /\ CleanIsKept'
    BY <1>1, <1>2 DEF IInv, Shape, Numbered, Answers, CleanIsKept
  <2>3. OneCall'
    BY <1>1, <1>2 DEF IInv, OneCall, Question
  <2> QED BY <2>1, <2>2, <2>3 DEF IInv
<1>3. CASE ~c.asked /\ c.op = "create" /\ UNCHANGED asking
           /\ SendAfter({c}, "open", c.account, c.path, Absent, c.account, 0, FALSE)
  <2>1. c.account \in Accounts /\ c.path \in Paths /\ 0 \in Text /\ (patient => ~dirty)
    BY <1>1, <1>3 DEF Call, Text, Empty, ConstantsFit, IInv, Answers
  <2> QED BY <1>1, <1>3, <2>1, SendKeeps
<1> QED BY <1>2, <1>3 DEF TakeCreate

----------------------------------------------------------------------------
(* The invariant and the properties.                                       *)

LEMMA Initially ==
  ASSUME ConstantsFit, Init
  PROVE  IInv
<1>1. TypeOK
  <2>1. 0 \in Text /\ 0 \in 0..MaxCalls
    BY DEF ConstantsFit, Text, Empty
  <2>2. patient \in BOOLEAN
    BY DEF Init, ConstantsFit
  <2>3. /\ disk \in [Accounts \X Paths -> Text \cup {Absent}]
        /\ asking \in [what: {"no", "close"}]
    BY <2>1 DEF Init
  <2>4. keys \in 0..MaxKeys
    BY DEF Init, ConstantsFit
  <2> QED BY <2>1, <2>2, <2>3, <2>4 DEF Init, TypeOK
<1>2. Shape /\ Numbered /\ CleanIsKept
  BY DEF Init, Shape, Numbered, CleanIsKept
<1>3. OneCall /\ Answers
  BY DEF Init, OneCall, Answers
<1> QED BY <1>1, <1>2, <1>3 DEF IInv

LEMMA StepKeeps ==
  ASSUME ConstantsFit, IInv, [Next]_vars
  PROVE  IInv'
<1>1. ASSUME NEW a \in Accounts, ChangeAccount(a) PROVE IInv'
  BY <1>1, ChangeAccountKeeps
<1>2. ASSUME NEW p \in Paths, ClickFile(p) PROVE IInv'
  BY <1>2, ClickFileKeeps
<1>3. ASSUME NEW p \in Paths, ClickDelete(p) PROVE IInv'
  <2>1. /\ asking' = Question("delete", p, account) /\ (patient => calls = {})
        /\ UNCHANGED <<disk, account, editing, view, value, dirty, calls, sent, keys, patient, kept, dropped>>
    BY <1>3 DEF ClickDelete, MayAct
  <2>2. Question("delete", p, account) \in [what: {"open", "delete"}, path: Paths, from: Accounts]
        /\ Question("delete", p, account).from = account
    BY DEF Question, IInv, TypeOK
  <2> QED BY <2>1, <2>2, AskKeeps
<1>4. CASE Cancel
  <2>1. /\ asking' = [what |-> "no"]
        /\ UNCHANGED <<disk, account, editing, view, value, dirty, calls, sent, keys, patient, kept, dropped>>
    BY <1>4 DEF Cancel
  <2> QED BY <2>1, AskKeeps
<1>5. CASE DiscardAndOpen
  BY <1>5, DiscardAndOpenKeeps
<1>6. CASE DiscardAndClose
  BY <1>6, DiscardAndCloseKeeps
<1>7. CASE Delete
  BY <1>7, DeleteKeeps
<1>8. CASE Type
  BY <1>8, TypeKeeps
<1>9. CASE Save
  BY <1>9, SaveKeeps
<1>10. CASE Close
  BY <1>10, CloseKeeps
<1>11. CASE Answer
  BY <1>11, ServeKeeps, TakeOpenKeeps, TakeSaveKeeps, TakeRefusalKeeps, TakeCreateKeeps DEF Answer
<1>12. CASE UNCHANGED vars
  <2>1. TypeOK'
    BY <1>12 DEF IInv, TypeOK, vars
  <2> QED BY <1>12, <2>1 DEF vars, IInv, Shape, Numbered, OneCall, Answers, CleanIsKept
<1>13. ASSUME NEW p \in Paths, NewFile(p) PROVE IInv'
  BY <1>13, NewFileKeeps
<1>14. ASSUME NEW p \in Paths, NEW q \in Paths, Rename(p, q) PROVE IInv'
  BY <1>14, RenameKeeps
<1> QED
  BY <1>1, <1>2, <1>3, <1>4, <1>5, <1>6, <1>7, <1>8, <1>9, <1>10, <1>11, <1>12, <1>13, <1>14 DEF Next

\* The invariant holds from the first state on.
THEOREM EditorInvariant ==
  ASSUME ConstantsFit
  PROVE  Spec => []IInv
<1>1. Init => IInv
  BY Initially
<1>2. IInv /\ [Next]_vars => IInv'
  BY StepKeeps
<1> QED BY <1>1, <1>2, PTL DEF Spec

\* For every set of accounts and files: a user who waits for answers, and whose
\* view reports to the object the page would save, sees the mark whenever the
\* view holds a text that was never in a file (Files.jsx:119, 132, 610).
THEOREM UnsavedTextIsMarked ==
  ASSUME ConstantsFit
  PROVE  Spec => []UnsavedIsMarked
<1>1. IInv => UnsavedIsMarked
  <2>1. SUFFICES ASSUME IInv, patient, Attached, Unsaved # {}, ~dirty PROVE FALSE
    BY DEF UnsavedIsMarked
  <2>2. view # Nothing /\ view.text \notin kept
    BY <2>1 DEF Unsaved
  <2> QED BY <2>1, <2>2 DEF IInv, Attached, CleanIsKept
<1> QED BY <1>1, EditorInvariant, PTL

\* The same user loses a text unsaved and unasked only by choosing another
\* account, by a deletion or by renaming the open file (Files.jsx:243, 551, 443),
\* never by opening another file, by New file or by Close (98-123, 291-303, 597-615).
THEOREM LossIsAlwaysAsked ==
  ASSUME ConstantsFit
  PROVE  Spec => LossIsAsked
<1> DEFINE Lost == patient /\ Attached /\ dropped' # dropped => account' # account \/ asking.what = "delete"
                      \/ \E q \in Paths : Rename(editing.path, q)
<1>1. IInv /\ UnsavedIsMarked /\ [Next]_vars => [Lost]_vars
  <2>1. SUFFICES ASSUME IInv, UnsavedIsMarked, Next, patient, Attached, dropped' # dropped
                 PROVE  account' # account \/ asking.what = "delete" \/ \E q \in Paths : Rename(editing.path, q)
    BY DEF vars
  <2>2. ~dirty => Unsaved = {}
    BY <2>1 DEF UnsavedIsMarked
  <2>3. ASSUME NEW c \in calls, TakeOpen(c) PROVE FALSE
    BY <2>1, <2>2, <2>3 DEF TakeOpen, IInv, Answers
  <2>4. CASE Close
    BY <2>1, <2>2, <2>4 DEF Close
  <2>5. CASE Answer
    BY <2>1, <2>3, <2>5 DEF Answer, Serve, TakeSave, TakeRefusal, TakeCreate
  <2>6. ASSUME NEW a \in Accounts, ChangeAccount(a) PROVE account' # account
    BY <2>6 DEF ChangeAccount
  <2>7. ASSUME NEW p \in Paths, NEW q \in Paths, Rename(p, q) PROVE Rename(editing.path, q)
    BY <2>1, <2>7 DEF Rename
  <2> QED
    BY <2>1, <2>4, <2>5, <2>6, <2>7 DEF Next, ClickFile, ClickDelete, DiscardAndOpen, DiscardAndClose, Delete, Cancel, Type,
       Save, NewFile
<1> QED BY <1>1, EditorInvariant, UnsavedTextIsMarked, PTL DEF Spec, LossIsAsked

\* A file is written from the account it was read from (Files.jsx:243).
THEOREM SavesStayInAccount ==
  ASSUME ConstantsFit
  PROVE  Spec => []SaveStaysInAccount
<1>1. IInv => SaveStaysInAccount
  BY DEF IInv, OneCall, SaveStaysInAccount
<1> QED BY <1>1, EditorInvariant, PTL

----------------------------------------------------------------------------
(* The listing: what is selected is on screen, and a listing that is not   *)
(* asked for again is what is on the disk of the account, but for what     *)
(* jobs made that the page still has to hear of (Listed).                  *)

\* A user who waits acts on one account at a time: what is under way is of
\* the account chosen, and so is what is on screen once it was listed.
Asked == {c \in requests : c.op = "list"}

OneAccount ==
  waits =>
    /\ \A c \in requests : c.account = owner
    /\ loop # Nobody => loop.account = owner
    /\ question # Nobody => question.account = owner
    /\ (Asked = {} /\ "failed" \notin amiss) => shown = owner

OneListing == "crossed" \notin amiss => \A c, d \in Asked : c = d

\* What was said of a job stays true: that it ended.
Told(status) ==
  \A j \in DOMAIN status :
    jobs[j] # Listing!NoJob /\ (jobs[j].status = "running" => status[j] = "running")

\* A listing is what is on disk but for what jobs made that the page still
\* has to hear of.
Untold(a, f, n) ==
  \E j \in JobIds :
    /\ jobs[j].account = a /\ jobs[j].makes = <<f, n>> /\ jobs[j].status = "done"
    /\ j \in DOMAIN list => list[j] = "running"

Fresh(names, a, f) ==
  \A n \in Names :
    \/ n \in names <=> <<a, f, n>> \in files
    \/ <<a, f, n>> \in files /\ Untold(a, f, n)

Orderly == waits /\ "crossed" \notin amiss /\ unseen = {} /\ (loop # Nobody => loop.kind = "archive")

Listed ==
  Orderly =>
    /\ \A c \in Asked : c.stage = "done" => Fresh(c.names, c.account, c.folder)
    /\ (Asked = {} /\ "failed" \notin amiss) => Fresh(entries, owner, path)

TellsTrue == Told(list) /\ \A c \in requests : c.op = "poll" /\ c.stage = "done" => Told(c.status)

ListingInv == Listing!TypeOK /\ Listing!SelectionIsShown /\ OneAccount /\ OneListing /\ TellsTrue /\ Listed
----------------------------------------------------------------------------
(* Types. *)

LEMMA NewListing ==
  ASSUME NEW a \in Accounts, NEW f \in Folders
  PROVE  /\ Listing!ListCall(a, f) \in Listing!Listing
         /\ Listing!ListCall(a, f).op = "list" /\ Listing!ListCall(a, f).account = a /\ Listing!ListCall(a, f).stage = "sent"
BY DEF Listing!ListCall, Listing!Listing

LEMMA NewPoll ==
  ASSUME NEW a \in Accounts
  PROVE  /\ Listing!PollCall(a) \in Listing!Poll
         /\ Listing!PollCall(a).op = "poll" /\ Listing!PollCall(a).account = a /\ Listing!PollCall(a).stage = "sent"
<1>1. <<>> \in [{} -> {"running", "done", "failed"}]
  OBVIOUS
<1>2. <<>> \in UNION {[S -> {"running", "done", "failed"}] : S \in SUBSET JobIds}
  BY <1>1
<1> QED BY <1>2 DEF Listing!PollCall, Listing!Poll

LEMMA RequestAnswers ==
  ASSUME Listing!TypeOK, Nobody \notin Accounts, NEW c \in requests
  PROVE  /\ Listing!Answered(c) \in Listing!Listing \cup Listing!Poll /\ Listing!Answered(c).op = c.op
         /\ Listing!Answered(c).account = c.account /\ Listing!Answered(c).stage = "done"
         /\ [c EXCEPT !.stage = "refused"] \in Listing!Listing \cup Listing!Poll
         /\ [c EXCEPT !.stage = "refused"].op = c.op
         /\ [c EXCEPT !.stage = "refused"].account = c.account
         /\ [c EXCEPT !.stage = "refused"].stage = "refused"
         /\ c.op = "list" => /\ Listing!Answered(c).names = Listing!NamesIn(c.account, c.folder)
                             /\ Listing!Answered(c).folder = c.folder
         /\ c.op = "poll" => Listing!Answered(c).status = [j \in Listing!JobsOf(c.account) |-> jobs[j].status]
<1>1. CASE c \in Listing!Listing
  <2>1. Listing!NamesIn(c.account, c.folder) \subseteq Names
    BY DEF Listing!NamesIn
  <2> QED BY <1>1, <2>1 DEF Listing!Listing, Listing!Poll, Listing!Answered
<1>2. CASE c \in Listing!Poll
  <2>1. Listing!JobsOf(c.account) \in SUBSET JobIds
    BY DEF Listing!JobsOf
  <2>2. \A j \in Listing!JobsOf(c.account) : jobs[j].status \in {"running", "done", "failed"}
    BY <1>2 DEF Listing!JobsOf, Listing!TypeOK, Listing!Job, Listing!NoJob, Listing!Poll
  <2>3. [j \in Listing!JobsOf(c.account) |-> jobs[j].status]
          \in [Listing!JobsOf(c.account) -> {"running", "done", "failed"}]
    BY <2>2
  <2>4. [j \in Listing!JobsOf(c.account) |-> jobs[j].status]
          \in UNION {[S -> {"running", "done", "failed"}] : S \in SUBSET JobIds}
    BY <2>1, <2>3
  <2> QED BY <1>2, <2>4 DEF Listing!Listing, Listing!Poll, Listing!Answered
<1> QED BY <1>1, <1>2 DEF Listing!TypeOK

LEMMA ListingTypesKept ==
  ASSUME Listing!ConstantsFit, Listing!TypeOK, [Listing!Next]_(Listing!vars)
  PROVE  Listing!TypeOK'
<1> USE DEF Listing!page
<1>1. ASSUME NEW f \in Folders, Listing!OpenFolder(f) PROVE Listing!TypeOK'
  BY <1>1, NewListing DEF Listing!TypeOK, Listing!OpenFolder, Listing!Begin, Listing!AskListing,
     Listing!ConstantsFit
<1>2. ASSUME NEW a \in Accounts, Listing!ChangeAccount(a) PROVE Listing!TypeOK'
  BY <1>2, NewListing, NewPoll DEF Listing!TypeOK, Listing!ChangeAccount, Listing!Begin,
     Listing!ConstantsFit
<1>3. ASSUME NEW n \in Names, Listing!Toggle(n) PROVE Listing!TypeOK'
  BY <1>3 DEF Listing!TypeOK, Listing!Toggle
<1>4. ASSUME NEW n \in Names, Listing!StartJob(n) PROVE Listing!TypeOK'
  <2>1. loop' \in Listing!Loop
    BY <1>4 DEF Listing!StartJob, Listing!TypeOK, Listing!Loop, Listing!FullPath
  <2> QED BY <1>4, <2>1 DEF Listing!TypeOK, Listing!StartJob, Listing!Begin, Listing!ConstantsFit
<1>5. ASSUME NEW m \in {"copy", "move"}, Listing!PutOnClipboard(m) PROVE Listing!TypeOK'
  <2>1. {Listing!FullPath(n) : n \in selected} \in SUBSET (Folders \X Names)
    BY DEF Listing!TypeOK, Listing!FullPath
  <2>2. clipboard' \in [mode: {"copy", "move"}, items: SUBSET (Folders \X Names)]
    BY <1>5, <2>1 DEF Listing!PutOnClipboard
  <2> QED BY <1>5, <2>2 DEF Listing!TypeOK, Listing!PutOnClipboard
<1>6. CASE Listing!Paste
  <2>1. loop' \in Listing!Loop
    BY <1>6 DEF Listing!Paste, Listing!TypeOK, Listing!Loop
  <2> QED BY <1>6, <2>1 DEF Listing!TypeOK, Listing!Paste, Listing!Begin, Listing!ConstantsFit
<1>7. CASE Listing!ClickDelete
  <2>1. PICK names \in {selected} \cup {{n} : n \in entries} :
          /\ question' = Listing!Deletion(names)
          /\ strays' = strays \cup ({<<owner, path, n>> : n \in names} \ {<<shown, path, n>> : n \in entries})
    BY <1>7 DEF Listing!ClickDelete
  <2>2. names \subseteq Names
    BY <2>1 DEF Listing!TypeOK
  <2>3. question' \in Listing!Loop
    BY <2>1, <2>2 DEF Listing!Deletion, Listing!Loop, Listing!FullPath, Listing!TypeOK
  <2>4. strays' \subseteq Listing!File
    BY <2>1, <2>2 DEF Listing!TypeOK, Listing!File
  <2> QED BY <1>7, <2>3, <2>4 DEF Listing!TypeOK, Listing!ClickDelete
<1>8. CASE Listing!Confirm \/ Listing!Cancel
  <2>1. begun' \in 0 .. MaxOps
    BY <1>8 DEF Listing!TypeOK, Listing!Confirm, Listing!Cancel, Listing!ConstantsFit
  <2>2. loop' \in Listing!Loop \cup {Nobody} /\ question' \in Listing!Loop \cup {Nobody}
    BY <1>8 DEF Listing!TypeOK, Listing!Confirm, Listing!Cancel
  <2> QED BY <1>8, <2>1, <2>2 DEF Listing!TypeOK, Listing!Confirm, Listing!Cancel
<1>9. ASSUME NEW i \in Folders \X Names, Listing!PasteItem(i) \/ Listing!DeleteItem(i) PROVE Listing!TypeOK'
  <2>1. loop \in Listing!Loop /\ loop' = [loop EXCEPT !.todo = @ \ {i}]
    BY <1>9 DEF Listing!PasteItem, Listing!DeleteItem, Listing!TypeOK
  <2>2. loop' \in Listing!Loop
    BY <2>1 DEF Listing!Loop
  <2>3. <<loop.account, loop.folder, i[2]>> \in Listing!File
    BY <2>1 DEF Listing!Loop, Listing!File
  <2>4. files' \subseteq Listing!File
    BY <1>9, <2>3 DEF Listing!PasteItem, Listing!DeleteItem, Listing!TypeOK
  <2> QED BY <1>9, <2>2, <2>4 DEF Listing!TypeOK, Listing!PasteItem, Listing!DeleteItem
<1>10. ASSUME NEW j \in JobIds, Listing!JobAccepted(j) PROVE Listing!TypeOK'
  <2>1. loop \in Listing!Loop
    BY <1>10 DEF Listing!JobAccepted, Listing!TypeOK
  <2>2. jobs' \in [JobIds -> Listing!Job \cup {Listing!NoJob}]
    BY <1>10, <2>1 DEF Listing!JobAccepted, Listing!TypeOK, Listing!Job, Listing!Loop
  <2>3. requests' \subseteq Listing!Listing \cup Listing!Poll
    BY <1>10, <2>1, NewPoll DEF Listing!JobAccepted, Listing!TypeOK, Listing!Loop
  <2> QED BY <1>10, <2>2, <2>3 DEF Listing!TypeOK, Listing!JobAccepted
<1>11. CASE Listing!EndLoop
  <2>1. loop.account \in Accounts /\ loop.folder \in Folders
    BY <1>11 DEF Listing!EndLoop, Listing!TypeOK, Listing!Loop
  <2> QED BY <1>11, <2>1, NewListing DEF Listing!TypeOK, Listing!EndLoop, Listing!AskListing
<1>12. ASSUME NEW j \in JobIds, Listing!JobEnds(j) PROVE Listing!TypeOK'
  <2>1. jobs[j] \in Listing!Job
    BY <1>12 DEF Listing!JobEnds, Listing!TypeOK
  <2>2. \A s \in {"done", "failed"} : [jobs[j] EXCEPT !.status = s] \in Listing!Job
    BY <2>1 DEF Listing!Job
  <2>3. jobs' \in [JobIds -> Listing!Job \cup {Listing!NoJob}]
    BY <1>12, <2>2 DEF Listing!JobEnds, Listing!TypeOK
  <2>4. files' \subseteq Listing!File
    BY <1>12, <2>1 DEF Listing!JobEnds, Listing!TypeOK, Listing!Job, Listing!File
  <2> QED BY <1>12, <2>3, <2>4 DEF Listing!TypeOK, Listing!JobEnds
<1>13. ASSUME NEW c \in requests, Listing!Serve(c) PROVE Listing!TypeOK'
  <2>1. PICK d : requests' = (requests \ {c}) \cup {d} /\ d \in {Listing!Answered(c), [c EXCEPT !.stage = "refused"]}
    BY <1>13 DEF Listing!Serve
  <2>2. d \in Listing!Listing \cup Listing!Poll
    BY <2>1, RequestAnswers DEF Listing!ConstantsFit
  <2>3. requests' \subseteq Listing!Listing \cup Listing!Poll
    BY <2>1, <2>2 DEF Listing!TypeOK
  <2> QED BY <1>13, <2>3 DEF Listing!TypeOK, Listing!Serve
<1>14. ASSUME NEW c \in requests, Listing!TakeListing(c) PROVE Listing!TypeOK'
  <2>1. c \in Listing!Listing
    BY <1>14 DEF Listing!TakeListing, Listing!TypeOK, Listing!Poll
  <2> QED BY <1>14, <2>1 DEF Listing!TypeOK, Listing!TakeListing, Listing!Listing
<1>15. ASSUME NEW c \in requests, Listing!TakeRefusal(c) PROVE Listing!TypeOK'
  BY <1>15 DEF Listing!TypeOK, Listing!TakeRefusal
<1>16. ASSUME NEW c \in requests, Listing!TakePoll(c) PROVE Listing!TypeOK'
  <2>1. c \in Listing!Poll
    BY <1>16 DEF Listing!TakePoll, Listing!TypeOK, Listing!Listing
  <2>2. DOMAIN c.status \subseteq JobIds
    BY <2>1 DEF Listing!Poll
  <2>3. Listing!Unnoticed(c) \subseteq JobIds
    BY <2>2 DEF Listing!Unnoticed
  <2>4. Listing!ListCall(owner, path) \in Listing!Listing
    BY NewListing DEF Listing!TypeOK
  <2>5. requests' \subseteq Listing!Listing \cup Listing!Poll
    BY <1>16, <2>4 DEF Listing!TakePoll, Listing!TypeOK
  <2>6. amiss' \subseteq {"failed", "crossed"}
    BY <1>16 DEF Listing!TakePoll, Listing!TypeOK
  <2> QED BY <1>16, <2>2, <2>3, <2>5, <2>6 DEF Listing!TypeOK, Listing!TakePoll
<1>17. CASE Listing!Tick
  BY <1>17, NewPoll DEF Listing!TypeOK, Listing!Tick
<1>18. CASE UNCHANGED Listing!vars
  BY <1>18 DEF Listing!TypeOK, Listing!vars
<1> QED BY <1>1, <1>2, <1>3, <1>4, <1>5, <1>6, <1>7, <1>8, <1>9, <1>10, <1>11, <1>12, <1>13, <1>14,
           <1>15, <1>16, <1>17, <1>18 DEF Listing!Next, Listing!RunLoop, Listing!Answer
----------------------------------------------------------------------------
(* What is selected, and whose it is. *)

LEMMA SelectionKept ==
  ASSUME Listing!SelectionIsShown, [Listing!Next]_(Listing!vars)
  PROVE  Listing!SelectionIsShown'
<1> USE DEF Listing!page, Listing!SelectionIsShown
<1>1. ASSUME NEW f \in Folders, Listing!OpenFolder(f) PROVE Listing!SelectionIsShown'
  BY <1>1 DEF Listing!OpenFolder, Listing!AskListing
<1>2. ASSUME NEW a \in Accounts, Listing!ChangeAccount(a) PROVE Listing!SelectionIsShown'
  BY <1>2 DEF Listing!ChangeAccount
<1>3. ASSUME NEW n \in Names, Listing!Toggle(n) \/ Listing!StartJob(n) PROVE Listing!SelectionIsShown'
  BY <1>3 DEF Listing!Toggle, Listing!StartJob
<1>4. ASSUME NEW m \in {"copy", "move"}, Listing!PutOnClipboard(m) PROVE Listing!SelectionIsShown'
  BY <1>4 DEF Listing!PutOnClipboard
<1>5. CASE Listing!Paste \/ Listing!ClickDelete \/ Listing!Confirm \/ Listing!Cancel \/ Listing!Tick \/ UNCHANGED Listing!vars
  BY <1>5 DEF Listing!Paste, Listing!ClickDelete, Listing!Confirm, Listing!Cancel, Listing!Tick,
     Listing!vars
<1>6. ASSUME NEW i \in Folders \X Names, Listing!PasteItem(i) \/ Listing!DeleteItem(i) PROVE Listing!SelectionIsShown'
  BY <1>6 DEF Listing!PasteItem, Listing!DeleteItem
<1>7. ASSUME NEW j \in JobIds, Listing!JobAccepted(j) \/ Listing!JobEnds(j) PROVE Listing!SelectionIsShown'
  BY <1>7 DEF Listing!JobAccepted, Listing!JobEnds
<1>8. CASE Listing!EndLoop
  BY <1>8 DEF Listing!EndLoop, Listing!AskListing
<1>9. ASSUME NEW c \in requests, Listing!Serve(c) \/ Listing!TakeListing(c) PROVE Listing!SelectionIsShown'
  BY <1>9 DEF Listing!Serve, Listing!TakeListing
<1>10. ASSUME NEW c \in requests, Listing!TakeRefusal(c) PROVE Listing!SelectionIsShown'
  BY <1>10 DEF Listing!TakeRefusal
<1>11. ASSUME NEW c \in requests, Listing!TakePoll(c) PROVE Listing!SelectionIsShown'
  BY <1>11 DEF Listing!TakePoll
<1> QED BY <1>1, <1>2, <1>3, <1>4, <1>5, <1>6, <1>7, <1>8, <1>9, <1>10, <1>11
           DEF Listing!Next, Listing!RunLoop, Listing!Answer

LEMMA OneAccountKept ==
  ASSUME Listing!ConstantsFit, Listing!TypeOK, OneAccount, [Listing!Next]_(Listing!vars)
  PROVE  OneAccount'
<1> USE DEF Listing!page, Asked
<1>1. ASSUME NEW f \in Folders, Listing!OpenFolder(f) PROVE OneAccount'
  <2>1. Listing!ListCall(owner, f).op = "list" /\ Listing!ListCall(owner, f).account = owner
    BY DEF Listing!ListCall
  <2> QED BY <1>1, <2>1 DEF Listing!OpenFolder, Listing!AskListing, OneAccount
<1>2. ASSUME NEW a \in Accounts, Listing!ChangeAccount(a) PROVE OneAccount'
  <2>1. /\ Listing!ListCall(a, Top).op = "list" /\ Listing!ListCall(a, Top).account = a
        /\ Listing!PollCall(a).op = "poll" /\ Listing!PollCall(a).account = a
    BY DEF Listing!ListCall, Listing!PollCall
  <2>2. waits => requests = {} /\ loop = Nobody /\ question = Nobody
    BY <1>2 DEF Listing!ChangeAccount, Listing!Begin, Listing!MayAct
  <2> QED BY <1>2, <2>1, <2>2 DEF Listing!ChangeAccount, OneAccount
<1>3. ASSUME NEW n \in Names, Listing!Toggle(n) \/ Listing!StartJob(n) PROVE OneAccount'
  <2>1. UNCHANGED <<requests, waits, question, owner, shown, amiss>>
    BY <1>3 DEF Listing!Toggle, Listing!StartJob
  <2>2. loop' = loop \/ loop'.account = owner
    BY <1>3 DEF Listing!Toggle, Listing!StartJob
  <2> QED BY <2>1, <2>2 DEF OneAccount
<1>4. ASSUME NEW m \in {"copy", "move"}, Listing!PutOnClipboard(m) PROVE OneAccount'
  BY <1>4 DEF Listing!PutOnClipboard, OneAccount
<1>5. CASE Listing!Paste
  BY <1>5 DEF Listing!Paste, OneAccount
<1>6. CASE Listing!ClickDelete
  BY <1>6 DEF Listing!ClickDelete, Listing!Deletion, OneAccount
<1>7. CASE Listing!Confirm \/ Listing!Cancel \/ UNCHANGED Listing!vars
  <2>1. UNCHANGED <<requests, waits, owner, shown, amiss>>
    BY <1>7 DEF Listing!Confirm, Listing!Cancel, Listing!vars
  <2>2. /\ loop' = loop \/ (question # Nobody /\ loop' = question)
        /\ question' \in {question, Nobody}
    BY <1>7 DEF Listing!Confirm, Listing!Cancel, Listing!vars
  <2> QED BY <2>1, <2>2 DEF OneAccount
<1>8. CASE Listing!Tick
  <2>1. Listing!PollCall(owner).op = "poll" /\ Listing!PollCall(owner).account = owner
    BY DEF Listing!PollCall
  <2> QED BY <1>8, <2>1 DEF Listing!Tick, OneAccount
<1>9. ASSUME NEW i \in Folders \X Names, Listing!PasteItem(i) \/ Listing!DeleteItem(i) PROVE OneAccount'
  <2>1. loop' = [loop EXCEPT !.todo = @ \ {i}] /\ loop \in Listing!Loop /\ loop # Nobody
    BY <1>9 DEF Listing!PasteItem, Listing!DeleteItem, Listing!TypeOK
  <2>2. loop'.account = loop.account
    BY <2>1 DEF Listing!Loop
  <2> QED BY <1>9, <2>1, <2>2 DEF Listing!PasteItem, Listing!DeleteItem, OneAccount
<1>10. ASSUME NEW j \in JobIds, Listing!JobAccepted(j) PROVE OneAccount'
  <2>1. Listing!PollCall(loop.account).op = "poll" /\ Listing!PollCall(loop.account).account = loop.account
    BY DEF Listing!PollCall
  <2>2. loop # Nobody /\ loop' = Nobody /\ requests' \in {requests, requests \cup {Listing!PollCall(loop.account)}}
        /\ UNCHANGED <<Listing!page, question, waits, amiss>>
    BY <1>10 DEF Listing!JobAccepted
  <2> QED BY <2>1, <2>2 DEF OneAccount
<1>11. ASSUME NEW j \in JobIds, Listing!JobEnds(j) PROVE OneAccount'
  BY <1>11 DEF Listing!JobEnds, OneAccount
<1>12. CASE Listing!EndLoop
  <2>1. Listing!ListCall(loop.account, loop.folder).op = "list"
        /\ Listing!ListCall(loop.account, loop.folder).account = loop.account
    BY DEF Listing!ListCall
  <2> QED BY <1>12, <2>1 DEF Listing!EndLoop, Listing!AskListing, OneAccount
<1>13. ASSUME NEW c \in requests, Listing!Serve(c) PROVE OneAccount'
  <2>1. PICK d : requests' = (requests \ {c}) \cup {d} /\ d \in {Listing!Answered(c), [c EXCEPT !.stage = "refused"]}
    BY <1>13 DEF Listing!Serve
  <2>2. d.op = c.op /\ d.account = c.account
    BY <2>1, RequestAnswers DEF Listing!ConstantsFit
  <2> QED BY <1>13, <2>1, <2>2 DEF Listing!Serve, OneAccount
<1>14. ASSUME NEW c \in requests, Listing!TakeListing(c) PROVE OneAccount'
  BY <1>14 DEF Listing!TakeListing, OneAccount
<1>15. ASSUME NEW c \in requests, Listing!TakeRefusal(c) PROVE OneAccount'
  BY <1>15 DEF Listing!TakeRefusal, OneAccount
<1>16. ASSUME NEW c \in requests, Listing!TakePoll(c) PROVE OneAccount'
  <2>1. Listing!ListCall(owner, path).op = "list" /\ Listing!ListCall(owner, path).account = owner
    BY DEF Listing!ListCall
  <2> QED BY <1>16, <2>1 DEF Listing!TakePoll, OneAccount
<1> QED BY <1>1, <1>2, <1>3, <1>4, <1>5, <1>6, <1>7, <1>8, <1>9, <1>10, <1>11, <1>12, <1>13, <1>14,
           <1>15, <1>16 DEF Listing!Next, Listing!RunLoop, Listing!Answer

LEMMA OneListingKept ==
  ASSUME Listing!ConstantsFit, Listing!TypeOK, OneListing, [Listing!Next]_(Listing!vars)
  PROVE  OneListing'
<1> USE DEF Listing!page, Asked, OneListing
<1>1. ASSUME NEW f \in Folders, Listing!OpenFolder(f) PROVE OneListing'
  BY <1>1 DEF Listing!OpenFolder, Listing!AskListing
<1>2. ASSUME NEW a \in Accounts, Listing!ChangeAccount(a) PROVE OneListing'
  <2>1. Listing!PollCall(a).op = "poll"
    BY DEF Listing!PollCall
  <2> QED BY <1>2, <2>1 DEF Listing!ChangeAccount
<1>3. ASSUME NEW n \in Names, Listing!Toggle(n) \/ Listing!StartJob(n) PROVE OneListing'
  BY <1>3 DEF Listing!Toggle, Listing!StartJob
<1>4. ASSUME NEW m \in {"copy", "move"}, Listing!PutOnClipboard(m) PROVE OneListing'
  BY <1>4 DEF Listing!PutOnClipboard
<1>5. CASE Listing!Paste \/ Listing!ClickDelete \/ Listing!Confirm \/ Listing!Cancel \/ UNCHANGED Listing!vars
  BY <1>5 DEF Listing!Paste, Listing!ClickDelete, Listing!Confirm, Listing!Cancel, Listing!vars
<1>6. CASE Listing!Tick
  <2>1. Listing!PollCall(owner).op = "poll"
    BY DEF Listing!PollCall
  <2> QED BY <1>6, <2>1 DEF Listing!Tick
<1>7. ASSUME NEW i \in Folders \X Names, Listing!PasteItem(i) \/ Listing!DeleteItem(i) PROVE OneListing'
  BY <1>7 DEF Listing!PasteItem, Listing!DeleteItem
<1>8. ASSUME NEW j \in JobIds, Listing!JobAccepted(j) PROVE OneListing'
  <2>1. Listing!PollCall(loop.account).op = "poll"
    BY DEF Listing!PollCall
  <2> QED BY <1>8, <2>1 DEF Listing!JobAccepted
<1>9. ASSUME NEW j \in JobIds, Listing!JobEnds(j) PROVE OneListing'
  BY <1>9 DEF Listing!JobEnds
<1>10. CASE Listing!EndLoop
  BY <1>10 DEF Listing!EndLoop, Listing!AskListing
<1>11. ASSUME NEW c \in requests, Listing!Serve(c) PROVE OneListing'
  <2>1. PICK d : requests' = (requests \ {c}) \cup {d} /\ d \in {Listing!Answered(c), [c EXCEPT !.stage = "refused"]}
    BY <1>11 DEF Listing!Serve
  <2>2. d.op = c.op
    BY <2>1, RequestAnswers DEF Listing!ConstantsFit
  <2> QED BY <1>11, <2>1, <2>2 DEF Listing!Serve
<1>12. ASSUME NEW c \in requests, Listing!TakeListing(c) PROVE OneListing'
  BY <1>12 DEF Listing!TakeListing
<1>13. ASSUME NEW c \in requests, Listing!TakeRefusal(c) PROVE OneListing'
  BY <1>13 DEF Listing!TakeRefusal
<1>14. ASSUME NEW c \in requests, Listing!TakePoll(c) PROVE OneListing'
  BY <1>14 DEF Listing!TakePoll
<1> QED BY <1>1, <1>2, <1>3, <1>4, <1>5, <1>6, <1>7, <1>8, <1>9, <1>10, <1>11, <1>12, <1>13, <1>14
        DEF Listing!Next, Listing!RunLoop, Listing!Answer
----------------------------------------------------------------------------
(* What was said of jobs. *)

LEMMA JobsAge ==
  ASSUME Listing!ConstantsFit, Listing!TypeOK, [Listing!Next]_(Listing!vars), NEW j \in JobIds, jobs[j] # Listing!NoJob
  PROVE  /\ jobs'[j] # Listing!NoJob /\ jobs'[j].account = jobs[j].account /\ jobs'[j].makes = jobs[j].makes
         /\ jobs[j].status # "running" => jobs'[j] = jobs[j]
<1>1. jobs[j] \in Listing!Job /\ jobs[j].account # Nobody
  BY DEF Listing!TypeOK, Listing!Job, Listing!ConstantsFit
<1>2. ASSUME NEW i \in JobIds, Listing!JobAccepted(i) PROVE jobs'[j] = jobs[j]
  BY <1>2 DEF Listing!JobAccepted, Listing!TypeOK
<1>3. ASSUME NEW i \in JobIds, Listing!JobEnds(i)
      PROVE  \/ jobs'[j] = jobs[j]
             \/ /\ jobs[j].status = "running"
                /\ \E s \in {"done", "failed"} : jobs'[j] = [jobs[j] EXCEPT !.status = s]
  BY <1>3 DEF Listing!JobEnds, Listing!TypeOK
<1>4. ASSUME \A i \in JobIds : ~ Listing!JobAccepted(i) /\ ~ Listing!JobEnds(i) PROVE jobs' = jobs
  <2>1. CASE UNCHANGED Listing!vars
    BY <2>1 DEF Listing!vars
  <2>2. CASE Listing!RunLoop \/ Listing!Answer
    BY <1>4, <2>2 DEF Listing!RunLoop, Listing!Answer, Listing!PasteItem, Listing!DeleteItem,
       Listing!EndLoop, Listing!Serve, Listing!TakeListing, Listing!TakeRefusal,
                      Listing!TakePoll
  <2>3. CASE Listing!Paste \/ Listing!ClickDelete \/ Listing!Confirm \/ Listing!Cancel \/ Listing!Tick
    BY <2>3 DEF Listing!Paste, Listing!ClickDelete, Listing!Confirm, Listing!Cancel, Listing!Tick
  <2>4. ASSUME NEW f \in Folders, Listing!OpenFolder(f) PROVE jobs' = jobs
    BY <2>4 DEF Listing!OpenFolder
  <2>5. ASSUME NEW a \in Accounts, Listing!ChangeAccount(a) PROVE jobs' = jobs
    BY <2>5 DEF Listing!ChangeAccount
  <2>6. ASSUME NEW n \in Names, Listing!Toggle(n) \/ Listing!StartJob(n) PROVE jobs' = jobs
    BY <2>6 DEF Listing!Toggle, Listing!StartJob
  <2>7. ASSUME NEW m \in {"copy", "move"}, Listing!PutOnClipboard(m) PROVE jobs' = jobs
    BY <2>7 DEF Listing!PutOnClipboard
  <2> QED BY <1>4, <2>1, <2>2, <2>3, <2>4, <2>5, <2>6, <2>7 DEF Listing!Next
<1>5. jobs'[j] = jobs[j]
      \/ /\ jobs[j].status = "running"
         /\ \E s \in {"done", "failed"} : jobs'[j] = [jobs[j] EXCEPT !.status = s]
  BY <1>2, <1>3, <1>4
<1>6. ASSUME NEW s, jobs'[j] = [jobs[j] EXCEPT !.status = s]
      PROVE  jobs'[j].account = jobs[j].account /\ jobs'[j].makes = jobs[j].makes
  BY <1>1, <1>6 DEF Listing!Job
<1>7. jobs'[j].account = jobs[j].account /\ jobs'[j].makes = jobs[j].makes
  BY <1>5, <1>6
<1>8. jobs'[j] # Listing!NoJob
  BY <1>1, <1>7 DEF Listing!NoJob
<1> QED BY <1>5, <1>7, <1>8

LEMMA ToldStays ==
  ASSUME Listing!ConstantsFit, Listing!TypeOK, [Listing!Next]_(Listing!vars), NEW status, DOMAIN status \subseteq JobIds, Told(status)
  PROVE  \A j \in DOMAIN status :
           jobs'[j] # Listing!NoJob /\ (jobs'[j].status = "running" => status[j] = "running")
<1>1. ASSUME NEW j \in DOMAIN status
      PROVE  jobs'[j] # Listing!NoJob /\ (jobs'[j].status = "running" => status[j] = "running")
  <2>1. j \in JobIds /\ jobs[j] # Listing!NoJob /\ (jobs[j].status = "running" => status[j] = "running")
    BY DEF Told
  <2> QED BY <2>1, JobsAge
<1> QED BY <1>1

\* Which answers a step brings about.
LEMMA NewAnswers ==
  ASSUME Listing!ConstantsFit, Listing!TypeOK, [Listing!Next]_(Listing!vars), NEW c \in requests', c.stage = "done", c \notin requests
  PROVE  /\ \E b \in requests : b.stage = "sent" /\ c = Listing!Answered(b)
         /\ UNCHANGED <<files, jobs, Listing!page, loop, question, waits, unseen, amiss>>
<1>1. ASSUME NEW b \in requests, Listing!Serve(b)
      PROVE  b.stage = "sent" /\ c = Listing!Answered(b)
             /\ UNCHANGED <<files, jobs, Listing!page, loop, question, waits, unseen, amiss>>
  <2>1. [b EXCEPT !.stage = "refused"].stage = "refused"
    BY RequestAnswers DEF Listing!ConstantsFit
  <2> QED BY <1>1, <2>1 DEF Listing!Serve
<1>2. ASSUME NEW a, NEW f PROVE c # Listing!ListCall(a, f) /\ c # Listing!PollCall(a)
  BY DEF Listing!ListCall, Listing!PollCall
<1>3. \E b \in requests : Listing!Serve(b)
  <2>1. CASE UNCHANGED Listing!vars
    BY <2>1 DEF Listing!vars
  <2>2. CASE Listing!RunLoop
    <3>1. ASSUME NEW i \in Folders \X Names, Listing!PasteItem(i) \/ Listing!DeleteItem(i) PROVE FALSE
      <4>1. requests' = requests
        BY <3>1 DEF Listing!PasteItem, Listing!DeleteItem
      <4> QED BY <4>1
    <3>2. ASSUME NEW j \in JobIds, Listing!JobAccepted(j) PROVE FALSE
      <4>1. requests' = requests \/ requests' = requests \cup {Listing!PollCall(loop.account)}
        BY <3>2 DEF Listing!JobAccepted
      <4> QED BY <1>2, <4>1
    <3>3. CASE Listing!EndLoop
      <4>1. requests' = requests \cup {Listing!ListCall(loop.account, loop.folder)}
        BY <3>3 DEF Listing!EndLoop, Listing!AskListing
      <4> QED BY <1>2, <4>1
    <3> QED BY <2>2, <3>1, <3>2, <3>3 DEF Listing!RunLoop
  <2>3. CASE Listing!Paste \/ Listing!ClickDelete \/ Listing!Confirm \/ Listing!Cancel \/ Listing!Tick
    BY <1>2, <2>3 DEF Listing!Paste, Listing!ClickDelete, Listing!Confirm, Listing!Cancel,
       Listing!Tick
  <2>4. ASSUME NEW f \in Folders, Listing!OpenFolder(f) PROVE FALSE
    BY <1>2, <2>4 DEF Listing!OpenFolder, Listing!AskListing
  <2>5. ASSUME NEW a \in Accounts, Listing!ChangeAccount(a) PROVE FALSE
    BY <1>2, <2>5 DEF Listing!ChangeAccount
  <2>6. ASSUME NEW n \in Names, Listing!Toggle(n) \/ Listing!StartJob(n) PROVE FALSE
    BY <2>6 DEF Listing!Toggle, Listing!StartJob
  <2>7. ASSUME NEW m \in {"copy", "move"}, Listing!PutOnClipboard(m) PROVE FALSE
    BY <2>7 DEF Listing!PutOnClipboard
  <2>8. ASSUME NEW b \in requests, Listing!TakeListing(b) \/ Listing!TakeRefusal(b) \/ Listing!TakePoll(b) PROVE FALSE
    BY <1>2, <2>8 DEF Listing!TakeListing, Listing!TakeRefusal, Listing!TakePoll
  <2>9. ASSUME NEW j \in JobIds, Listing!JobEnds(j) PROVE FALSE
    BY <2>9 DEF Listing!JobEnds
  <2> QED BY <2>1, <2>2, <2>3, <2>4, <2>5, <2>6, <2>7, <2>8, <2>9 DEF Listing!Next, Listing!Answer
<1> QED BY <1>1, <1>3

LEMMA ListChanges ==
  ASSUME [Listing!Next]_(Listing!vars), list' # list
  PROVE  \E c \in requests : Listing!TakePoll(c)
<1> USE DEF Listing!page
<1>1. ASSUME NEW f \in Folders, Listing!OpenFolder(f) PROVE FALSE
  BY <1>1 DEF Listing!OpenFolder
<1>2. ASSUME NEW a \in Accounts, Listing!ChangeAccount(a) PROVE FALSE
  BY <1>2 DEF Listing!ChangeAccount
<1>3. ASSUME NEW n \in Names, Listing!Toggle(n) \/ Listing!StartJob(n) PROVE FALSE
  BY <1>3 DEF Listing!Toggle, Listing!StartJob
<1>4. ASSUME NEW m \in {"copy", "move"}, Listing!PutOnClipboard(m) PROVE FALSE
  BY <1>4 DEF Listing!PutOnClipboard
<1>5. CASE Listing!Paste \/ Listing!ClickDelete \/ Listing!Confirm \/ Listing!Cancel \/ Listing!Tick \/ UNCHANGED Listing!vars
  BY <1>5 DEF Listing!Paste, Listing!ClickDelete, Listing!Confirm, Listing!Cancel, Listing!Tick,
     Listing!vars
<1>6. ASSUME NEW j \in JobIds, Listing!JobEnds(j) PROVE FALSE
  BY <1>6 DEF Listing!JobEnds
<1>7. CASE Listing!RunLoop
  BY <1>7 DEF Listing!RunLoop, Listing!PasteItem, Listing!DeleteItem, Listing!JobAccepted,
     Listing!EndLoop
<1>8. ASSUME NEW c \in requests, Listing!Serve(c) \/ Listing!TakeListing(c) \/ Listing!TakeRefusal(c) PROVE FALSE
  BY <1>8 DEF Listing!Serve, Listing!TakeListing, Listing!TakeRefusal
<1> QED BY <1>1, <1>2, <1>3, <1>4, <1>5, <1>6, <1>7, <1>8 DEF Listing!Next, Listing!Answer

LEMMA TellsTrueKept ==
  ASSUME Listing!ConstantsFit, Listing!TypeOK, TellsTrue, [Listing!Next]_(Listing!vars)
  PROVE  TellsTrue'
<1>1. \A j \in DOMAIN list' : jobs'[j] # Listing!NoJob /\ (jobs'[j].status = "running" => list'[j] = "running")
  <2>1. CASE list' = list
    <3>1. DOMAIN list \subseteq JobIds /\ Told(list)
      BY DEF Listing!TypeOK, TellsTrue
    <3> QED BY <2>1, <3>1, ToldStays
  <2>2. CASE list' # list
    <3>1. PICK c \in requests : Listing!TakePoll(c)
      BY <2>2, ListChanges
    <3>2. c.op = "poll" /\ c.stage = "done" /\ list' = c.status
      BY <3>1 DEF Listing!TakePoll
    <3>3. c \in Listing!Poll
      BY <3>2 DEF Listing!TypeOK, Listing!Listing
    <3>4. DOMAIN c.status \subseteq JobIds /\ Told(c.status)
      BY <3>2, <3>3 DEF TellsTrue, Listing!Poll
    <3> QED BY <3>2, <3>4, ToldStays
  <2> QED BY <2>1, <2>2
<1>2. ASSUME NEW c \in requests', c.op = "poll", c.stage = "done"
      PROVE  \A j \in DOMAIN c.status :
               jobs'[j] # Listing!NoJob /\ (jobs'[j].status = "running" => c.status[j] = "running")
  <2>1. CASE c \in requests
    <3>1. c \in Listing!Poll /\ Told(c.status)
      BY <1>2, <2>1 DEF Listing!TypeOK, Listing!Listing, TellsTrue
    <3>2. DOMAIN c.status \subseteq JobIds
      BY <3>1 DEF Listing!Poll
    <3> QED BY <3>1, <3>2, ToldStays
  <2>2. CASE c \notin requests
    <3>1. PICK b \in requests : b.stage = "sent" /\ c = Listing!Answered(b)
      BY <1>2, <2>2, NewAnswers
    <3>2. jobs' = jobs
      BY <1>2, <2>2, NewAnswers
    <3>3. c.status = [j \in Listing!JobsOf(b.account) |-> jobs[j].status]
      BY <1>2, <3>1, RequestAnswers DEF Listing!ConstantsFit
    <3>4. b.account \in Accounts
      BY DEF Listing!TypeOK, Listing!Listing, Listing!Poll
    <3>5. \A j \in Listing!JobsOf(b.account) : jobs[j] # Listing!NoJob
      BY <3>4 DEF Listing!JobsOf, Listing!NoJob, Listing!ConstantsFit
    <3> QED BY <3>2, <3>3, <3>5
  <2> QED BY <2>1, <2>2
<1> QED BY <1>1, <1>2 DEF TellsTrue, Told
----------------------------------------------------------------------------
(* What is listed. *)

\* A listing stays as true as it was while jobs begin and end.
LEMMA FreshKept ==
  ASSUME Listing!ConstantsFit, Listing!TypeOK, TellsTrue, [Listing!Next]_(Listing!vars), list' = list,
         files' = files \/ \E j \in JobIds : Listing!JobEnds(j),
         NEW names, NEW a \in Accounts, NEW f, Fresh(names, a, f)
  PROVE  Fresh(names, a, f)'
<1> SUFFICES ASSUME NEW n \in Names
             PROVE  \/ n \in names <=> <<a, f, n>> \in files'
                    \/ <<a, f, n>> \in files' /\ Untold(a, f, n)'
  BY DEF Fresh
<1>1. Untold(a, f, n) => Untold(a, f, n)'
  <2> SUFFICES ASSUME NEW j \in JobIds, jobs[j].account = a, jobs[j].makes = <<f, n>>, jobs[j].status = "done",
                      j \in DOMAIN list => list[j] = "running"
               PROVE  jobs'[j] = jobs[j]
    BY DEF Untold
  <2>1. jobs[j] # Listing!NoJob
    BY DEF Listing!NoJob, Listing!ConstantsFit
  <2> QED BY <2>1, JobsAge
<1>2. \/ n \in names <=> <<a, f, n>> \in files
      \/ <<a, f, n>> \in files /\ Untold(a, f, n)
  BY DEF Fresh
<1>3. CASE files' = files
  BY <1>1, <1>2, <1>3
<1>4. ASSUME NEW j \in JobIds, Listing!JobEnds(j), files' # files
      PROVE  \/ n \in names <=> <<a, f, n>> \in files'
             \/ <<a, f, n>> \in files' /\ Untold(a, f, n)'
  <2> DEFINE made == <<jobs[j].account, jobs[j].makes[1], jobs[j].makes[2]>>
  <2>1. /\ jobs[j] # Listing!NoJob /\ jobs[j].status = "running"
        /\ jobs' = [jobs EXCEPT ![j].status = "done"] /\ files' = files \cup {made}
    BY <1>4 DEF Listing!JobEnds
  <2>2. jobs[j] \in Listing!Job
    BY <2>1 DEF Listing!TypeOK
  <2>3. CASE made # <<a, f, n>>
    BY <1>1, <1>2, <2>1, <2>3
  <2>4. CASE made = <<a, f, n>>
    <3>1. jobs'[j] = [jobs[j] EXCEPT !.status = "done"]
      BY <2>1 DEF Listing!TypeOK
    <3>2. jobs[j].makes = <<jobs[j].makes[1], jobs[j].makes[2]>>
      BY <2>2 DEF Listing!Job
    <3>3. jobs[j].account = a /\ jobs[j].makes = <<f, n>>
      BY <2>4, <3>2
    <3>4. jobs'[j].account = a /\ jobs'[j].makes = <<f, n>> /\ jobs'[j].status = "done"
      BY <2>2, <3>1, <3>3 DEF Listing!Job
    <3>5. j \in DOMAIN list => list[j] = "running"
      BY <2>1 DEF TellsTrue, Told
    <3>6. Untold(a, f, n)'
      BY <3>4, <3>5 DEF Untold
    <3> QED BY <2>1, <2>4, <3>6
  <2> QED BY <2>3, <2>4
<1> QED BY <1>3, <1>4

LEMMA QuietListed ==
  ASSUME Listing!ConstantsFit, Listing!TypeOK, TellsTrue, Listed, [Listing!Next]_(Listing!vars),
         UNCHANGED <<list, entries, owner, path>>,
         files' = files \/ \E j \in JobIds : Listing!JobEnds(j),
         Orderly' => Orderly,
         \A c \in Asked' : c.stage = "done" => c \in Asked,
         (Asked' = {} /\ "failed" \notin amiss') => (Asked = {} /\ "failed" \notin amiss)
  PROVE  Listed'
<1> SUFFICES ASSUME Orderly'
             PROVE  /\ \A c \in Asked' : c.stage = "done" => Fresh(c.names, c.account, c.folder)'
                    /\ (Asked' = {} /\ "failed" \notin amiss') => Fresh(entries, owner, path)'
  BY DEF Listed
<1>1. ASSUME NEW c \in Asked', c.stage = "done" PROVE Fresh(c.names, c.account, c.folder)'
  <2>1. c \in Asked /\ Fresh(c.names, c.account, c.folder)
    BY <1>1 DEF Listed
  <2>2. c.account \in Accounts
    BY <2>1 DEF Asked, Listing!TypeOK, Listing!Listing, Listing!Poll
  <2> QED BY <2>1, <2>2, FreshKept
<1>2. ASSUME Asked' = {}, "failed" \notin amiss' PROVE Fresh(entries, owner, path)'
  <2>1. PICK names, a, f : names = entries /\ a = owner /\ f = path
    OBVIOUS
  <2>2. Fresh(names, a, f) /\ a \in Accounts
    BY <1>2, <2>1 DEF Listed, Listing!TypeOK
  <2>3. Fresh(names, a, f)'
    BY <2>2, FreshKept
  <2>4. names = entries' /\ a = owner' /\ f = path'
    BY <2>1
  <2> QED BY <2>3, <2>4 DEF Fresh, Untold
<1> QED BY <1>1, <1>2

\* A listing has just been asked for.
LEMMA AskedAgain ==
  ASSUME NEW a, NEW f, NEW rest, requests' = rest \cup {Listing!ListCall(a, f)}, {c \in rest : c.op = "list"} \subseteq Asked,
         Asked # {} => "crossed" \in amiss'
  PROVE  Listed'
<1> SUFFICES ASSUME Orderly'
             PROVE  /\ \A c \in Asked' : c.stage # "done"
                    /\ Asked' # {}
  BY DEF Listed
<1>1. Asked = {}
  BY DEF Orderly
<1>2. Listing!ListCall(a, f).op = "list" /\ Listing!ListCall(a, f).stage = "sent"
  BY DEF Listing!ListCall
<1>3. Asked' = {Listing!ListCall(a, f)}
  BY <1>1, <1>2 DEF Asked
<1> QED BY <1>2, <1>3

LEMMA ListedKeptByUser ==
  ASSUME Listing!ConstantsFit, Listing!TypeOK, TellsTrue, Listed, [Listing!Next]_(Listing!vars)
  PROVE  /\ \A f \in Folders : Listing!OpenFolder(f) => Listed'
         /\ \A a \in Accounts : Listing!ChangeAccount(a) => Listed'
         /\ \A n \in Names : Listing!Toggle(n) \/ Listing!StartJob(n) => Listed'
         /\ \A m \in {"copy", "move"} : Listing!PutOnClipboard(m) => Listed'
         /\ Listing!Paste \/ Listing!ClickDelete \/ Listing!Confirm \/ Listing!Cancel \/ Listing!Tick \/ UNCHANGED Listing!vars => Listed'
<1> USE DEF Listing!page
<1>1. ASSUME NEW f \in Folders, Listing!OpenFolder(f) PROVE Listed'
  <2>1. requests' = requests \cup {Listing!ListCall(owner, f)} /\ (Asked # {} => "crossed" \in amiss')
    BY <1>1 DEF Listing!OpenFolder, Listing!AskListing, Asked
  <2> QED BY <2>1, AskedAgain DEF Asked
<1>2. ASSUME NEW a \in Accounts, Listing!ChangeAccount(a) PROVE Listed'
  <2>1. requests' = (requests \cup {Listing!PollCall(a)}) \cup {Listing!ListCall(a, Top)} /\ (Asked # {} => "crossed" \in amiss')
    BY <1>2 DEF Listing!ChangeAccount, Asked
  <2>2. Listing!PollCall(a).op = "poll"
    BY DEF Listing!PollCall
  <2>3. {c \in requests \cup {Listing!PollCall(a)} : c.op = "list"} \subseteq Asked
    BY <2>2 DEF Asked
  <2> QED BY <2>1, <2>3, AskedAgain
<1>3. ASSUME NEW n \in Names, Listing!Toggle(n) \/ Listing!StartJob(n) PROVE Listed'
  <2>1. UNCHANGED <<requests, files, list, entries, owner, path, amiss, waits, unseen>>
    BY <1>3 DEF Listing!Toggle, Listing!StartJob
  <2>2. loop' = loop \/ loop = Nobody
    BY <1>3 DEF Listing!Toggle, Listing!StartJob
  <2> QED BY <2>1, <2>2, QuietListed DEF Asked, Orderly
<1>4. ASSUME NEW m \in {"copy", "move"}, Listing!PutOnClipboard(m) PROVE Listed'
  BY <1>4, QuietListed DEF Listing!PutOnClipboard, Asked, Orderly
<1>5. CASE Listing!Paste
  <2>1. loop' = [kind |-> clipboard.mode, todo |-> clipboard.items, folder |-> path, account |-> owner]
        /\ clipboard # Nobody
    BY <1>5 DEF Listing!Paste
  <2>2. loop'.kind = clipboard.mode /\ loop'.account = owner
    BY <2>1
  <2>3. clipboard.mode \in {"copy", "move"}
    BY <2>1 DEF Listing!TypeOK
  <2>4. loop' # Nobody
    <3>1. clipboard \in [mode: {"copy", "move"}, items: SUBSET (Folders \X Names)]
      BY <2>1 DEF Listing!TypeOK
    <3>2. loop' \in Listing!Loop
      BY <2>1, <3>1 DEF Listing!TypeOK, Listing!Loop
    <3> QED BY <3>2 DEF Listing!ConstantsFit
  <2> QED BY <2>2, <2>3, <2>4 DEF Listed, Orderly
<1>6. CASE Listing!ClickDelete \/ Listing!Confirm \/ Listing!Cancel \/ UNCHANGED Listing!vars
  <2>1. UNCHANGED <<requests, files, list, entries, owner, path, amiss, waits, unseen>>
    BY <1>6 DEF Listing!ClickDelete, Listing!Confirm, Listing!Cancel, Listing!vars
  <2>2. loop' = loop \/ loop = Nobody
    BY <1>6 DEF Listing!ClickDelete, Listing!Confirm, Listing!Cancel, Listing!vars
  <2> QED BY <2>1, <2>2, QuietListed DEF Asked, Orderly
<1>7. CASE Listing!Tick
  <2>1. Listing!PollCall(owner).op = "poll"
    BY DEF Listing!PollCall
  <2>2. UNCHANGED <<files, list, entries, owner, path, amiss, waits, unseen, loop>>
        /\ requests' = requests \cup {Listing!PollCall(owner)}
    BY <1>7 DEF Listing!Tick
  <2>3. Asked' = Asked
    BY <2>1, <2>2 DEF Asked
  <2> QED BY <2>2, <2>3, QuietListed DEF Orderly
<1> QED BY <1>1, <1>2, <1>3, <1>4, <1>5, <1>6, <1>7

LEMMA ListedKeptByLoop ==
  ASSUME Listing!ConstantsFit, Listing!TypeOK, TellsTrue, Listed, [Listing!Next]_(Listing!vars)
  PROVE  /\ \A i \in Folders \X Names : Listing!PasteItem(i) \/ Listing!DeleteItem(i) => Listed'
         /\ \A j \in JobIds : Listing!JobAccepted(j) \/ Listing!JobEnds(j) => Listed'
         /\ Listing!EndLoop => Listed'
<1> USE DEF Listing!page
<1>1. ASSUME NEW i \in Folders \X Names, Listing!PasteItem(i) \/ Listing!DeleteItem(i) PROVE Listed'
  <2>1. loop' = [loop EXCEPT !.todo = @ \ {i}] /\ loop \in Listing!Loop /\ loop.kind # "archive"
    BY <1>1 DEF Listing!PasteItem, Listing!DeleteItem, Listing!TypeOK
  <2>2. loop' \in Listing!Loop /\ loop'.kind # "archive"
    BY <2>1 DEF Listing!Loop
  <2> QED BY <2>2 DEF Listed, Orderly, Listing!ConstantsFit
<1>2. ASSUME NEW j \in JobIds, Listing!JobAccepted(j) PROVE Listed'
  <2>1. Listing!PollCall(loop.account).op = "poll"
    BY DEF Listing!PollCall
  <2>2. /\ UNCHANGED <<files, list, entries, owner, path, amiss, waits, unseen>>
        /\ requests' \in {requests, requests \cup {Listing!PollCall(loop.account)}} /\ loop.kind = "archive"
    BY <1>2 DEF Listing!JobAccepted
  <2>3. Asked' = Asked
    BY <2>1, <2>2 DEF Asked
  <2> QED BY <2>2, <2>3, QuietListed DEF Orderly
<1>3. ASSUME NEW j \in JobIds, Listing!JobEnds(j) PROVE Listed'
  <2>1. UNCHANGED <<requests, list, entries, owner, path, amiss, waits, unseen, loop>>
    BY <1>3 DEF Listing!JobEnds
  <2> QED BY <1>3, <2>1, QuietListed DEF Orderly, Asked
<1>4. CASE Listing!EndLoop
  <2>1. requests' = requests \cup {Listing!ListCall(loop.account, loop.folder)} /\ (Asked # {} => "crossed" \in amiss')
    BY <1>4 DEF Listing!EndLoop, Listing!AskListing, Asked
  <2> QED BY <2>1, AskedAgain DEF Asked
<1> QED BY <1>1, <1>2, <1>3, <1>4

LEMMA ListedKeptByServe ==
  ASSUME Listing!ConstantsFit, Listing!TypeOK, TellsTrue, Listed, [Listing!Next]_(Listing!vars), NEW c \in requests, Listing!Serve(c)
  PROVE  Listed'
<1>1. UNCHANGED <<files, jobs, list, entries, owner, path, loop, waits, unseen, amiss>>
  BY DEF Listing!Serve, Listing!page
<1>2. PICK d : requests' = (requests \ {c}) \cup {d} /\ d \in {Listing!Answered(c), [c EXCEPT !.stage = "refused"]}
  BY DEF Listing!Serve
<1>3. d.op = c.op /\ d.account = c.account
  BY <1>2, RequestAnswers DEF Listing!ConstantsFit
<1>4. CASE c.op = "list" /\ d = Listing!Answered(c)
  <2>1. d.names = Listing!NamesIn(c.account, c.folder) /\ d.folder = c.folder
    BY <1>4, RequestAnswers DEF Listing!ConstantsFit
  <2>2. Asked' = (Asked \ {c}) \cup {d}
    BY <1>2, <1>3, <1>4 DEF Asked
  <2>3. Orderly' <=> Orderly
    BY <1>1 DEF Orderly
  <2>4. ASSUME NEW b \in Asked', b.stage = "done", Orderly PROVE Fresh(b.names, b.account, b.folder)'
    <3>1. CASE b = d
      <4>1. PICK names, a, f : names = d.names /\ a = d.account /\ f = d.folder
        OBVIOUS
      <4>2. \A n \in Names : n \in names <=> <<a, f, n>> \in files
        BY <1>3, <2>1, <4>1 DEF Listing!NamesIn
      <4> QED BY <1>1, <3>1, <4>1, <4>2 DEF Fresh
    <3>2. CASE b # d
      <4>1. b \in Asked /\ Fresh(b.names, b.account, b.folder)
        BY <2>2, <2>4, <3>2 DEF Listed
      <4>2. b.account \in Accounts
        BY <4>1 DEF Asked, Listing!TypeOK, Listing!Listing, Listing!Poll
      <4> QED BY <1>1, <4>1, <4>2, FreshKept
    <3> QED BY <3>1, <3>2
  <2> QED BY <2>2, <2>3, <2>4 DEF Listed
<1>5. CASE c.op = "list" /\ d = [c EXCEPT !.stage = "refused"]
  <2>1. d.stage = "refused"
    BY <1>5, RequestAnswers DEF Listing!ConstantsFit
  <2>2. Asked' = (Asked \ {c}) \cup {d}
    BY <1>2, <1>3, <1>5 DEF Asked
  <2> QED BY <1>1, <2>1, <2>2, QuietListed DEF Orderly
<1>6. CASE c.op # "list"
  <2>1. Asked' = Asked
    BY <1>2, <1>3, <1>6 DEF Asked
  <2> QED BY <1>1, <2>1, QuietListed DEF Orderly
<1> QED BY <1>2, <1>4, <1>5, <1>6

\* One answer is of the account chosen, and the only one on its way.
LEMMA ListedKeptByTake ==
  ASSUME Listing!ConstantsFit, Listing!TypeOK, TellsTrue, Listed, OneAccount, [Listing!Next]_(Listing!vars), NEW c \in requests
  PROVE  Listing!TakeListing(c) \/ Listing!TakeRefusal(c) => Listed'
<1>1. CASE Listing!TakeListing(c)
  <2>1. /\ UNCHANGED <<files, jobs, list, owner, loop, waits, unseen>>
        /\ requests' = requests \ {c} /\ c.op = "list" /\ c.stage = "done"
        /\ entries' = c.names /\ path' = c.folder /\ amiss' = amiss \ {"failed"}
    BY <1>1 DEF Listing!TakeListing
  <2>2. Asked' = Asked \ {c} /\ c \in Asked
    BY <2>1 DEF Asked
  <2> SUFFICES ASSUME Orderly
               PROVE  /\ \A b \in Asked' : b.stage = "done" => Fresh(b.names, b.account, b.folder)'
                      /\ Fresh(entries, owner, path)'
    BY <2>1 DEF Listed, Orderly
  <2>3. ASSUME NEW b \in Asked, b.stage = "done" PROVE Fresh(b.names, b.account, b.folder)'
    <3>1. Fresh(b.names, b.account, b.folder)
      BY <2>3 DEF Listed
    <3>2. b.account \in Accounts
      BY DEF Asked, Listing!TypeOK, Listing!Listing, Listing!Poll
    <3> QED BY <2>1, <3>1, <3>2, FreshKept
  <2>4. Fresh(entries, owner, path)'
    <3>1. PICK names, a, f : names = c.names /\ a = c.account /\ f = c.folder
      OBVIOUS
    <3>2. Fresh(names, a, f)'
      BY <2>1, <2>2, <2>3, <3>1
    <3>3. names = entries' /\ a = owner' /\ f = path'
      BY <2>1, <3>1 DEF OneAccount, Orderly
    <3> QED BY <3>2, <3>3 DEF Fresh, Untold
  <2> QED BY <2>2, <2>3, <2>4
<1>2. CASE Listing!TakeRefusal(c)
  <2>1. /\ UNCHANGED <<files, jobs, list, owner, path, loop, waits, unseen>>
        /\ requests' = requests \ {c} /\ c.stage = "refused"
        /\ IF c.op = "list" THEN entries' = {} /\ amiss' = amiss \cup {"failed"} ELSE UNCHANGED <<entries, amiss>>
    BY <1>2 DEF Listing!TakeRefusal
  <2>2. Asked' = Asked \ {c}
    BY <2>1 DEF Asked
  <2>3. CASE c.op # "list"
    BY <2>1, <2>2, <2>3, QuietListed DEF Orderly, Asked
  <2>4. CASE c.op = "list"
    <3> SUFFICES ASSUME Orderly
                 PROVE  \A b \in Asked' : b.stage = "done" => Fresh(b.names, b.account, b.folder)'
      BY <2>1, <2>4 DEF Listed, Orderly
    <3> SUFFICES ASSUME NEW b \in Asked, b.stage = "done" PROVE Fresh(b.names, b.account, b.folder)'
      BY <2>2
    <3>1. Fresh(b.names, b.account, b.folder)
      BY DEF Listed
    <3>2. b.account \in Accounts
      BY DEF Asked, Listing!TypeOK, Listing!Listing, Listing!Poll
    <3> QED BY <2>1, <3>1, <3>2, FreshKept
  <2> QED BY <2>3, <2>4
<1> QED BY <1>1, <1>2

\* A job that has ended is either listed now or was on the page already.
LEMMA FreshAfterPoll ==
  ASSUME Listing!TypeOK, NEW c \in requests, c \in Listing!Poll, list' = c.status, UNCHANGED <<files, jobs>>,
         Listing!JustDone(c) = {}, Listing!Unnoticed(c) = {},
         NEW names, NEW a, NEW f, Fresh(names, a, f)
  PROVE  Fresh(names, a, f)'
<1> SUFFICES ASSUME NEW n \in Names, Untold(a, f, n) PROVE Untold(a, f, n)'
  BY DEF Fresh
<1>1. PICK j \in JobIds : /\ jobs[j].account = a /\ jobs[j].makes = <<f, n>> /\ jobs[j].status = "done"
                          /\ (j \in DOMAIN list => list[j] = "running")
  BY DEF Untold
<1>2. j \in DOMAIN list' => list'[j] = "running"
  BY <1>1 DEF Listing!JustDone, Listing!Unnoticed, Listing!Running
<1> QED BY <1>1, <1>2 DEF Untold

LEMMA ListedKeptByPoll ==
  ASSUME Listing!ConstantsFit, Listing!TypeOK, TellsTrue, Listed, [Listing!Next]_(Listing!vars), NEW c \in requests, Listing!TakePoll(c)
  PROVE  Listed'
<1>1. c \in Listing!Poll /\ list' = c.status
  BY DEF Listing!TakePoll, Listing!TypeOK, Listing!Listing
<1>2. /\ UNCHANGED <<files, jobs, entries, owner, path, loop, waits>>
      /\ unseen' = unseen \cup Listing!Unnoticed(c) /\ c.op = "poll"
  BY DEF Listing!TakePoll
<1>3. CASE Listing!JustDone(c) # {}
  <2>1. requests' = (requests \ {c}) \cup {Listing!ListCall(owner, path)} /\ (Asked # {} => "crossed" \in amiss')
    BY <1>3 DEF Listing!TakePoll, Asked
  <2>2. {b \in requests \ {c} : b.op = "list"} \subseteq Asked
    BY DEF Asked
  <2> QED BY <2>1, <2>2, AskedAgain
<1>4. CASE Listing!JustDone(c) = {}
  <2>1. requests' = requests \ {c} /\ UNCHANGED amiss
    BY <1>4 DEF Listing!TakePoll
  <2>2. Asked' = Asked
    BY <1>2, <2>1 DEF Asked
  <2> SUFFICES ASSUME Orderly'
               PROVE  /\ \A b \in Asked' : b.stage = "done" => Fresh(b.names, b.account, b.folder)'
                      /\ (Asked' = {} /\ "failed" \notin amiss') => Fresh(entries, owner, path)'
    BY DEF Listed
  <2>3. Orderly /\ Listing!Unnoticed(c) = {}
    BY <1>2, <2>1 DEF Orderly
  <2>4. ASSUME NEW b \in Asked', b.stage = "done" PROVE Fresh(b.names, b.account, b.folder)'
    <3>1. Fresh(b.names, b.account, b.folder)
      BY <2>2, <2>3, <2>4 DEF Listed
    <3> QED BY <1>1, <1>2, <1>4, <2>3, <3>1, FreshAfterPoll
  <2>5. ASSUME Asked' = {}, "failed" \notin amiss' PROVE Fresh(entries, owner, path)'
    <3>1. PICK names, a, f : names = entries /\ a = owner /\ f = path
      OBVIOUS
    <3>2. Fresh(names, a, f)
      BY <2>1, <2>2, <2>3, <2>5, <3>1 DEF Listed
    <3>3. Fresh(names, a, f)'
      BY <1>1, <1>2, <1>4, <2>3, <3>2, FreshAfterPoll
    <3>4. names = entries' /\ a = owner' /\ f = path'
      BY <1>2, <3>1
    <3> QED BY <3>3, <3>4 DEF Fresh, Untold
  <2> QED BY <2>4, <2>5
<1> QED BY <1>3, <1>4

LEMMA ListedKept ==
  ASSUME Listing!ConstantsFit, Listing!TypeOK, TellsTrue, Listed, OneAccount, [Listing!Next]_(Listing!vars)
  PROVE  Listed'
<1>1. CASE UNCHANGED Listing!vars
  BY <1>1, ListedKeptByUser
<1>2. CASE Listing!Next
  <2>1. ASSUME NEW c \in requests, Listing!Serve(c) \/ Listing!TakeListing(c) \/ Listing!TakeRefusal(c) \/ Listing!TakePoll(c) PROVE Listed'
    BY <2>1, ListedKeptByServe, ListedKeptByTake, ListedKeptByPoll
  <2>2. CASE Listing!RunLoop
    BY <2>2, ListedKeptByLoop DEF Listing!RunLoop
  <2> QED BY <1>2, <2>1, <2>2, ListedKeptByUser, ListedKeptByLoop DEF Listing!Next, Listing!Answer
<1> QED BY <1>1, <1>2
----------------------------------------------------------------------------
(* The invariant, and what follows from it. *)

LEMMA ListingInit ==
  ASSUME Listing!ConstantsFit, Listing!Init
  PROVE  ListingInv
<1>1. /\ Listing!ListCall(owner, Top) \in Listing!Listing /\ Listing!PollCall(owner) \in Listing!Poll
      /\ Listing!ListCall(owner, Top).op = "list" /\ Listing!ListCall(owner, Top).stage = "sent"
      /\ Listing!ListCall(owner, Top).account = owner
      /\ Listing!PollCall(owner).op = "poll" /\ Listing!PollCall(owner).stage = "sent"
      /\ Listing!PollCall(owner).account = owner
  BY NewListing, NewPoll DEF Listing!Init, Listing!ConstantsFit
<1>2. Listing!TypeOK
  <2>1. DOMAIN list \subseteq JobIds
    BY DEF Listing!Init
  <2>2. jobs \in [JobIds -> Listing!Job \cup {Listing!NoJob}]
    BY DEF Listing!Init
  <2> QED BY <1>1, <2>1, <2>2 DEF Listing!Init, Listing!TypeOK, Listing!ConstantsFit, Listing!File
<1>3. Listing!SelectionIsShown
  BY DEF Listing!Init, Listing!SelectionIsShown
<1>4. Asked = {Listing!ListCall(owner, Top)}
  BY <1>1 DEF Listing!Init, Asked
<1>5. OneAccount /\ OneListing
  BY <1>1, <1>4 DEF Listing!Init, OneAccount, OneListing
<1>6. TellsTrue
  BY <1>1 DEF Listing!Init, TellsTrue, Told
<1>7. Listed
  BY <1>1, <1>4 DEF Listed
<1> QED BY <1>2, <1>3, <1>5, <1>6, <1>7 DEF ListingInv

LEMMA ListingKept ==
  ASSUME Listing!ConstantsFit, ListingInv, [Listing!Next]_(Listing!vars)
  PROVE  ListingInv'
BY ListingTypesKept, SelectionKept, OneAccountKept, OneListingKept, TellsTrueKept, ListedKept
   DEF ListingInv

LEMMA ListingInvariance ==
  ASSUME Listing!ConstantsFit
  PROVE  Listing!Spec => []ListingInv
<1>1. Listing!Init => ListingInv
  BY ListingInit
<1>2. ListingInv /\ [Listing!Next]_(Listing!vars) => ListingInv'
  BY ListingKept
<1> QED BY <1>1, <1>2, PTL DEF Listing!Spec

LEMMA QuietIsCurrent ==
  ASSUME ListingInv
  PROVE  Listing!QuietListingIsCurrent
<1> SUFFICES ASSUME waits, amiss = {}, requests = {}, loop = Nobody, unseen = {},
                    Listing!JobsOf(owner) \subseteq DOMAIN list, Listing!Running(list) = {}
             PROVE  entries = Listing!NamesIn(owner, path)
  BY DEF Listing!QuietListingIsCurrent
<1>1. Fresh(entries, owner, path)
  BY DEF ListingInv, Listed, Orderly, Asked
<1>2. \A n : ~ Untold(owner, path, n)
  BY DEF Untold, Listing!JobsOf, Listing!Running
<1>3. entries \subseteq Names
  BY DEF ListingInv, Listing!TypeOK
<1> QED BY <1>1, <1>2, <1>3 DEF Fresh, Listing!NamesIn

LEMMA StrayStep ==
  ASSUME ListingInv, [Listing!Next]_(Listing!vars), waits, "failed" \notin amiss
  PROVE  strays' = strays
<1>1. CASE Listing!ClickDelete
  <2>1. requests = {} /\ shown = owner
    BY <1>1 DEF Listing!ClickDelete, Listing!MayAct, ListingInv, OneAccount, Asked
  <2>2. selected \subseteq entries
    BY DEF ListingInv, Listing!SelectionIsShown
  <2>3. PICK names \in {selected} \cup {{n} : n \in entries} :
          strays' = strays \cup ({<<owner, path, n>> : n \in names} \ {<<shown, path, n>> : n \in entries})
    BY <1>1 DEF Listing!ClickDelete
  <2>4. names \subseteq entries
    BY <2>2
  <2> QED BY <2>1, <2>3, <2>4
<1>2. CASE ~ Listing!ClickDelete
  <2>1. ASSUME NEW f \in Folders, Listing!OpenFolder(f) PROVE strays' = strays
    BY <2>1 DEF Listing!OpenFolder
  <2>2. ASSUME NEW a \in Accounts, Listing!ChangeAccount(a) PROVE strays' = strays
    BY <2>2 DEF Listing!ChangeAccount
  <2>3. ASSUME NEW n \in Names, Listing!Toggle(n) \/ Listing!StartJob(n) PROVE strays' = strays
    BY <2>3 DEF Listing!Toggle, Listing!StartJob
  <2>4. ASSUME NEW m \in {"copy", "move"}, Listing!PutOnClipboard(m) PROVE strays' = strays
    BY <2>4 DEF Listing!PutOnClipboard
  <2>5. CASE Listing!Paste \/ Listing!Confirm \/ Listing!Cancel \/ Listing!Tick \/ UNCHANGED Listing!vars
    BY <2>5 DEF Listing!Paste, Listing!Confirm, Listing!Cancel, Listing!Tick, Listing!vars
  <2>6. ASSUME NEW i \in Folders \X Names, Listing!PasteItem(i) \/ Listing!DeleteItem(i) PROVE strays' = strays
    BY <2>6 DEF Listing!PasteItem, Listing!DeleteItem
  <2>7. ASSUME NEW j \in JobIds, Listing!JobAccepted(j) \/ Listing!JobEnds(j) PROVE strays' = strays
    BY <2>7 DEF Listing!JobAccepted, Listing!JobEnds
  <2>8. CASE Listing!EndLoop
    BY <2>8 DEF Listing!EndLoop
  <2>9. ASSUME NEW c \in requests, Listing!Serve(c) \/ Listing!TakeListing(c) \/ Listing!TakeRefusal(c) \/ Listing!TakePoll(c) PROVE strays' = strays
    BY <2>9 DEF Listing!Serve, Listing!TakeListing, Listing!TakeRefusal, Listing!TakePoll
  <2> QED BY <1>2, <2>1, <2>2, <2>3, <2>4, <2>5, <2>6, <2>7, <2>8, <2>9
             DEF Listing!Next, Listing!RunLoop, Listing!Answer
<1> QED BY <1>1, <1>2

\* For every set of accounts, folders and files: when all is answered, a user
\* who waited sees what is on the server, unless a job ended before the page
\* heard of it or two listings were on their way at once (Files.jsx:82, 167, 193,
\* FileJobs.jsx:24-32).
THEOREM ListingIsCurrent ==
  ASSUME Listing!ConstantsFit
  PROVE  Listing!Spec => []QuietListingIsCurrent
<1>1. ListingInv => QuietListingIsCurrent
  BY QuietIsCurrent DEF QuietListingIsCurrent
<1> QED BY <1>1, ListingInvariance, PTL

\* What such a user deletes was on screen when the deletion was asked for
\* (Files.jsx:46-47, 98).
THEOREM DeletionsAreOfWhatIsShown ==
  ASSUME Listing!ConstantsFit
  PROVE  Listing!Spec => DeletesWhatIsShownIfListed
<1>1. ListingInv /\ [Listing!Next]_(Listing!vars)
        => [waits /\ "failed" \notin amiss => strays' = strays]_(Listing!vars)
  BY StrayStep
<1> QED BY <1>1, ListingInvariance, PTL
        DEF Listing!Spec, DeletesWhatIsShownIfListed, Listing!DeletesWhatIsShownIfListed

----------------------------------------------------------------------------
(* The cards: a form at rest is of the subject chosen (FormOfSubject), and  *)
(* what a user who waits has not edited is what is stored (FormIsStored).   *)
(* A save is alone on its way where nothing reads by itself (SavesAlone);   *)
(* the others read again after every save.                                 *)

\* What a card is, and its calls in flight.
Kind == Cards!Card[card]
Follows == Kind.fills # "never" /\ Kind.chooses # "keeps"
Reads == {c \in posts : c.op = "read"}
Saves == {c \in posts : c.op = "save"}
Filled == form # Cards!Unfilled

Untimed == Kind.polls = "no" => ~ timer

OneRead == ~ mixed => \A c, d \in Reads : c = d

CallsOfSubject ==
  Kind.chooses = "no" \/ (Kind.chooses = "reads" /\ ~ mixed) => \A c \in posts : c.of = subject

FormOfSubject ==
  Follows /\ Filled /\ (Kind.chooses = "no" \/ (Reads = {} /\ ~ unread /\ ~ mixed))
    => form.of = subject

\* For a user who waits the form holds what is stored, once what was asked
\* has arrived, and so does an answer that is on its way.
Tidy == calm /\ Follows /\ ~ mixed
Settled == Kind.fills = "once" \/ (Reads = {} /\ ~ unread)

FormIsStored == Tidy /\ Saves = {} /\ Settled /\ ~ edited /\ Filled => form.val = stored[form.of]

ReadsAreStored == Tidy /\ Saves = {} => \A c \in Reads : c.stage = "done" => c.val = stored[c.of]

\* Where nothing asks by itself a save is alone on its way, with what the
\* form holds.
SavesAlone ==
  calm /\ Follows /\ Kind.polls = "no"
    => \A c \in Saves :
         /\ posts = {c} /\ Filled /\ c.val = form.val /\ c.of = subject
         /\ c.stage = "done" => c.val = stored[c.of]
         /\ Tidy /\ ~ edited /\ (Kind.fills = "once" \/ ~ unread) => c.val = stored[c.of]

CardsInv ==
  /\ Cards!TypeOK /\ Untimed /\ OneRead /\ CallsOfSubject /\ FormOfSubject
  /\ FormIsStored /\ ReadsAreStored /\ SavesAlone
----------------------------------------------------------------------------
(* The cards. *)

LEMMA CardKinds ==
  ASSUME NEW k \in DOMAIN Cards!Card
  PROVE  /\ Cards!Card[k].fills \in {"reply", "once", "never"} /\ Cards!Card[k].chooses \in {"no", "reads", "keeps"}
         /\ Cards!Card[k].polls \in {"no", "timeout", "interval"}
         /\ (Cards!Card[k].fills = "once" => Cards!Card[k].chooses # "reads" /\ ~ Cards!Card[k].closes)
         /\ (Cards!Card[k].polls # "no" => ~ Cards!Card[k].closes)
         /\ (Cards!Card[k].polls # "no" /\ Cards!Card[k].chooses # "keeps"
               => Cards!Card[k].fills # "once" /\ Cards!Card[k].saves = "always")
<1> USE DEF Cards!Card, Cards!Plain, Cards!Guarded
<1>1. k \in {"backups", "plans", "notifications", "events", "mode", "rules", "malware", "branding",
             "terminal", "php", "limits", "wordpress", "logs", "reusable"}
  OBVIOUS
<1>2. CASE k = "backups"
  BY <1>2 DEF Cards!ScheduleCard
<1>3. CASE k = "plans"
  BY <1>3 DEF Cards!PlanRow
<1>4. CASE k = "notifications"
  BY <1>4 DEF Cards!NotificationForm
<1>5. CASE k = "events"
  BY <1>5 DEF Cards!NotificationEvents
<1>6. CASE k = "mode"
  BY <1>6 DEF Cards!WafMode
<1>7. CASE k = "rules"
  BY <1>7 DEF Cards!WafRules
<1>8. CASE k = "malware"
  BY <1>8 DEF Cards!MalwareSchedule
<1>9. CASE k = "branding"
  BY <1>9 DEF Cards!Branding
<1>10. CASE k = "terminal"
  BY <1>10 DEF Cards!TerminalSettings
<1>11. CASE k = "php"
  BY <1>11 DEF Cards!VersionSettings
<1>12. CASE k = "limits"
  BY <1>12 DEF Cards!ResellerLimits
<1>13. CASE k = "wordpress"
  BY <1>13 DEF Cards!Manage
<1>14. CASE k = "logs"
  BY <1>14 DEF Cards!Logs
<1>15. CASE k = "reusable"
  BY <1>15 DEF Cards!Reusable
<1> QED BY <1>1, <1>2, <1>3, <1>4, <1>5, <1>6, <1>7, <1>8, <1>9, <1>10, <1>11, <1>12, <1>13, <1>14,
           <1>15

LEMMA KindOf ==
  ASSUME Cards!ConstantsFit, Cards!TypeOK
  PROVE  /\ Kind.fills \in {"reply", "once", "never"} /\ Kind.chooses \in {"no", "reads", "keeps"}
         /\ Kind.polls \in {"no", "timeout", "interval"}
         /\ (Kind.fills = "once" => Kind.chooses # "reads" /\ ~ Kind.closes)
         /\ (Kind.polls # "no" => ~ Kind.closes)
         /\ (Kind.polls # "no" /\ Kind.chooses # "keeps" => Kind.fills # "once" /\ Kind.saves = "always")
<1>1. card \in DOMAIN Cards!Card
  BY DEF Cards!TypeOK, Cards!ConstantsFit
<1> QED BY <1>1, CardKinds DEF Kind

\* The calls.

LEMMA NewRead ==
  ASSUME Cards!TypeOK, NEW s \in Accounts
  PROVE  Cards!Read(s) \in Cards!Call /\ Cards!Read(s).op = "read" /\ Cards!Read(s).of = s /\ Cards!Read(s).stage = "sent"
BY DEF Cards!Read, Cards!Call, Cards!TypeOK, Cards!Value

LEMMA NewChange ==
  ASSUME Cards!TypeOK, Cards!ConstantsFit, turns < MaxFormOps, NEW op \in {"save", "other"}, NEW val \in Cards!Value
  PROVE  \E c \in Cards!Call : /\ c = Cards!Change(op, val)
                         /\ c.op = op /\ c.of = subject /\ c.stage = "sent" /\ c.val = val
<1>1. PICK r \in Cards!Call : r = Cards!Read(subject) /\ r.of = subject /\ r.stage = "sent"
  BY NewRead DEF Cards!TypeOK
<1>2. PICK m \in 0..MaxFormOps : m = turns + 1
  BY DEF Cards!TypeOK, Cards!ConstantsFit
<1>3. /\ [r EXCEPT !.op = op, !.n = m, !.val = val] \in Cards!Call
      /\ [r EXCEPT !.op = op, !.n = m, !.val = val].op = op
      /\ [r EXCEPT !.op = op, !.n = m, !.val = val].of = subject
      /\ [r EXCEPT !.op = op, !.n = m, !.val = val].stage = "sent"
      /\ [r EXCEPT !.op = op, !.n = m, !.val = val].val = val
  BY <1>1 DEF Cards!Call
<1> QED BY <1>1, <1>2, <1>3 DEF Cards!Change

LEMMA PostAnswers ==
  ASSUME Cards!TypeOK, NEW c \in posts
  PROVE  /\ Cards!Answered(c) \in Cards!Call /\ Cards!Answered(c).op = c.op /\ Cards!Answered(c).of = c.of /\ Cards!Answered(c).stage = "done"
         /\ (c.op = "read" => Cards!Answered(c).val = stored[c.of]) /\ (c.op # "read" => Cards!Answered(c).val = c.val)
         /\ [c EXCEPT !.stage = "refused"] \in Cards!Call /\ [c EXCEPT !.stage = "refused"].op = c.op
         /\ [c EXCEPT !.stage = "refused"].of = c.of /\ [c EXCEPT !.stage = "refused"].stage = "refused"
         /\ [c EXCEPT !.stage = "refused"].val = c.val
<1>1. c \in Cards!Call
  BY DEF Cards!TypeOK
<1>2. stored[c.of] \in Cards!Value
  BY <1>1 DEF Cards!TypeOK, Cards!Call
<1> QED BY <1>1, <1>2 DEF Cards!Answered, Cards!Call

LEMMA PostServed ==
  ASSUME Cards!TypeOK, NEW c \in posts, Cards!Serve(c)
  PROVE  /\ c.stage = "sent" /\ UNCHANGED <<card, subject, form, edited, known, timer, Cards!bounds, calm, unread, mixed>>
         /\ stored' = stored \/ (c.op = "save" /\ stored' = [stored EXCEPT ![c.of] = c.val])
         /\ \E d \in Cards!Call :
              /\ posts' = (posts \ {c}) \cup {d} /\ d.op = c.op /\ d.of = c.of /\ d.stage \in {"done", "refused"}
              /\ (c.op = "save" => d.val = c.val /\ (d.stage = "done" => stored' = [stored EXCEPT ![c.of] = c.val]))
              /\ (c.op = "read" /\ d.stage = "done" => d.val = stored[d.of])
<1>1. c.stage = "sent" /\ UNCHANGED <<card, subject, form, edited, known, timer, Cards!bounds, calm, unread, mixed>>
  BY DEF Cards!Serve
<1>2. Cards!Carries(c) => /\ c.op = "save" => stored' = [stored EXCEPT ![c.of] = c.val]
                          /\ c.op # "save" => stored' = stored
  BY DEF Cards!Carries
<1>3. CASE Cards!Replace(c, Cards!Answered(c)) /\ Cards!Carries(c)
  <2>1. posts' = (posts \ {c}) \cup {Cards!Answered(c)}
    BY <1>3 DEF Cards!Replace
  <2>2. PICK d : d = Cards!Answered(c)
    OBVIOUS
  <2>3. /\ d \in Cards!Call /\ d.op = c.op /\ d.of = c.of /\ d.stage = "done"
        /\ (c.op = "read" => d.val = stored[d.of]) /\ (c.op # "read" => d.val = c.val)
    BY <2>2, PostAnswers
  <2> QED BY <1>1, <1>2, <1>3, <2>1, <2>2, <2>3
<1>4. ASSUME Cards!Replace(c, [c EXCEPT !.stage = "refused"]), UNCHANGED stored \/ (c.op # "read" /\ Cards!Carries(c))
      PROVE  \E d \in Cards!Call :
               /\ posts' = (posts \ {c}) \cup {d} /\ d.op = c.op /\ d.of = c.of /\ d.stage = "refused" /\ d.val = c.val
  <2>1. posts' = (posts \ {c}) \cup {[c EXCEPT !.stage = "refused"]}
    BY <1>4 DEF Cards!Replace
  <2> QED BY <2>1, PostAnswers
<1>5. CASE Cards!Replace(c, [c EXCEPT !.stage = "refused"]) /\ UNCHANGED <<stored, job>>
  BY <1>1, <1>4, <1>5
<1>6. CASE c.op # "read" /\ Cards!Replace(c, [c EXCEPT !.stage = "refused"]) /\ Cards!Carries(c)
  BY <1>1, <1>2, <1>4, <1>6
<1> QED BY <1>3, <1>5, <1>6 DEF Cards!Serve

LEMMA Saving ==
  ASSUME Cards!TypeOK, Cards!ConstantsFit, Cards!Save
  PROVE  \E c \in Cards!Call :
           /\ posts' = posts \cup {c} /\ c.op = "save" /\ c.of = subject /\ c.stage = "sent" /\ c.val = form.val
<1>1. turns < MaxFormOps /\ form.val \in Cards!Value
  BY DEF Cards!Save, Cards!Begin, Cards!TypeOK
<1> QED BY <1>1, NewChange DEF Cards!Save

LEMMA Doing ==
  ASSUME Cards!TypeOK, Cards!ConstantsFit, Cards!OtherOperation
  PROVE  \E c \in Cards!Call : posts' = posts \cup {c} /\ c.op = "other" /\ c.of = subject /\ c.stage = "sent"
<1>1. turns < MaxFormOps /\ Default \in Cards!Value
  BY DEF Cards!OtherOperation, Cards!Begin, Cards!Value
<1> QED BY <1>1, NewChange DEF Cards!OtherOperation

\* What a handler reads after its call is of the subject of the call.
LEMMA ReadingBack ==
  ASSUME Cards!TypeOK, NEW c \in posts, c.op # "read", Cards!ReadsBack(c)
  PROVE  /\ mixed' = (mixed \/ Cards!Reading)
         /\ \E r \in Cards!Call : /\ r.op = "read" /\ r.of = c.of /\ r.stage = "sent"
                               /\ posts' = (posts \ {c}) \cup {r} /\ Reads' = Reads \cup {r}
                               /\ Saves' = Saves \ {c}
<1>1. c.of \in Accounts
  BY DEF Cards!TypeOK, Cards!Call
<1>2. PICK r \in Cards!Call : r = Cards!Read(c.of) /\ r.op = "read" /\ r.of = c.of /\ r.stage = "sent"
  BY <1>1, NewRead
<1>3. posts' = (posts \ {c}) \cup {r} /\ mixed' = (mixed \/ Cards!Reading)
  BY <1>2 DEF Cards!ReadsBack
<1>4. Reads' = Reads \cup {r} /\ Saves' = Saves \ {c}
  BY <1>2, <1>3 DEF Reads, Saves
<1> QED BY <1>2, <1>3, <1>4

LEMMA CardTypesKept ==
  ASSUME Cards!ConstantsFit, Cards!TypeOK, [Cards!Next]_(Cards!vars)
  PROVE  Cards!TypeOK'
<1> USE DEF Cards!watch, Cards!bounds
<1>1. ASSUME NEW s \in Accounts, Cards!Choose(s) PROVE Cards!TypeOK'
  <2>1. posts' \subseteq Cards!Call /\ mixed' \in BOOLEAN
    BY <1>1, NewRead DEF Cards!Choose, Cards!TypeOK
  <2>2. turns' \in 0..MaxFormOps /\ edits' = edits
    BY <1>1 DEF Cards!Choose, Cards!Begin, Cards!TypeOK, Cards!ConstantsFit
  <2>3. edited' \in BOOLEAN /\ timer' \in BOOLEAN
    BY <1>1 DEF Cards!Choose, Cards!TypeOK
  <2>4. form' \in [of: Accounts \cup {Default}, val: Cards!Value]
    <3>1. Cards!Unfilled \in [of: Accounts \cup {Default}, val: Cards!Value]
      BY DEF Cards!Unfilled, Cards!Value
    <3> QED BY <1>1, <3>1 DEF Cards!Choose, Cards!TypeOK
  <2> QED BY <1>1, <2>1, <2>2, <2>3, <2>4 DEF Cards!Choose, Cards!TypeOK
<1>2. ASSUME NEW s \in Accounts, Cards!ChooseOwner(s) PROVE Cards!TypeOK'
  BY <1>2 DEF Cards!ChooseOwner, Cards!Begin, Cards!TypeOK, Cards!ConstantsFit
<1>3. CASE Cards!Edit
  <2>1. edits + 1 \in 0..MaxKeys /\ edits + 1 \in Cards!Value
    BY <1>3 DEF Cards!Edit, Cards!TypeOK, Cards!ConstantsFit, Cards!Value
  <2>2. form' \in [of: Accounts \cup {Default}, val: Cards!Value]
    BY <1>3, <2>1 DEF Cards!Edit, Cards!TypeOK
  <2> QED BY <1>3, <2>1, <2>2 DEF Cards!Edit, Cards!TypeOK
<1>4. CASE Cards!Save
  <2>1. posts' \subseteq Cards!Call
    BY <1>4, Saving DEF Cards!TypeOK
  <2> QED BY <1>4, <2>1 DEF Cards!Save, Cards!Begin, Cards!TypeOK, Cards!ConstantsFit
<1>5. CASE Cards!OtherOperation
  <2>1. posts' \subseteq Cards!Call
    BY <1>5, Doing DEF Cards!TypeOK
  <2> QED BY <1>5, <2>1 DEF Cards!OtherOperation, Cards!Begin, Cards!TypeOK, Cards!ConstantsFit
<1>6. ASSUME NEW c \in posts, Cards!Serve(c) PROVE Cards!TypeOK'
  <2>1. PICK d \in Cards!Call : posts' = (posts \ {c}) \cup {d}
    BY <1>6, PostServed
  <2>2. stored' = stored \/ stored' = [stored EXCEPT ![c.of] = c.val]
    BY <1>6, PostServed
  <2>3. c.val \in Cards!Value
    BY DEF Cards!TypeOK, Cards!Call
  <2>4. job' \in {"none", "running", "ended"}
    BY <1>6 DEF Cards!Serve, Cards!Carries, Cards!TypeOK
  <2> QED BY <1>6, <2>1, <2>2, <2>3, <2>4 DEF Cards!Serve, Cards!TypeOK
<1>7. ASSUME NEW c \in posts, Cards!TakeRead(c) PROVE Cards!TypeOK'
  <2>1. c.of \in Accounts /\ c.val \in Cards!Value /\ c.running \in BOOLEAN
    BY DEF Cards!TypeOK, Cards!Call
  <2>2. [of |-> c.of, val |-> c.val] \in [of: Accounts \cup {Default}, val: Cards!Value]
    BY <2>1
  <2>3. /\ form' = form \/ form' = [of |-> c.of, val |-> c.val]
        /\ edited' = edited \/ edited' = FALSE
    BY <1>7 DEF Cards!TakeRead
  <2>4. timer' \in BOOLEAN
    BY <1>7 DEF Cards!TakeRead
  <2> QED BY <1>7, <2>1, <2>2, <2>3, <2>4 DEF Cards!TakeRead, Cards!TypeOK
<1>8. ASSUME NEW c \in posts, Cards!TakeNoRead(c) PROVE Cards!TypeOK'
  <2>1. Cards!Unfilled \in [of: Accounts \cup {Default}, val: Cards!Value]
    BY DEF Cards!Unfilled, Cards!Value
  <2> QED BY <1>8, <2>1 DEF Cards!TakeNoRead, Cards!TypeOK
<1>9. ASSUME NEW c \in posts, Cards!TakeSaved(c) \/ Cards!TakeNotSaved(c) \/ Cards!TakeOther(c) PROVE Cards!TypeOK'
  <2>1. Cards!Unfilled \in [of: Accounts \cup {Default}, val: Cards!Value]
    BY DEF Cards!Unfilled, Cards!Value
  <2>2. c.op # "read"
    BY <1>9 DEF Cards!TakeSaved, Cards!TakeNotSaved, Cards!TakeOther
  <2>3. Cards!ReadsBack(c) \/ (posts' = posts \ {c} /\ UNCHANGED mixed)
    BY <1>9 DEF Cards!TakeSaved, Cards!TakeNotSaved, Cards!TakeOther
  <2>4. posts' \subseteq Cards!Call /\ mixed' \in BOOLEAN
    BY <2>2, <2>3, ReadingBack DEF Cards!TypeOK, Cards!Reading
  <2>5. edited' \in BOOLEAN /\ (form' = form \/ form' = Cards!Unfilled)
    BY <1>9 DEF Cards!TakeSaved, Cards!TakeNotSaved, Cards!TakeOther, Cards!TypeOK
  <2>6. UNCHANGED <<card, stored, subject, Cards!watch, Cards!bounds, calm, unread>>
    BY <1>9 DEF Cards!TakeSaved, Cards!TakeNotSaved, Cards!TakeOther
  <2> QED BY <2>1, <2>4, <2>5, <2>6 DEF Cards!TypeOK
<1>11. CASE Cards!Tick
  <2>1. posts' \subseteq Cards!Call /\ mixed' \in BOOLEAN
    BY <1>11, NewRead DEF Cards!Tick, Cards!Asks, Cards!TypeOK, Cards!Reading
  <2> QED BY <1>11, <2>1 DEF Cards!Tick, Cards!TypeOK
<1>12. CASE Cards!JobEnds
  BY <1>12 DEF Cards!JobEnds, Cards!TypeOK
<1>13. CASE UNCHANGED Cards!vars
  BY <1>13 DEF Cards!vars, Cards!TypeOK
<1> QED BY <1>1, <1>2, <1>3, <1>4, <1>5, <1>6, <1>7, <1>8, <1>9, <1>11, <1>12, <1>13
           DEF Cards!Next, Cards!Answer
----------------------------------------------------------------------------
(* What the form holds.  The parts of the invariant besides the types:     *)
Sound ==
  /\ Untimed /\ OneRead /\ CallsOfSubject /\ FormOfSubject
  /\ FormIsStored /\ ReadsAreStored /\ SavesAlone

\* Whoever reads again: what the form holds may be of anything meanwhile.
LEMMA AskingKeeps ==
  ASSUME Cards!ConstantsFit, Cards!TypeOK, Sound, UNCHANGED <<card, subject, form>>,
         NEW r \in Cards!Call, r.op = "read", r.stage = "sent", r.of = subject \/ \E c \in posts : r.of = c.of,
         posts' \subseteq posts \cup {r}, Reads' = Reads \cup {r},
         mixed' = (mixed \/ Cards!Reading)
  PROVE  OneRead' /\ CallsOfSubject' /\ FormOfSubject' /\ ReadsAreStored'
<1> DEFINE K == Kind
<1>1. K' = K
  BY DEF Kind
<1>2. Cards!Reading <=> Reads # {}
  BY DEF Cards!Reading, Reads
<1>3. OneRead'
  BY <1>2 DEF OneRead, Sound
<1>4. CallsOfSubject'
  BY <1>1, <1>2 DEF CallsOfSubject, Sound
<1>5. FormOfSubject'
  BY <1>1, <1>2 DEF FormOfSubject, Sound, Follows, Filled
<1>6. ReadsAreStored'
  BY <1>2 DEF ReadsAreStored, Tidy
<1> QED BY <1>3, <1>4, <1>5, <1>6

LEMMA ChooseKeeps ==
  ASSUME Cards!ConstantsFit, Cards!TypeOK, Sound, NEW s \in Accounts, Cards!Choose(s)
  PROVE  Sound'
<1>1. PICK r \in Cards!Call : r = Cards!Read(s) /\ r.op = "read" /\ r.of = s /\ r.stage = "sent"
  BY NewRead
<1>2. /\ Kind' = Kind /\ Kind.chooses = "reads" /\ subject' = s /\ calm' = calm
      /\ posts' = posts \cup {r} /\ mixed' = (mixed \/ posts # {}) /\ (calm => posts = {})
      /\ timer' = IF Kind.polls = "timeout" THEN known ELSE timer
  BY <1>1 DEF Cards!Choose, Kind, Cards!Begin, Cards!MayAct
<1>3. Reads' = Reads \cup {r} /\ Saves' = Saves
  BY <1>1, <1>2 DEF Reads, Saves
<1>4. Kind.fills # "once"
  BY <1>2, KindOf
<1>5. Untimed'
  BY <1>2 DEF Untimed, Sound
<1>6. posts = {} => Reads = {}
  BY DEF Reads
<1>7. OneRead'
  BY <1>2, <1>3, <1>6 DEF OneRead
<1>8. CallsOfSubject'
  BY <1>1, <1>2 DEF CallsOfSubject
<1>9. FormOfSubject' /\ FormIsStored'
  BY <1>1, <1>2, <1>3, <1>4 DEF FormOfSubject, FormIsStored, Settled
<1>10. ReadsAreStored'
  BY <1>1, <1>2, <1>3, <1>6 DEF ReadsAreStored, Tidy
<1>11. SavesAlone'
  BY <1>2, <1>3 DEF SavesAlone, Saves
<1> QED BY <1>5, <1>7, <1>8, <1>9, <1>10, <1>11 DEF Sound

\* Another operation is a call that touches nothing the form holds.
LEMMA OtherKeeps ==
  ASSUME Cards!ConstantsFit, Cards!TypeOK, Sound, Cards!OtherOperation
  PROVE  Sound'
<1>1. PICK c \in Cards!Call : posts' = posts \cup {c} /\ c.op = "other" /\ c.of = subject /\ c.stage = "sent"
  BY Doing
<1>2. /\ Kind' = Kind /\ UNCHANGED <<stored, subject, form, edited, timer, calm, unread, mixed>> /\ (calm => posts = {})
  BY DEF Cards!OtherOperation, Kind, Cards!watch, Cards!Begin, Cards!MayAct
<1>3. Reads' = Reads /\ Saves' = Saves
  BY <1>1 DEF Reads, Saves
<1>4. Untimed' /\ OneRead' /\ FormOfSubject' /\ FormIsStored' /\ ReadsAreStored'
  BY <1>2, <1>3 DEF Sound, Untimed, OneRead, FormOfSubject, FormIsStored, ReadsAreStored, Follows, Filled, Tidy, Settled
<1>5. CallsOfSubject'
  BY <1>1, <1>2 DEF Sound, CallsOfSubject
<1>6. SavesAlone'
  BY <1>2, <1>3 DEF SavesAlone, Saves
<1> QED BY <1>4, <1>5, <1>6 DEF Sound

LEMMA OtherTakenKeeps ==
  ASSUME Cards!ConstantsFit, Cards!TypeOK, Sound, NEW c \in posts, Cards!TakeOther(c)
  PROVE  Sound'
<1>1. /\ Kind' = Kind /\ UNCHANGED <<card, stored, subject, form, edited, timer, calm, unread>>
      /\ c.op = "other" /\ Cards!ReadsBack(c)
  BY DEF Cards!TakeOther, Kind, Cards!watch
<1>2. PICK r \in Cards!Call : /\ r.op = "read" /\ r.of = c.of /\ r.stage = "sent"
                        /\ posts' = (posts \ {c}) \cup {r} /\ Reads' = Reads \cup {r} /\ Saves' = Saves \ {c}
  BY <1>1, ReadingBack
<1>3. mixed' = (mixed \/ Cards!Reading) /\ Saves' = Saves
  BY <1>1, <1>2, ReadingBack DEF Saves
<1>4. posts' \subseteq posts \cup {r}
  BY <1>2
<1>5. OneRead' /\ CallsOfSubject' /\ FormOfSubject' /\ ReadsAreStored'
  BY <1>1, <1>2, <1>3, <1>4, AskingKeeps
<1>6. Untimed'
  BY <1>1 DEF Untimed, Sound
<1>7. FormIsStored'
  BY <1>1, <1>2, <1>3 DEF FormIsStored, Sound, Settled, Tidy, Follows, Filled
<1>8. SavesAlone'
  <2>1. calm /\ Follows /\ Kind.polls = "no" => Saves = {}
    BY <1>1 DEF SavesAlone, Sound, Saves
  <2> QED BY <1>1, <1>3, <2>1 DEF SavesAlone, Follows
<1> QED BY <1>5, <1>6, <1>7, <1>8 DEF Sound

LEMMA TickKeeps ==
  ASSUME Cards!ConstantsFit, Cards!TypeOK, Sound, Cards!Tick
  PROVE  Sound'
<1>1. PICK r \in Cards!Call : r = Cards!Read(subject) /\ r.op = "read" /\ r.of = subject /\ r.stage = "sent"
  BY NewRead DEF Cards!TypeOK
<1>2. /\ Kind' = Kind /\ UNCHANGED <<card, stored, subject, form, edited, calm, unread>>
      /\ mixed' = (mixed \/ Cards!Reading) /\ posts' = posts \cup {r} /\ timer
  BY <1>1 DEF Cards!Tick, Kind, Cards!Asks
<1>3. Reads' = Reads \cup {r} /\ Saves' = Saves
  BY <1>1, <1>2 DEF Reads, Saves
<1>4. OneRead' /\ CallsOfSubject' /\ FormOfSubject' /\ ReadsAreStored'
  BY <1>1, <1>2, <1>3, AskingKeeps
<1>5. Untimed'
  BY <1>2 DEF Untimed, Sound
<1>6. FormIsStored'
  BY <1>1, <1>2, <1>3 DEF FormIsStored, Sound, Settled, Tidy, Follows, Filled
<1>7. SavesAlone'
  BY <1>2 DEF SavesAlone, Untimed, Sound
<1> QED BY <1>4, <1>5, <1>6, <1>7 DEF Sound

LEMMA PostServedKeeps ==
  ASSUME Cards!ConstantsFit, Cards!TypeOK, Sound, NEW c \in posts, Cards!Serve(c)
  PROVE  Sound'
<1>1. UNCHANGED <<card, subject, form, edited, known, timer, Cards!bounds, calm, unread, mixed>> /\ c.stage = "sent"
  BY PostServed
<1>2. Kind' = Kind /\ timer' = timer /\ c \in Cards!Call
  BY <1>1 DEF Kind, Cards!TypeOK
<1>3. PICK d \in Cards!Call :
        /\ posts' = (posts \ {c}) \cup {d} /\ d.op = c.op /\ d.of = c.of /\ d.stage \in {"done", "refused"}
        /\ (c.op = "save" => d.val = c.val /\ (d.stage = "done" => stored' = [stored EXCEPT ![c.of] = c.val]))
        /\ (c.op = "read" /\ d.stage = "done" => d.val = stored[d.of])
  BY PostServed
<1>4. stored' = stored \/ (c.op = "save" /\ stored' = [stored EXCEPT ![c.of] = c.val])
  BY PostServed
<1>5. Untimed'
  BY <1>2 DEF Untimed, Sound
<1>6. CASE c.op = "read"
  <2>1. Reads' = (Reads \ {c}) \cup {d} /\ Saves' = Saves /\ c \in Reads /\ stored' = stored
    BY <1>3, <1>4, <1>6 DEF Reads, Saves
  <2>2. OneRead'
    BY <1>1, <2>1 DEF OneRead, Sound
  <2>3. CallsOfSubject'
    BY <1>1, <1>2, <1>3 DEF CallsOfSubject, Sound
  <2>4. FormOfSubject' /\ FormIsStored'
    BY <1>1, <1>2, <2>1 DEF FormOfSubject, FormIsStored, Sound, Settled, Tidy, Follows, Filled
  <2>5. ReadsAreStored'
    BY <1>1, <1>2, <1>3, <1>6, <2>1 DEF ReadsAreStored, Sound, Tidy, Follows
  <2>6. SavesAlone'
    <3>1. c \notin Saves
      BY <1>6 DEF Saves
    <3> QED BY <1>1, <1>2, <2>1, <3>1 DEF SavesAlone, Sound, Follows
  <2> QED BY <1>5, <2>2, <2>3, <2>4, <2>5, <2>6 DEF Sound
<1>7. CASE c.op = "save"
  <2>1. Reads' = Reads /\ Saves' = (Saves \ {c}) \cup {d} /\ c \in Saves
    BY <1>3, <1>7 DEF Reads, Saves
  <2>2. OneRead' /\ CallsOfSubject' /\ FormOfSubject'
    BY <1>1, <1>2, <1>3, <2>1 DEF OneRead, CallsOfSubject, FormOfSubject, Sound, Follows, Filled
  <2>3. FormIsStored' /\ ReadsAreStored'
    BY <2>1 DEF FormIsStored, ReadsAreStored
  <2>4. SavesAlone'
    <3> SUFFICES ASSUME calm, Follows, Kind.polls = "no", NEW b \in Saves'
                 PROVE  /\ posts' = {b} /\ Filled /\ b.val = form.val /\ b.of = subject
                        /\ (b.stage = "done" => b.val = stored'[b.of])
                        /\ (Tidy /\ ~ edited /\ (Kind.fills = "once" \/ ~ unread) => b.val = stored'[b.of])
      BY <1>1, <1>2 DEF SavesAlone, Follows, Filled, Tidy
    <3>1. /\ posts = {c} /\ Filled /\ c.val = form.val /\ c.of = subject
          /\ (Tidy /\ ~ edited /\ (Kind.fills = "once" \/ ~ unread) => c.val = stored[c.of])
      BY <2>1 DEF SavesAlone, Sound
    <3>2. posts' = {d} /\ b = d /\ d.val = form.val /\ d.of = subject
      BY <1>3, <1>7, <2>1, <3>1 DEF Saves
    <3>3. stored' = [stored EXCEPT ![c.of] = c.val] => stored'[c.of] = c.val
      BY <1>2 DEF Cards!TypeOK, Cards!Call
    <3> QED BY <1>3, <1>4, <1>7, <3>1, <3>2, <3>3
  <2> QED BY <1>5, <2>2, <2>3, <2>4 DEF Sound
<1>8. CASE c.op = "other"
  <2>1. Reads' = Reads /\ Saves' = Saves /\ stored' = stored /\ c \notin Saves
    BY <1>3, <1>4, <1>8 DEF Reads, Saves
  <2>2. OneRead' /\ FormOfSubject' /\ FormIsStored' /\ ReadsAreStored'
    BY <1>1, <1>2, <2>1 DEF OneRead, FormOfSubject, FormIsStored, ReadsAreStored, Sound, Settled, Tidy, Follows, Filled
  <2>3. CallsOfSubject'
    BY <1>1, <1>2, <1>3 DEF CallsOfSubject, Sound
  <2>4. SavesAlone'
    BY <1>1, <1>2, <2>1 DEF SavesAlone, Sound, Follows
  <2> QED BY <1>5, <2>2, <2>3, <2>4 DEF Sound
<1> QED BY <1>2, <1>6, <1>7, <1>8 DEF Cards!Call

LEMMA ReadTakenKeeps ==
  ASSUME Cards!ConstantsFit, Cards!TypeOK, Sound, NEW c \in posts, Cards!TakeRead(c) \/ Cards!TakeNoRead(c)
  PROVE  Sound'
<1>1. /\ Kind' = Kind /\ UNCHANGED <<stored, subject, calm, mixed>> /\ c.op = "read"
      /\ posts' = posts \ {c}
  BY DEF Cards!TakeRead, Cards!TakeNoRead, Kind
<1>2. Reads' = Reads \ {c} /\ Saves' = Saves /\ c \in Reads /\ c \notin Saves
  BY <1>1 DEF Reads, Saves
<1>3. Untimed'
  BY <1>1 DEF Untimed, Sound, Cards!TakeRead, Cards!TakeNoRead, Kind, Cards!watch
<1>4. OneRead' /\ CallsOfSubject'
  BY <1>1, <1>2 DEF OneRead, CallsOfSubject, Sound
<1>5. ReadsAreStored'
  BY <1>1, <1>2 DEF ReadsAreStored, Sound, Tidy, Follows
<1>6. SavesAlone'
  BY <1>1, <1>2 DEF SavesAlone, Sound, Follows
<1>7. CASE Cards!TakeRead(c) /\ Cards!Fills
  <2>1. form' = [of |-> c.of, val |-> c.val] /\ c.stage = "done"
    BY <1>7 DEF Cards!TakeRead
  <2>2. form'.of = c.of /\ form'.val = c.val
    BY <2>1
  <2>3. FormOfSubject'
    <3>1. Follows => Kind.chooses \in {"no", "reads"}
      BY KindOf DEF Follows
    <3> QED BY <1>1, <1>2, <2>2, <3>1 DEF FormOfSubject, CallsOfSubject, Sound, Follows
  <2>4. FormIsStored'
    BY <1>1, <1>2, <2>1, <2>2 DEF FormIsStored, ReadsAreStored, Sound, Tidy, Follows
  <2> QED BY <1>3, <1>4, <1>5, <1>6, <2>3, <2>4 DEF Sound
<1>8. CASE Cards!TakeRead(c) /\ ~ Cards!Fills
  <2>1. UNCHANGED <<form, edited>>
    BY <1>8 DEF Cards!TakeRead
  <2>2. Follows => Kind.fills = "once" /\ Kind.chooses = "no"
    BY <1>8, KindOf DEF Follows, Cards!Fills, Kind
  <2>3. FormOfSubject'
    BY <1>1, <2>1, <2>2 DEF FormOfSubject, Sound, Follows, Filled
  <2>4. FormIsStored'
    BY <1>1, <1>2, <2>1, <2>2 DEF FormIsStored, Sound, Tidy, Follows, Settled, Filled
  <2> QED BY <1>3, <1>4, <1>5, <1>6, <2>3, <2>4 DEF Sound
<1>9. CASE Cards!TakeNoRead(c)
  <2>1. (form' = Cards!Unfilled \/ UNCHANGED <<form, edited>>) /\ unread' = TRUE
    BY <1>9 DEF Cards!TakeNoRead
  <2>2. FormOfSubject'
    BY <1>1, <2>1 DEF FormOfSubject, Sound, Follows, Filled
  <2>3. FormIsStored'
    BY <1>1, <1>2, <2>1 DEF FormIsStored, Sound, Tidy, Follows, Settled, Filled
  <2> QED BY <1>3, <1>4, <1>5, <1>6, <2>2, <2>3 DEF Sound
<1> QED BY <1>7, <1>8, <1>9

\* A save that was alone on its way: the form holds what is stored.
LEMMA LoneSave ==
  ASSUME Cards!ConstantsFit, Cards!TypeOK, Sound, NEW c \in posts, c.op = "save", Tidy, Kind.polls = "no"
  PROVE  /\ Reads = {} /\ Saves = {c} /\ Filled
         /\ (Kind.fills = "once" \/ ~ unread) => form.of = subject
         /\ (c.stage = "done" \/ (~ edited /\ (Kind.fills = "once" \/ ~ unread)))
              => form.val = stored[subject]
<1>1. c \in Saves
  BY DEF Saves
<1>2. /\ posts = {c} /\ Filled /\ c.val = form.val /\ c.of = subject
      /\ (c.stage = "done" => c.val = stored[c.of])
      /\ (~ edited /\ (Kind.fills = "once" \/ ~ unread) => c.val = stored[c.of])
  BY <1>1 DEF SavesAlone, Sound, Tidy
<1>3. Reads = {} /\ Saves = {c}
  BY <1>2 DEF Reads, Saves
<1>4. ASSUME Kind.fills = "once" \/ ~ unread PROVE form.of = subject
  <2>1. Kind.fills = "once" => Kind.chooses = "no"
    BY KindOf DEF Tidy, Follows
  <2> QED BY <1>2, <1>3, <1>4, <2>1 DEF FormOfSubject, Sound, Tidy
<1> QED BY <1>2, <1>3, <1>4

\* The three ways in which the page goes on after a save.
LEMMA AfterSave ==
  ASSUME NEW c \in posts, Cards!TakeSaved(c) \/ Cards!TakeNotSaved(c)
  PROVE  /\ Kind' = Kind /\ UNCHANGED <<card, stored, subject, calm, unread, timer>> /\ c.op = "save"
         /\ \/ UNCHANGED form /\ Cards!ReadsBack(c) /\ (c.stage = "done" \/ UNCHANGED edited)
            \/ Kind.closes /\ form' = Cards!Unfilled /\ posts' = posts \ {c} /\ UNCHANGED mixed
            \/ UNCHANGED <<form, edited, mixed>> /\ posts' = posts \ {c} /\ Kind.saves # "always"
<1>1. CASE Cards!TakeSaved(c)
  BY <1>1 DEF Cards!TakeSaved, Kind, Cards!watch
<1>2. CASE Cards!TakeNotSaved(c)
  BY <1>2 DEF Cards!TakeNotSaved, Kind, Cards!watch
<1> QED BY <1>1, <1>2

LEMMA SaveTakenKeeps ==
  ASSUME Cards!ConstantsFit, Cards!TypeOK, Sound, NEW c \in posts, Cards!TakeSaved(c) \/ Cards!TakeNotSaved(c)
  PROVE  Sound'
<1>1. Kind' = Kind /\ UNCHANGED <<card, stored, subject, calm, unread, timer>> /\ c.op = "save"
  BY AfterSave
<1>2. Untimed'
  BY <1>1 DEF Untimed, Sound
<1>3. Saves' = Saves \ {c} /\ c \in Saves
  BY <1>1, AfterSave, ReadingBack DEF Saves
<1>4. SavesAlone'
  <2> SUFFICES ASSUME calm, Follows, Kind.polls = "no" PROVE Saves' = {}
    BY <1>1 DEF SavesAlone, Follows
  <2>1. posts = {c}
    BY <1>3 DEF SavesAlone, Sound
  <2> QED BY <1>3, <2>1 DEF Saves
<1>5. ASSUME UNCHANGED form, Cards!ReadsBack(c), c.stage = "done" \/ UNCHANGED edited
      PROVE  Sound'
  <2>1. PICK r \in Cards!Call : /\ r.op = "read" /\ r.of = c.of /\ r.stage = "sent"
                           /\ posts' = (posts \ {c}) \cup {r} /\ Reads' = Reads \cup {r}
    BY <1>1, <1>5, ReadingBack
  <2>2. mixed' = (mixed \/ Cards!Reading) /\ posts' \subseteq posts \cup {r}
    BY <1>1, <1>5, <2>1, ReadingBack
  <2>3. OneRead' /\ CallsOfSubject' /\ FormOfSubject' /\ ReadsAreStored'
    BY <1>1, <1>5, <2>1, <2>2, AskingKeeps
  <2>4. FormIsStored'
    <3> SUFFICES ASSUME Tidy, Kind.fills = "once", c.stage = "done" \/ ~ edited PROVE form.val = stored[form.of]
      <4>1. Reads' # {}
        BY <2>1
      <4>2. (Tidy' => Tidy) /\ (Settled' => Kind.fills = "once")
        BY <1>1, <1>5, <2>2, <4>1 DEF Tidy, Follows, Settled
      <4>3. ~ edited' /\ c.stage # "done" => ~ edited
        BY <1>5
      <4> QED BY <1>1, <1>5, <4>2, <4>3 DEF FormIsStored
    <3>1. Kind.polls = "no"
      BY KindOf DEF Tidy, Follows
    <3> QED BY <1>1, <3>1, LoneSave
  <2> QED BY <1>2, <1>4, <2>3, <2>4 DEF Sound
<1>6. ASSUME posts' = posts \ {c}, UNCHANGED mixed, Tidy => Kind.polls = "no"
      PROVE  Reads' = Reads /\ OneRead' /\ CallsOfSubject' /\ ReadsAreStored'
  <2>1. Reads' = Reads
    BY <1>1, <1>6 DEF Reads
  <2>2. OneRead' /\ CallsOfSubject'
    BY <1>1, <1>6, <2>1 DEF OneRead, CallsOfSubject, Sound
  <2>3. Tidy => Reads = {}
    BY <1>1, <1>6, LoneSave
  <2>4. ReadsAreStored'
    BY <1>1, <1>6, <2>1, <2>3 DEF ReadsAreStored, Tidy, Follows
  <2> QED BY <2>1, <2>2, <2>4
<1>7. ASSUME Kind.closes, form' = Cards!Unfilled, posts' = posts \ {c}, UNCHANGED mixed
      PROVE  Sound'
  <2>1. Kind.polls = "no"
    BY <1>7, KindOf
  <2>2. FormOfSubject' /\ FormIsStored'
    BY <1>7 DEF FormOfSubject, FormIsStored, Filled
  <2> QED BY <1>2, <1>4, <1>6, <1>7, <2>1, <2>2 DEF Sound
<1>8. ASSUME UNCHANGED <<form, edited, mixed>>, posts' = posts \ {c}, Kind.saves # "always"
      PROVE  Sound'
  <2>1. Tidy => Kind.polls = "no"
    BY <1>8, KindOf DEF Tidy, Follows
  <2>2. Reads' = Reads /\ OneRead' /\ CallsOfSubject' /\ ReadsAreStored'
    BY <1>6, <1>8, <2>1
  <2>3. FormOfSubject'
    BY <1>1, <1>8, <2>2 DEF FormOfSubject, Sound, Follows, Filled
  <2>4. FormIsStored'
    <3> SUFFICES ASSUME Tidy, ~ edited, Kind.fills = "once" \/ ~ unread PROVE form.val = stored[form.of]
      BY <1>1, <1>8 DEF FormIsStored, Tidy, Follows, Settled
    <3> QED BY <1>1, <2>1, LoneSave
  <2> QED BY <1>2, <1>4, <2>2, <2>3, <2>4 DEF Sound
<1> QED BY <1>5, <1>7, <1>8, AfterSave

LEMMA EditKeeps ==
  ASSUME Cards!ConstantsFit, Cards!TypeOK, Sound, Cards!Edit
  PROVE  Sound'
<1>1. /\ Kind' = Kind /\ UNCHANGED <<stored, subject, timer, posts, calm, unread, mixed>> /\ edited' = TRUE
      /\ (calm => posts = {}) /\ (Follows => Filled) /\ form' = [form EXCEPT !.val = edits + 1]
  BY DEF Cards!Edit, Kind, Cards!watch, Cards!MayAct, Cards!Drawn, Filled, Follows
<1>2. form'.of = form.of
  BY <1>1 DEF Cards!TypeOK
<1>3. Reads' = Reads /\ Saves' = Saves
  BY <1>1 DEF Reads, Saves
<1>4. Untimed' /\ OneRead' /\ CallsOfSubject'
  BY <1>1, <1>3 DEF Sound, Untimed, OneRead, CallsOfSubject
<1>5. FormOfSubject'
  BY <1>1, <1>2, <1>3 DEF Sound, FormOfSubject, Follows
<1>6. FormIsStored' /\ ReadsAreStored'
  BY <1>1, <1>3 DEF Sound, FormIsStored, ReadsAreStored, Tidy, Follows
<1>7. SavesAlone'
  BY <1>1, <1>3 DEF SavesAlone, Saves
<1> QED BY <1>4, <1>5, <1>6, <1>7 DEF Sound

\* What an untouched form sends.
LEMMA SaveOfStored ==
  ASSUME Cards!ConstantsFit, Cards!TypeOK, Sound, posts = {}, Filled, Tidy, ~ edited, Kind.fills = "once" \/ ~ unread
  PROVE  form.of = subject /\ form.val = stored[subject]
<1>1. Reads = {} /\ Saves = {}
  BY DEF Reads, Saves
<1>2. Kind.fills = "once" => Kind.chooses = "no"
  BY KindOf DEF Tidy, Follows
<1>3. form.of = subject
  BY <1>1, <1>2 DEF FormOfSubject, Sound, Tidy
<1>4. form.val = stored[form.of]
  BY <1>1 DEF FormIsStored, Sound, Settled
<1> QED BY <1>3, <1>4

LEMMA PostKeeps ==
  ASSUME Cards!ConstantsFit, Cards!TypeOK, Sound, Cards!Save
  PROVE  Sound'
<1>1. /\ Kind' = Kind /\ UNCHANGED <<stored, subject, form, edited, timer, calm, unread, mixed>>
      /\ (calm => posts = {}) /\ (Follows => Filled)
  BY DEF Cards!Save, Kind, Cards!watch, Cards!Begin, Cards!MayAct, Cards!Drawn, Filled, Follows
<1>2. PICK c \in Cards!Call : posts' = posts \cup {c} /\ c.op = "save" /\ c.of = subject /\ c.stage = "sent" /\ c.val = form.val
  BY Saving
<1>3. Reads' = Reads /\ Saves' = Saves \cup {c}
  BY <1>2 DEF Reads, Saves
<1>4. Untimed' /\ OneRead' /\ CallsOfSubject' /\ FormOfSubject'
  BY <1>1, <1>2, <1>3 DEF Sound, Untimed, OneRead, CallsOfSubject, FormOfSubject, Follows, Filled
<1>5. FormIsStored' /\ ReadsAreStored'
  BY <1>3 DEF FormIsStored, ReadsAreStored
<1>6. SavesAlone'
  <2> SUFFICES ASSUME calm, Follows, Kind.polls = "no", NEW b \in Saves'
               PROVE  /\ posts' = {b} /\ Filled /\ b.val = form.val /\ b.of = subject /\ b.stage # "done"
                      /\ (Tidy /\ ~ edited /\ (Kind.fills = "once" \/ ~ unread) => b.val = stored[b.of])
    BY <1>1 DEF SavesAlone, Follows, Filled, Tidy
  <2>1. posts = {} /\ Filled /\ b = c /\ posts' = {c}
    BY <1>1, <1>2, <1>3 DEF Saves
  <2>2. Tidy /\ ~ edited /\ (Kind.fills = "once" \/ ~ unread) => b.val = stored[b.of]
    BY <1>2, <2>1, SaveOfStored
  <2> QED BY <1>2, <2>1, <2>2
<1> QED BY <1>4, <1>5, <1>6 DEF Sound

LEMMA SoundKept ==
  ASSUME Cards!ConstantsFit, Cards!TypeOK, Sound, [Cards!Next]_(Cards!vars)
  PROVE  Sound'
<1>1. ASSUME NEW s \in Accounts, Cards!ChooseOwner(s) PROVE Sound'
  <2>1. /\ Kind' = Kind /\ Kind.chooses = "keeps" /\ posts' = posts /\ timer' = timer /\ mixed' = mixed
    BY <1>1 DEF Cards!ChooseOwner, Kind, Cards!watch
  <2>2. Reads' = Reads /\ Saves' = Saves
    BY <2>1 DEF Reads, Saves
  <2> QED BY <2>1, <2>2 DEF Sound, Untimed, OneRead, CallsOfSubject, FormOfSubject, FormIsStored,
                            ReadsAreStored, SavesAlone, Follows, Tidy
<1>2. CASE Cards!JobEnds \/ UNCHANGED Cards!vars
  <2>1. /\ Kind' = Kind
        /\ UNCHANGED <<stored, subject, form, edited, posts, timer, calm, unread, mixed>>
    BY <1>2 DEF Cards!JobEnds, Cards!vars, Cards!watch, Kind
  <2>2. Reads' = Reads /\ Saves' = Saves
    BY <2>1 DEF Reads, Saves
  <2> QED BY <2>1, <2>2 DEF Sound, Untimed, OneRead, CallsOfSubject, FormOfSubject, FormIsStored,
                            ReadsAreStored, SavesAlone, Follows, Tidy, Settled, Filled
<1>3. CASE Cards!Answer
  BY <1>3, PostServedKeeps, ReadTakenKeeps, SaveTakenKeeps, OtherTakenKeeps DEF Cards!Answer
<1> QED BY <1>1, <1>2, <1>3, ChooseKeeps, OtherKeeps, TickKeeps, EditKeeps, PostKeeps DEF Cards!Next
----------------------------------------------------------------------------
(* The invariant, and what follows from it. *)

LEMMA CardsInit ==
  ASSUME Cards!ConstantsFit, Cards!Init
  PROVE  CardsInv
<1>1. PICK r : posts = {r} /\ r = [op |-> "read", n |-> 0, of |-> subject, val |-> Default, running |-> FALSE,
                                   stage |-> "sent"]
  BY DEF Cards!Init
<1>2. r \in Cards!Call /\ r.op = "read" /\ r.of = subject /\ r.stage = "sent"
  BY <1>1 DEF Cards!Call, Cards!Value, Cards!Init, Cards!ConstantsFit
<1>3. Cards!TypeOK
  <2>1. Cards!Unfilled \in [of: Accounts \cup {Default}, val: Cards!Value]
    BY DEF Cards!Unfilled, Cards!Value
  <2>2. stored \in [Accounts -> Cards!Value]
    BY DEF Cards!Init, Cards!Value
  <2>3. posts \subseteq Cards!Call
    BY <1>1, <1>2
  <2>4. card \in AllCards /\ subject \in Accounts /\ form \in [of: Accounts \cup {Default}, val: Cards!Value]
    BY <2>1 DEF Cards!Init
  <2>5. calm \in BOOLEAN /\ edits \in 0..MaxKeys /\ turns \in 0..MaxFormOps
    BY DEF Cards!Init, Cards!ConstantsFit
  <2>6. edited = FALSE /\ job = "none" /\ known = FALSE /\ timer = FALSE /\ unread = FALSE /\ mixed = FALSE
    BY DEF Cards!Init
  <2> QED BY <2>2, <2>3, <2>4, <2>5, <2>6 DEF Cards!TypeOK
<1>4. Reads = {r} /\ Saves = {} /\ ~ Filled /\ ~ timer
  BY <1>1, <1>2 DEF Cards!Init, Reads, Saves, Filled
<1>5. Sound
  BY <1>1, <1>2, <1>4 DEF Sound, Untimed, OneRead, CallsOfSubject, FormOfSubject, FormIsStored,
     ReadsAreStored, SavesAlone
<1> QED BY <1>3, <1>5 DEF CardsInv, Sound

LEMMA CardsKept ==
  ASSUME Cards!ConstantsFit, CardsInv, [Cards!Next]_(Cards!vars)
  PROVE  CardsInv'
<1>1. Cards!TypeOK /\ Sound
  BY DEF CardsInv, Sound
<1>2. Cards!TypeOK' /\ Sound'
  BY <1>1, CardTypesKept, SoundKept
<1> QED BY <1>2 DEF CardsInv, Sound

LEMMA CardsInvariance ==
  ASSUME Cards!ConstantsFit
  PROVE  Cards!Spec => []CardsInv
<1>1. Cards!Init => CardsInv
  BY CardsInit
<1>2. CardsInv /\ [Cards!Next]_(Cards!vars) => CardsInv'
  BY CardsKept
<1> QED BY <1>1, <1>2, PTL DEF Cards!Spec

LEMMA QuietForm ==
  ASSUME CardsInv
  PROVE  Cards!QuietFormIsOfSubject
BY DEF CardsInv, FormOfSubject, Cards!QuietFormIsOfSubject, Follows, Filled, Kind, Reads

\* The only call that is a save just sent is what Save sends.
LEMMA OnlySaveSends ==
  ASSUME Cards!ConstantsFit, Cards!TypeOK, [Cards!Next]_(Cards!vars), NEW c \in posts' \ posts, c.op = "save", c.stage = "sent"
  PROVE  Cards!Save /\ c.val = form.val /\ c.of = subject
<1>1. ASSUME NEW r, posts' = posts \cup {r}, r.op = "read" PROVE FALSE
  BY <1>1
<1>2. subject \in Accounts /\ \A s \in Accounts : Cards!Read(s).op = "read"
  BY NewRead DEF Cards!TypeOK
<1>3. ASSUME NEW s \in Accounts, Cards!Choose(s) \/ Cards!ChooseOwner(s) PROVE FALSE
  BY <1>2, <1>3 DEF Cards!Choose, Cards!ChooseOwner
<1>4. CASE Cards!Edit \/ Cards!JobEnds \/ UNCHANGED Cards!vars
  BY <1>4 DEF Cards!Edit, Cards!JobEnds, Cards!vars
<1>5. ~ Cards!OtherOperation /\ ~ Cards!Tick
  <2>1. Cards!OtherOperation => FALSE
    BY Doing
  <2>2. Cards!Tick => FALSE
    BY <1>1, <1>2 DEF Cards!Tick, Cards!Asks
  <2> QED BY <2>1, <2>2
<1>6. ASSUME NEW d \in posts, Cards!Serve(d) PROVE FALSE
  BY <1>6, PostServed
<1>7. ASSUME NEW d \in posts, Cards!TakeRead(d) \/ Cards!TakeNoRead(d) PROVE FALSE
  BY <1>7 DEF Cards!TakeRead, Cards!TakeNoRead
<1>8. ASSUME NEW d \in posts, Cards!TakeSaved(d) \/ Cards!TakeNotSaved(d) \/ Cards!TakeOther(d) PROVE FALSE
  <2>1. d.op # "read" /\ (posts' = posts \ {d} \/ Cards!ReadsBack(d))
    BY <1>8 DEF Cards!TakeSaved, Cards!TakeNotSaved, Cards!TakeOther
  <2> QED BY <2>1, ReadingBack
<1>9. Cards!Save
  BY <1>3, <1>4, <1>5, <1>6, <1>7, <1>8 DEF Cards!Next, Cards!Answer
<1> QED BY <1>9, Saving

LEMMA UntouchedStep ==
  ASSUME Cards!ConstantsFit, CardsInv, [Cards!Next]_(Cards!vars), NEW c \in posts' \ posts,
         c.op = "save", c.stage = "sent", calm, ~ unread, ~ mixed, ~ edited,
         Cards!Card[card].fills # "never", Cards!Card[card].chooses # "keeps"
  PROVE  c.val = stored[c.of]
<1>1. Cards!TypeOK /\ Sound
  BY DEF CardsInv, Sound
<1>2. Cards!Save /\ c.val = form.val /\ c.of = subject
  BY <1>1, OnlySaveSends
<1>3. Tidy /\ posts = {} /\ Filled
  BY <1>2 DEF Cards!Save, Cards!Begin, Cards!MayAct, Cards!Drawn, Filled, Tidy, Follows, Kind
<1> QED BY <1>1, <1>2, <1>3, SaveOfStored

\* For every card and every set of subjects: a form at rest is of the subject
\* chosen, unless the last read failed, two reads met, or another subject was
\* chosen while a call was on its way.
THEOREM FormsFollowTheirSubject ==
  ASSUME Cards!ConstantsFit
  PROVE  Cards!Spec => []QuietFormIsOfSubject
<1>1. CardsInv => QuietFormIsOfSubject
  BY QuietForm DEF QuietFormIsOfSubject
<1> QED BY <1>1, CardsInvariance, PTL

\* A user who waits, and whose last read arrived, changes nothing by saving a
\* form that was not edited, on every card that reads before it saves.
THEOREM UntouchedFormsAreHarmless ==
  ASSUME Cards!ConstantsFit
  PROVE  Cards!Spec => UntouchedSaveChangesNothing
<1>1. CardsInv /\ [Cards!Next]_(Cards!vars) =>
        [\A c \in posts' \ posts :
           /\ c.op = "save" /\ c.stage = "sent" /\ calm /\ ~unread /\ ~mixed /\ ~edited
           /\ Cards!Card[card].fills # "never" /\ Cards!Card[card].chooses # "keeps"
           => c.val = stored[c.of]]_(Cards!vars)
  BY UntouchedStep
<1> QED BY <1>1, CardsInvariance, PTL
        DEF Cards!Spec, UntouchedSaveChangesNothing, Cards!UntouchedSaveChangesNothing

----------------------------------------------------------------------------
(* The panels together: one is on screen, the others do not move.          *)

\* The types of all three, a selection that is on screen, and saves that stay in
\* the account of their file, whichever panel is on screen.
THEOREM PanelsFit ==
  MCSpec => []PanelsInv
<1> DEFINE Inv == IInv /\ ListingInv /\ CardsInv
<1>1. MCInit => Inv
  BY PartsAssumption, Initially, ListingInit, CardsInit DEF MCInit
<1>2. Inv /\ [MCNext]_mcvars => Inv'
  <2> SUFFICES ASSUME Inv, [MCNext]_mcvars PROVE Inv'
    OBVIOUS
  <2>1. UNCHANGED vars => [Next]_vars
    OBVIOUS
  <2>2. UNCHANGED lvars => [Listing!Next]_(Listing!vars)
    BY DEF lvars, Listing!vars, Listing!page
  <2>3. UNCHANGED cvars => [Cards!Next]_(Cards!vars)
    BY DEF cvars, Cards!vars, Cards!watch, Cards!bounds
  <2>4. [Next]_vars /\ [Listing!Next]_(Listing!vars) /\ [Cards!Next]_(Cards!vars)
    BY <2>1, <2>2, <2>3 DEF MCNext, mcvars
  <2> QED BY <2>4, PartsAssumption, StepKeeps, ListingKept, CardsKept
<1>3. Inv => PanelsInv
  BY DEF PanelsInv, IInv, ListingInv, CardsInv, OneCall, SaveStaysInAccount
<1> QED BY <1>1, <1>2, <1>3, PTL DEF MCSpec
=============================================================================
