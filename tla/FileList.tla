------------------------------ MODULE FileList ------------------------------
(***************************************************************************)
(* The listing of the file manager in the browser and the jobs it watches  *)
(* (web/src/pages/Files.jsx, web/src/FileJobs.jsx): the folder on screen,  *)
(* the selection and the clipboard, the loops that paste and delete, and   *)
(* the polling that finds out how archives and uploads went.               *)
(*                                                                         *)
(* Asking for a listing or for the jobs takes three steps (sent, answered, *)
(* taken up), and answers are taken up in any order.  A loop waits for     *)
(* each of its calls, so a call of a loop is one step.  What a handler of  *)
(* a click uses later (folder, account, selection) is what the page held   *)
(* when it was clicked.                                                    *)
(*                                                                         *)
(* A definition marked (slip) is a plausible mistake in the one that       *)
(* follows it and is used nowhere.                                         *)
(***************************************************************************)
EXTENDS Naturals, FiniteSets

CONSTANTS Accounts, Folders, Names,
          Top,        \* the folder an account opens in
          Disk,       \* what is on disk at the start
          Nobody,     \* no clipboard, no loop, no question
          Patience,   \* whether the user waits for answers: a subset of BOOLEAN
          MayFail,    \* whether calls are refused or lost
          MaxOps,     \* bound: operations the user starts
          MaxOut,     \* bound: calls in flight
          JobIds      \* bound: jobs

VARIABLES disk,       \* files, as account, folder and name
          jobs,       \* file jobs of the server, by id
          account,    \* the account chosen
          path,       \* the folder on screen
          entries,    \* the names on screen
          shown,      \* history: the account whose answer is on screen
          selected,   \* names selected
          clipboard,  \* what is ready to be copied or moved
          loop,       \* the handler that is running: paste, delete, or one call
          asking,     \* the question on screen, with what the answer will do
          list,       \* the jobs as the page knows them: id to status
          calls,      \* listings and polls in flight
          ops,        \* operations started so far
          patient,    \* whether the user waits
          strays,     \* history: what a deletion was asked for while not on screen
          unseen,     \* history: jobs first seen after they had ended
          amiss       \* history: "failed" while the last listing failed, "crossed" once
                      \* a listing was asked for while another was on its way

page == <<account, path, entries, shown, selected, clipboard, list>>
vars == <<disk, jobs, page, loop, asking, calls, ops, patient, strays, unseen, amiss>>

File == Accounts \X Folders \X Names
Job == [account: Accounts, makes: Folders \X Names, status: {"running", "done", "failed"}]
Loop == [kind: {"copy", "move", "delete", "archive"}, todo: SUBSET (Folders \X Names),
         folder: Folders, account: Accounts]
Listing == [op: {"list"}, account: Accounts, folder: Folders, stage: {"sent", "done", "refused"},
            names: SUBSET Names]
Poll == [op: {"poll"}, account: Accounts, stage: {"sent", "done", "refused"},
         status: UNION {[S -> {"running", "done", "failed"}] : S \in SUBSET JobIds}]
\* What the constants have to be.
ConstantsFit ==
  /\ Top \in Folders /\ Nobody \notin Accounts /\ Nobody \notin Loop
  /\ Disk \subseteq Accounts \X Folders \X Names
  /\ Patience \subseteq BOOLEAN /\ MayFail \in BOOLEAN /\ MaxOps \in Nat /\ MaxOut \in Nat

NoJob == [account |-> Nobody]

TypeOK ==
  /\ disk \subseteq File
  /\ jobs \in [JobIds -> Job \cup {NoJob}]
  /\ account \in Accounts /\ shown \in Accounts /\ path \in Folders
  /\ entries \subseteq Names /\ selected \subseteq Names
  /\ clipboard \in [mode: {"copy", "move"}, items: SUBSET (Folders \X Names)] \cup {Nobody}
  /\ loop \in Loop \cup {Nobody} /\ asking \in Loop \cup {Nobody}
  /\ DOMAIN list \subseteq JobIds
  /\ calls \subseteq Listing \cup Poll
  /\ ops \in 0..MaxOps /\ patient \in BOOLEAN /\ amiss \subseteq {"failed", "crossed"}
  /\ strays \subseteq File /\ unseen \subseteq JobIds

NamesIn(a, f) == {n \in Names : <<a, f, n>> \in disk}
JobsOf(a) == {j \in JobIds : jobs[j].account = a}
Running(l) == {j \in DOMAIN l : l[j] = "running"}

ListCall(a, f) == [op |-> "list", account |-> a, folder |-> f, stage |-> "sent", names |-> {}]
PollCall(a) == [op |-> "poll", account |-> a, stage |-> "sent", status |-> <<>>]

\* A page that has just opened its first account.
Init ==
  /\ disk = Disk
  /\ jobs = [j \in JobIds |-> NoJob]
  /\ account \in Accounts /\ shown = account /\ path = Top
  /\ entries = {} /\ selected = {}
  /\ clipboard = Nobody /\ loop = Nobody /\ asking = Nobody
  /\ list = <<>>
  /\ calls = {ListCall(account, Top), PollCall(account)}
  /\ ops = 0 /\ patient \in Patience
  /\ strays = {} /\ unseen = {} /\ amiss = {}

AskListing(a, f) ==
  /\ calls' = calls \cup {ListCall(a, f)}
  /\ amiss' = amiss \cup (IF \E c \in calls : c.op = "list" THEN {"crossed"} ELSE {})

MayAct == asking = Nobody /\ Cardinality(calls) < MaxOut /\ (patient => calls = {} /\ loop = Nobody)
Begin == MayAct /\ ops < MaxOps /\ ops' = ops + 1

----------------------------------------------------------------------------
(* Choosing what is on screen.                                             *)

OpenFolder(f) ==
  /\ Begin
  /\ AskListing(account, f)
  /\ UNCHANGED <<disk, jobs, page, loop, asking, patient, strays, unseen>>

\* The clipboard goes, the selection and the listing stay until an answer
\* comes; the hook asks for the jobs of the new account.
ChangeAccount(a) ==
  /\ Begin /\ a # account
  /\ account' = a /\ clipboard' = Nobody
  /\ calls' = calls \cup {ListCall(a, Top), PollCall(a)}
  /\ amiss' = amiss \cup (IF \E c \in calls : c.op = "list" THEN {"crossed"} ELSE {})
  /\ UNCHANGED <<disk, jobs, path, entries, shown, selected, list, loop, asking, patient, strays, unseen>>

Toggle(n) ==
  /\ MayAct /\ n \in entries
  /\ selected' = IF n \in selected THEN selected \ {n} ELSE selected \cup {n}
  /\ UNCHANGED <<disk, jobs, account, path, entries, shown, clipboard, list, loop, asking, calls, ops,
                 patient, strays, unseen, amiss>>

----------------------------------------------------------------------------
(* Operations on files.                                                    *)

FullPath(n) == <<path, n>>

\* Copy and Cut: the selection bar, whose buttons wait for the loop.
PutOnClipboard(mode) ==
  /\ MayAct /\ selected # {} /\ loop = Nobody
  /\ clipboard' = [mode |-> mode, items |-> {FullPath(n) : n \in selected}]
  /\ UNCHANGED <<disk, jobs, account, path, entries, shown, selected, list, loop, asking, calls, ops,
                 patient, strays, unseen, amiss>>

Paste ==
  /\ Begin /\ clipboard # Nobody /\ loop = Nobody
  /\ loop' = [kind |-> clipboard.mode, todo |-> clipboard.items, folder |-> path, account |-> account]
  /\ UNCHANGED <<disk, jobs, page, asking, calls, patient, strays, unseen, amiss>>

Deletion(names) == [kind |-> "delete", todo |-> {FullPath(n) : n \in names}, folder |-> path, account |-> account]

\* The bar's Delete waits for the loop, a row's does not.
ClickDelete ==
  /\ MayAct
  /\ \E names \in (IF loop = Nobody THEN {selected} ELSE {}) \cup {{n} : n \in entries} :
       /\ names # {}
       /\ asking' = Deletion(names)
       /\ strays' = strays \cup ({<<account, path, n>> : n \in names} \ {<<shown, path, n>> : n \in entries})
  /\ UNCHANGED <<disk, jobs, page, loop, calls, ops, patient, unseen, amiss>>

\* One loop is kept at a time: a row's deletion confirmed during another loop,
\* which the page runs beside it, begins when that one ends.
Confirm ==
  /\ asking # Nobody /\ loop = Nobody /\ ops < MaxOps
  /\ ops' = ops + 1
  /\ loop' = asking /\ asking' = Nobody
  /\ UNCHANGED <<disk, jobs, page, calls, patient, strays, unseen, amiss>>

Cancel ==
  /\ asking # Nobody /\ asking' = Nobody
  /\ UNCHANGED <<disk, jobs, page, loop, calls, ops, patient, strays, unseen, amiss>>

\* Compress what is selected; Upload and Extract start a job the same way.
StartJob(n) ==
  /\ Begin /\ selected # {} /\ loop = Nobody
  /\ loop' = [kind |-> "archive", todo |-> {FullPath(n)}, folder |-> path, account |-> account]
  /\ selected' = {}
  /\ UNCHANGED <<disk, jobs, account, path, entries, shown, clipboard, list, asking, calls, patient,
                 strays, unseen, amiss>>

\* One item of a paste.  What is there already is refused, an item pasted
\* where it is is passed over, and what fails does not stop the rest.
PasteItem(i) ==
  LET to == <<loop.account, loop.folder, i[2]>>  from == <<loop.account, i[1], i[2]>> IN
  /\ loop # Nobody /\ loop.kind \in {"copy", "move"} /\ i \in loop.todo
  /\ loop' = [loop EXCEPT !.todo = @ \ {i}]
  /\ \/ from \in disk /\ to \notin disk
        /\ disk' = (IF loop.kind = "move" THEN disk \ {from} ELSE disk) \cup {to}
     \/ (MayFail \/ from \notin disk \/ to \in disk) /\ UNCHANGED disk
  /\ UNCHANGED <<jobs, page, asking, calls, ops, patient, strays, unseen, amiss>>

DeleteItem(i) ==
  /\ loop # Nobody /\ loop.kind = "delete" /\ i \in loop.todo
  /\ loop' = [loop EXCEPT !.todo = @ \ {i}]
  /\ \/ disk' = disk \ {<<loop.account, i[1], i[2]>>}
     \/ MayFail /\ UNCHANGED disk
  /\ UNCHANGED <<jobs, page, asking, calls, ops, patient, strays, unseen, amiss>>

\* The job is recorded and answered before it is done; then the page asks
\* for the jobs.
JobAccepted(j) ==
  /\ loop # Nobody /\ loop.kind = "archive" /\ loop.todo # {}
  /\ loop' = Nobody
  /\ \/ /\ jobs[j] = NoJob
        /\ \E i \in loop.todo : jobs' = [jobs EXCEPT ![j] =
             [account |-> loop.account, makes |-> i, status |-> "running"]]
        /\ calls' = calls \cup {PollCall(loop.account)}
     \/ MayFail /\ UNCHANGED <<jobs, calls>>
  /\ UNCHANGED <<disk, page, asking, ops, patient, strays, unseen, amiss>>

\* (slip) The listing is not asked for again.
EndLoopSlip ==
  /\ loop # Nobody /\ loop.todo = {} /\ loop.kind # "archive"
  /\ clipboard' = IF loop.kind = "move" THEN Nobody ELSE clipboard
  /\ loop' = Nobody
  /\ UNCHANGED <<disk, jobs, account, path, entries, shown, selected, list, asking, calls, ops, patient,
                 strays, unseen, amiss>>

\* The end of a loop: a clipboard that was moved is emptied, and the folder
\* of the click is listed again.
EndLoop ==
  /\ loop # Nobody /\ loop.todo = {} /\ loop.kind # "archive"
  /\ clipboard' = IF loop.kind = "move" THEN Nobody ELSE clipboard
  /\ AskListing(loop.account, loop.folder)
  /\ loop' = Nobody
  /\ UNCHANGED <<disk, jobs, account, path, entries, shown, selected, list, asking, ops, patient, strays,
                 unseen>>

----------------------------------------------------------------------------
(* The server, and the answers.                                            *)

JobEnds(j) ==
  /\ jobs[j] # NoJob /\ jobs[j].status = "running"
  /\ \/ /\ jobs' = [jobs EXCEPT ![j].status = "done"]
        /\ disk' = disk \cup {<<jobs[j].account, jobs[j].makes[1], jobs[j].makes[2]>>}
     \/ MayFail /\ jobs' = [jobs EXCEPT ![j].status = "failed"] /\ UNCHANGED disk
  /\ UNCHANGED <<page, loop, asking, calls, ops, patient, strays, unseen, amiss>>

Answered(c) ==
  IF c.op = "list" THEN [c EXCEPT !.stage = "done", !.names = NamesIn(c.account, c.folder)]
  ELSE [c EXCEPT !.stage = "done", !.status = [j \in JobsOf(c.account) |-> jobs[j].status]]

Serve(c) ==
  /\ c.stage = "sent"
  /\ \/ calls' = (calls \ {c}) \cup {Answered(c)}
     \/ MayFail /\ calls' = (calls \ {c}) \cup {[c EXCEPT !.stage = "refused"]}
  /\ UNCHANGED <<disk, jobs, page, loop, asking, ops, patient, strays, unseen, amiss>>

\* (slip) The selection outlives its folder.
TakeListingSlip(c) ==
  /\ c.op = "list" /\ c.stage = "done"
  /\ calls' = calls \ {c}
  /\ entries' = c.names /\ path' = c.folder /\ shown' = c.account
  /\ amiss' = amiss \ {"failed"}
  /\ UNCHANGED <<disk, jobs, account, clipboard, selected, list, loop, asking, ops, patient, strays, unseen>>

\* One answer brings the names and the folder they are of.
TakeListing(c) ==
  /\ c.op = "list" /\ c.stage = "done"
  /\ calls' = calls \ {c}
  /\ entries' = c.names /\ path' = c.folder /\ shown' = c.account
  /\ selected' = {}
  /\ amiss' = amiss \ {"failed"}
  /\ UNCHANGED <<disk, jobs, account, clipboard, list, loop, asking, ops, patient, strays, unseen>>

\* A refusal empties the listing and nothing else.
TakeRefusal(c) ==
  /\ c.stage = "refused"
  /\ calls' = calls \ {c}
  /\ IF c.op = "list" THEN entries' = {} /\ amiss' = amiss \cup {"failed"} ELSE UNCHANGED <<entries, amiss>>
  /\ UNCHANGED <<disk, jobs, account, path, shown, selected, clipboard, list, loop, asking, ops, patient,
                 strays, unseen>>

\* What was running and is not any more is worth listing the folder on screen.
JustDone(c) == Running(list) \cap {j \in DOMAIN c.status : c.status[j] # "running"}

Unnoticed(c) == {j \in DOMAIN c.status \ DOMAIN list : c.status[j] # "running"}

TakePoll(c) ==
  /\ c.op = "poll" /\ c.stage = "done"
  /\ list' = c.status
  /\ IF JustDone(c) # {}
     THEN /\ calls' = (calls \ {c}) \cup {ListCall(account, path)}
          /\ amiss' = amiss \cup (IF \E d \in calls : d.op = "list" THEN {"crossed"} ELSE {})
     ELSE calls' = calls \ {c} /\ UNCHANGED amiss
  /\ unseen' = unseen \cup Unnoticed(c)
  /\ UNCHANGED <<disk, jobs, account, path, entries, shown, selected, clipboard, loop, asking, ops,
                 patient, strays>>

\* (slip) The interval lists the folder.
TickSlip ==
  /\ Running(list) # {}
  /\ \A c \in calls : c.op # "list"
  /\ AskListing(account, path)
  /\ UNCHANGED <<disk, jobs, page, loop, asking, ops, patient, strays, unseen>>

\* The interval, set only while a job is known to run.
Tick ==
  /\ Running(list) # {}
  /\ \A c \in calls : c.op # "poll"
  /\ calls' = calls \cup {PollCall(account)}
  /\ UNCHANGED <<disk, jobs, page, loop, asking, ops, patient, strays, unseen, amiss>>

\* What a network that works now and then owes the page.
PollAnswered == \E c \in calls :
  /\ c.op = "poll" /\ c.stage = "sent"
  /\ calls' = (calls \ {c}) \cup {Answered(c)}
  /\ UNCHANGED <<disk, jobs, page, loop, asking, ops, patient, strays, unseen, amiss>>

Answer == \E c \in calls : Serve(c) \/ TakeListing(c) \/ TakeRefusal(c) \/ TakePoll(c)
RunLoop == \/ \E i \in Folders \X Names : PasteItem(i) \/ DeleteItem(i)
           \/ \E j \in JobIds : JobAccepted(j)
           \/ EndLoop

Next ==
  \/ \E f \in Folders : OpenFolder(f)
  \/ \E a \in Accounts : ChangeAccount(a)
  \/ \E n \in Names : Toggle(n) \/ StartJob(n)
  \/ \E m \in {"copy", "move"} : PutOnClipboard(m)
  \/ Paste \/ ClickDelete \/ Confirm \/ Cancel
  \/ RunLoop \/ Answer \/ Tick
  \/ \E j \in JobIds : JobEnds(j)

\* The browser takes up what arrives and its interval ticks, the server
\* answers and ends its jobs, and polls do not fail for ever.
Fairness ==
  /\ WF_vars(Answer) /\ WF_vars(Tick) /\ WF_vars(RunLoop)
  /\ \A j \in JobIds : WF_vars(JobEnds(j))
  /\ SF_vars(PollAnswered) /\ SF_vars(\E c \in calls : TakePoll(c))

Spec == Init /\ [][Next]_vars /\ Fairness

----------------------------------------------------------------------------
(* What makes the listing correct.                                         *)

\* "A selection is a set of paths in the folder that was on screen, so it
\* means nothing once the listing changes" (Files.jsx:46-47): what is to
\* be deleted is on screen when the deletion is asked for.
DeletesWhatIsShown == strays = {}

\* The same for a user who waits, as long as the last listing arrived.
DeletesWhatIsShownIfListed == [][patient /\ "failed" \notin amiss => strays' = strays]_vars

\* What is selected is on screen, unless the last listing failed.
SelectionIsShown == "failed" \notin amiss => selected \subseteq entries

\* When all is answered, a user who waited sees what is on the server: the
\* folder is listed again after every loop and after every job that was seen
\* running (Files.jsx:82, 167, 193, FileJobs.jsx:24-32).  A job that ended before
\* the page heard of it brings no listing (unseen), and two listings on their
\* way at once may arrive in the other order (crossed).
QuietListingIsCurrent ==
  patient /\ amiss = {} /\ calls = {} /\ loop = Nobody /\ unseen = {}
    /\ JobsOf(account) \subseteq DOMAIN list /\ Running(list) = {}
    => entries = NamesIn(account, path)

\* A job the page knows to run is not watched for ever.
WatchingEnds == \A j \in JobIds : (j \in Running(list)) ~> (j \notin Running(list))
=============================================================================
