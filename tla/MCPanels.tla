------------------------------ MODULE MCPanels ------------------------------
(* What pages keep besides their list: the editor of the file manager       *)
(* (FileEditor), its listing (FileList), and the cards (Forms).  One of them *)
(* is on screen, the others do not move.  Two accounts, a file of the same  *)
(* name in both, a folder below the top; in the editor two files, the name  *)
(* of one of which begins with the other's.                                 *)
EXTENDS FileEditor

CONSTANTS ann, bob, top, sub, x, y, index, indexphp, Folders, Names, Top, Disk, Nobody, JobIds, MayFail,
          MaxOps, MaxOut, Default, FormPatience, MaxFormOps, MaxFormCalls

SomeFiles == {<<ann, top, x>>, <<bob, top, x>>, <<ann, sub, y>>}
NameOfOne == {<<index, index>>, <<indexphp, indexphp>>, <<index, indexphp>>}
AllCards == {"backups", "plans", "notifications", "events", "mode", "rules", "malware", "branding",
             "terminal", "php", "limits", "wordpress", "logs", "reusable"}

VARIABLES scene,  \* "listing", "editor" or "card"
          files, jobs, owner, path, entries, shown, selected, clipboard, loop, question, list, requests,
          begun, waits, strays, unseen, amiss,
          card, stored, subject, form, edited, job, known, timer, posts, edits, turns, calm, unread, mixed

Listing == INSTANCE FileList WITH
  disk <- files, account <- owner, asking <- question, calls <- requests, ops <- begun, patient <- waits

Cards == INSTANCE Forms WITH
  CardNames <- AllCards, Subjects <- Accounts, Patience <- FormPatience, MaxOps <- MaxFormOps,
  MaxCalls <- MaxFormCalls, calls <- posts, keys <- edits, ops <- turns, patient <- calm, crossed <- mixed

lvars == <<files, jobs, owner, path, entries, shown, selected, clipboard, loop, question, list, requests,
           begun, waits, strays, unseen, amiss>>
cvars == <<card, stored, subject, form, edited, job, known, timer, posts, edits, turns, calm, unread, mixed>>
mcvars == <<scene, vars, lvars, cvars>>

ASSUME PartsAssumption == ConstantsFit /\ Listing!ConstantsFit /\ Cards!ConstantsFit

\* What does not move is in one of its initial states only.
MCInit ==
  /\ scene \in {"listing", "editor", "card"} /\ Init /\ Listing!Init /\ Cards!Init
  /\ scene # "editor" => account = ann
  /\ scene # "listing" => owner = ann
  /\ scene # "card" => card = "logs" /\ subject = ann /\ calm

MCNext ==
  \/ scene = "editor" /\ Next /\ UNCHANGED <<scene, lvars, cvars>>
  \/ scene = "listing" /\ Listing!Next /\ UNCHANGED <<scene, vars, cvars>>
  \/ scene = "card" /\ Cards!Next /\ UNCHANGED <<scene, vars, lvars>>

\* The fairness of FileList and of Forms, each in its scene.
MCSpec ==
  /\ MCInit /\ [][MCNext]_mcvars
  /\ WF_lvars(scene = "listing" /\ Listing!Answer)
  /\ WF_lvars(scene = "listing" /\ Listing!Tick)
  /\ WF_lvars(scene = "listing" /\ Listing!RunLoop)
  /\ \A j \in JobIds : WF_lvars(scene = "listing" /\ Listing!JobEnds(j))
  /\ SF_lvars(scene = "listing" /\ Listing!PollAnswered)
  /\ SF_lvars(scene = "listing" /\ \E c \in requests : Listing!TakePoll(c))
  /\ WF_cvars(scene = "card" /\ Cards!Answer)
  /\ WF_cvars(scene = "card" /\ Cards!Tick)
  /\ WF_cvars(scene = "card" /\ Cards!JobEnds)
  /\ SF_cvars(scene = "card" /\ Cards!ReadAnswered)

\* What every state keeps: the types of all three, a selection that is on screen
\* (FileList), and saves that stay in the account of their file (FileEditor).
PanelsInv ==
  /\ TypeOK /\ Listing!TypeOK /\ Cards!TypeOK
  /\ SaveStaysInAccount /\ Listing!SelectionIsShown

\* A quiet listing is what the server has (FileList).
QuietListingIsCurrent == Listing!QuietListingIsCurrent

\* What is deleted was on screen, as long as the last listing arrived (FileList).
DeletesWhatIsShownIfListed == Listing!DeletesWhatIsShownIfListed

\* A form that is quiet is of the subject chosen (Forms).
QuietFormIsOfSubject == Cards!QuietFormIsOfSubject

\* Saving a form nobody has edited changes nothing (Forms).
UntouchedSaveChangesNothing == Cards!UntouchedSaveChangesNothing

\* A job on screen is followed to its end, by the file manager and by the cards
\* that ask at an interval (FileList, Forms).
JobsAreFollowed == Listing!WatchingEnds /\ Cards!WatchingEnds
=============================================================================
