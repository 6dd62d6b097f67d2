# Verification of OPanel Enterprise

OPanel is a hosting panel: a web API that keeps what a server should look like in
one SQLite database, a root agent that makes the server look like it, and a console
in the browser that talks to the API. This directory holds TLA+ modules of its core,
TLC configurations that check them on small instances, and proofs checked by TLAPS.
Paths below are relative to `src/`.

Almost every part of the panel has the same shape: a handler reads rows, decides,
writes a row, asks the agent, and undoes the row when the agent refuses. No lock
is held across these steps, the request's context may end between any two, and
what the agent did is not undone when its client leaves. That shape, far more
than any single computation, is where this code can go wrong, and it is what
the modules of the server are about.

The console has a shape of its own: a page reads a list, a handler puts a
question, raises a flag, calls, tells the outcome in the page's one message and
reads the list again. Nothing cancels a call when the user goes on, and answers
come in any order. What can go wrong is what is on screen - a list, a selection,
a mark, a form, an account - not being what the next click is carried out on.

## 1. The system

| Part | State it keeps | Operations | Interacts with |
|---|---|---|---|
| Websites (`internal/sites`) | `sites` rows, site directories, served configuration | create, delete, purge, aliases, suspend, resume, issue/attach/disable certificate, change owner | packages (limits), agent (`site.*`, `webserver.apply`, `cert.issue`) |
| Panel accounts (`internal/panelusers`) | `users` rows, Linux accounts, MariaDB logins | create, adopt, delete, suspend, role, parent, file access | agent (`user.*`, `dbuser.drop`), sites (an owner cannot be deleted) |
| Logins and sessions (`internal/auth`) | sessions, password hashes, TOTP, recovery codes, passkeys, challenges | login in up to three steps, logout, reset, suspend, second factor on and off, impersonate and return | accounts |
| Packages and quota (`internal/plans`, `panelusers/reseller.go`) | packages, allowances, who is on what, filesystem limits | create/update/delete package, assign, set allowance, change parent, background reapply | accounts, agent (`quota.set`) |
| Web server (`internal/agent/actions/webserver.go`, `internal/webserver`, `internal/phpfpm`) | configuration files, snapshot, pools, systemd units, backend and provider on record | apply, switch server, migrate PHP provider, reconcile at start | sites send it the whole estate |
| Firewall (`internal/security`, `internal/firewall`, `actions/firewall.go`) | rules, blocklists, script, last good script, kernel table, rollback timer | add, delete, subscribe, refresh, unsubscribe, confirm | nft, systemd timers, boot |
| Backups and destinations | archives, rows, schedules, offsite copies, an in-memory guard | start, restore, delete, upload, prune, schedule | databases, sites, agent |
| Databases, phpMyAdmin sign-on | MariaDB databases, accounts, grants; the rows about them | create, drop, grant, revoke, reset, sign on, sweep | accounts, backups |
| Linux accounts, SFTP | passwd, groups, homes, keys | create, delete and seal, repair, extra credentials | accounts, quota |
| Certificates | ACME accounts, stored certificates | order, wildcard, manual, delete, renew | sites |
| Cron, malware scans, file jobs | rows, crontabs, quarantine, jobs running in goroutines | edit, import once; scan, quarantine; archive, extract, cancel | agent |
| PHP settings, WAF, CloudLinux, WordPress, import | files and packages of other software | install, set, remove | web server, databases |
| Agent protocol (`internal/agent`, `internal/agentclient`) | sixteen slots, a budget per action | call | everything |
| Console, shell (`web/src/App.jsx`, `Login.jsx`, `api.js`, `StatusRail.jsx`) | who a tab takes itself to be, the login form, the rail's figures; the browser's cookie | sign in in up to two steps, impersonate and return, sign out, give up on a 401 | sessions |
| Console, pages (`web/src/pages`) | rows on screen, one message, flags, what is typed | every button and form: question, call, second call, reread | every handler of the API |
| Console, file manager (`Files.jsx`, `FileJobs.jsx`, `CodeEditor.jsx`) | folder, entries, selection, clipboard, jobs; the file in the editor and its mark | list, select, copy, move, delete, upload, archive, extract; open, type, save, close | file handlers and jobs |
| Console, cards | a form filled from an answer, a timer that asks again | choose a subject, edit, save, follow a job | settings of every kind |
| Terminal, host information, settings, audit, installer, CLI, WHMCS module, Rust port | see `PROJECT.json` | | |

What they share, and every module relies on:

- SQLite is opened with one connection and foreign keys on: a statement is
  atomic, a handler is not.
- Every statement and every call takes the request's context. A request whose
  browser has gone fails at its next statement or dial, the undo included.
- The client stops waiting for the agent after 150 s, the agent gives most
  actions 2 minutes and some much more. A call nobody waits for any more still
  takes effect.
- The agent runs up to sixteen actions at once and none of them takes a lock.
- Background loops run beside the handlers: sessions purged every 15 minutes,
  certificates renewed every 12 hours, backups every 10 minutes, blocklists
  every hour, sign-on accounts swept every 15 minutes, malware schedules every
  10 minutes.

What makes each part correct, in a sentence: *sites* - what is served is what the
table says, and no row is left without its files; *accounts* - an administrator is
always left, a row that names a Linux account has one, what is put under a reseller
is a customer; *sessions* - a proof used once, revocation that revokes,
impersonation of one hop; *packages* - limits follow packages, what a reseller
creates or assigns stays within the allowance; *web server* - a change is whole or
has not happened, and exactly the recorded server runs and boots; *firewall* -
nobody is locked out and nothing unconfirmed stays; *backups*
- a ready row has its archive, no two operations on one account at once;
*databases* - a recorded database exists and a dropped one is not recorded;
*jobs* - whatever was started ends and says so; *console* - what is acted on is what is
on screen, a failure is seen, nothing typed is lost unasked, a tab acts as the
account it shows.

## 2. The modules

| Module | What it is |
|---|---|
| `SiteRows` | the `sites` table: statements as operators, what the renderer accepts |
| `Sites` | website requests, interleaved, over table, directories and served configuration |
| `SitesProofs` | its invariants, proved |
| `Accounts` | account requests and the guards on them |
| `AccountsProofs` | its invariants, proved |
| `Sessions` | logins, sessions, second factors, impersonation |
| `SessionsProofs` | its invariants, proved |
| `Packages` | packages, allowances, filesystem limits and the background job |
| `PackagesProofs` | limits follow packages and grants stay within the allowance, proved |
| `HostConfig` | what `webserver.Backend` promises of Apply, as one atomic step |
| `Webserver` | how the agent really does it; implements `HostConfig` |
| `Firewall` | rules, blocklists, the provisional load and its rollback |
| `HostProofs` | the invariants of `Webserver` and `Firewall` and that `Webserver` implements `HostConfig`, proved |
| `PageTables`, `Pages` | the handlers of thirty pages as records, and the machine that runs them |
| `PagesProofs` | what the machine needs of a handler, that every handler has it, and what follows, proved |
| `FileList` | the file manager's listing: selection, clipboard, loops, jobs |
| `FileEditor` | its editor: which file, which object, which mark |
| `Forms` | fourteen cards that read, edit, save and follow something stored |
| `PanelsProofs` | what the listing, the editor and the cards show and keep, proved |
| `Shell` | tabs, the cookie, signing in and out, impersonation, the rail |
| `ShellProofs` | a tab on its own acts as the account it shows, proved |
| `MCx` | instances of `x` for TLC; `MCHost` has `Webserver` and `Firewall` side by side, `MCPanels` puts `FileList`, `FileEditor` and `Forms` on one screen, one at a time |

Conventions. A request is a record in `req[h]`: its operation, the step it is
at (`pc`), what it has read so far and whether its client is still there
(`live`). One action is one statement or one call to the agent; its name is the
name of the function that makes it. `Handle(h)` is the disjunction of the steps
of one request. A definition marked `(slip)` is a plausible mistake in the
definition that follows it; it is used nowhere, and put in that definition's
place it makes a property fail, which is how each property is known to depend on
the code.

**SiteRows, Sites.** A row has the columns that different handlers write or that
the renderer looks at; the others travel as `suspended` does. `files` is the set
of site directories, `served` the rows last applied, `late` the agent calls that
outlast their client. `Snapshot` and `Apply` are the two halves of
`SyncWebserver`. `Cancel` ends the context, `Interrupted` is the failure of the
step after it, `GiveUp` the client that stops waiting. PHP availability and
`EnsureAccount` change nothing here and may fail (`Refuse`). A move that fails
(`HalfMoved`) leaves the files in the old home, in both, or in the new one
alone: `sitemove.go` renames or copies first and sets the owner and the mode
afterwards. The row is written only by a move that went through.

**Accounts.** `hosted` is the set of Linux accounts, `logins` the accounts with a
database login, `owners` those with sites. A request reads its actor and its
target before the service runs, as the handlers do; everything else is read by
the service when the code reads it. A create has a parent: a reseller's own, or
whatever account an administrator names, because that handler checks neither.

**Sessions.** Sessions that ended are kept with the reason, so that properties can
speak of them; hashes are the passwords they were made of. A login is up to
three steps, any of which may be overtaken by a reset, a suspension or another
login. Any account may be named as the target of an impersonation; `Manages` is
the relation `CanManage` decides by, and who may not is refused where the
handler refuses.

**Packages.** A package is its disk size. `quota` is what the filesystem has been
told, `enforced` whether the kernel acts on it. A request notes whether it was
`overtaken` - another one changed what it had read - and `owed` holds the
accounts whose last limit was refused, abandoned or overtaken, so that the
properties say exactly what the code can be held to. A package that cannot be
read when its limit is pushed is no limit at all, and an answer of success
(`plans/service.go:137`).

**Webserver, HostConfig.** A page is what an estate renders to under one provider of PHP.
The main file and the directory of vhosts are written one after the other, so
the disk may hold halves of two pages; Apache and LiteSpeed read the same files.
Every command may fail and the agent or the host may stop between any two. So
may what the agent does when it starts (`Reconcile`): it stops, starts, enables
and disables whatever servers it can and goes on; `unmended` says that a host
was left adrift and could not be put right.
`HostConfig` is the promise in `webserver.go:385`: a configuration is accepted
whole, or nothing happened. `Webserver` implements it with `stored` mapped to
what is on disk, or, while a handler is between its snapshot and the end of its
rollback, to what it would put back.

**Firewall.** A script is the set of what it was rendered from. `file`,
`lastGood`, `tmp`, `loaded` are the three files and the kernel's table, `timer` the
transient systemd timer. `vouched` are the scripts somebody confirmed, that were
loaded as confirmed or by a boot; it only serves the property. The timer's two
minutes are not counted: it fires whenever it is armed, except in the middle of
the action that armed it, which has no more than two minutes itself. The last
good file may silently be missing, or stay the older one, when its copy cannot be
written.

**PageTables, Pages.** The handlers of the pages differ in few ways - whether they
ask first, what they do to the message before and after, which flag they raise
and when they free it, whether they read the list again, what becomes of the
form - and a record says which. `PageTables` has one definition per handler,
`Pages` what each choice means: a task is one run of a handler, at its question,
with its call sent, answered or refused, at its second call, or reading the
list. Rows are there, changed or not there. A user who is `patient` begins
nothing while something runs; both kinds are checked. `failed` is about
the handlers that look at a failure: one that does not catch it has nothing to
tell.

**FileList.** A listing is asked for with the folder and account of the moment and
put on screen when it arrives. Loops (paste, delete) send one call per item. A
job is polled at an interval while one is on screen; `Unnoticed` is what the
hook compares.

**FileEditor.** `editing` is the page's object, `view` CodeEditor's document with
the object its listener was built for; they part when the same file is read
again. A text is the number of its last keystroke. A new file may have the path
of one that exists, of the open one too, and a renaming lets go of the editor
when the open file is the one renamed.

**Forms.** A card is a record of what it does: whether it is filled once or at
every answer, whether it has subjects to choose from, whether it asks again
while a job runs. What follows an answer is the rest of the handler of that
click: it reads back the subject that was chosen then, whatever is chosen now.

**Shell.** The server's sessions are what `Sessions` checks in full; here they are
who is signed in and by whom. A call carries the cookie of the moment it is
sent. Its answer comes in two steps: with the headers the browser sets or clears
the cookie (`Arrive`), with the body the page takes up what it says
(`TakeIdentity`, `SignOut`, `Unauthorized`, `TakeRail`, `TakeNo`); it may be lost
before either or cut off between them (`Lose`). The error paths of
`authenticate` differ: no session is a 401, a suspended account a 403, a failing
lookup a 500, and each clears the cookie the call came with (`ServeNobody`, `ServeSuspended`,
`ServeFault`); only the first signs the tab out. A session ends when it is used
after its time. Returning to one's own account may fail half way (`StopFails`),
or find the operator gone.

## 3. What is checked

Every property has a slip that breaks it. Every passing run fires every action
of its module.

| Run | Instance | What it shows |
|---|---|---|
| `sites_serial` | 2 hostnames, 2 accounts, ids up to 4, 4 requests one after the other, creates and updates failing at any call, moves half way | at rest, the configuration agrees with the table and no row is without files; a purge removes no served directory; only a resume lifts a suspension; every request is answered (under fairness) |
| `sites_races` | 2 requests interleaved, every operation failing anywhere, cancelled clients, calls that outlast their client | what still holds: a failed create has left no row, a successful one is served |
| `accounts_serial` | an administrator, a reseller, a customer, a free name; 3 requests, failing and cancelled | an administrator is left, a recorded Linux account exists, a failed create leaves no half, a refused delete has dropped no login, what a change of parent or a reseller's own create hangs under an account is a customer and the account a reseller |
| `accounts_depth` | the same panel, 1 request, nothing failing | refutes "one level only ... a forest of depth two" |
| `sessions_races` | an administrator, a reseller, and a customer of the first with authenticator and passkey, 2 handlers, 3 requests, 4 sessions | codes and challenges serve once, impersonation is one hop, returning never strands the operator, an answered reset or suspension ended what was signed in when it was written |
| `packages_limits` | a reseller, 2 customers, 2 packages, 2 handlers, a job, 3 requests, any call failing, a reboot | limits follow packages, a reseller's own create or assignment stays within the allowance, save where `owed` and `overtaken` say why not |
| `host_serial` | the web server: 3 estates (one rejected), 2 PHP providers, 2 servers, 2 requests, 2 failing commands (those of the agent's start included), 1 crash; or the firewall: 2 rules (one refused by nft), 2 overlapping blocklists, 3 requests, 2 failing commands, 1 reboot, a client that may leave | Apply implements `HostConfig`; an answered success is what is served; the recorded server, and only it, runs and boots, unless a handover was left adrift and the agent has not put it right; no served site loses its pool in a migration. A provisional script is confirmed or gone (under fairness), a refused rule leaves no row, after a load that went through kernel, file and table agree, the boot file always loads |
| `firewall_lockout` | a rule that cuts the operator off, one blocklist | refutes that the previous ruleset comes back for good |
| `pages` | 30 pages and parts of pages, each with 2 rows, 2 operations, 2 tasks, patient users and others, refused calls and lost answers | a failure is told once all is quiet, a quiet list is the server's, what is typed stays until it has arrived, a flagged operation does not run twice on a row, flags end (under fairness) |
| `pages_files` | the file manager's page, a patient user | refutes "failure does not [fade]" |
| `panels` | the listing (2 accounts, 2 folders, 3 files, 1 job), the editor (2 accounts, 2 files, one of whose names begins the other's) and 14 cards (2 subjects), in turn | what is deleted was on screen when it was chosen, unsaved text is marked and its loss asked about, a quiet listing or form is current and of the subject chosen, an untouched save changes nothing, jobs are followed to their end (under fairness) |
| `shell` | one tab, an operator and 2 customers, a code or (either a code or a passkey) asked for, 3 things begun, 1 call of the rail, lost and cut calls, sessions that end, accounts found suspended | what a tab sends is carried out as the account it shows, a rail that heard since the account came shows that account's figures or none, the tab knows who it is when all is quiet, the login form ends (under fairness) |

The `...Inv` invariants are the conjunctions of a module's type invariant and the
named invariants before them.

**Bounds.** `MaxRequests`, `MaxFaults`, `MaxCrashes`, `MaxBoots`, `MaxId` and
`MaxSessions` bound the counters. The hazards are between two requests, or between a
request and one failure of it and of its undo: two handlers, two faults and two to
four requests let every pair of operations meet at every step, and an operation run
on what a failed one left behind. Two hostnames suffice for a conflict, two accounts
for a move, three estates for "what was, what should be, what is rejected". In the
console the hazards are between one operation and the answer of another: `MaxOps`,
`MaxTasks`, `MaxCalls`, `MaxKeys` and `MaxRails` allow two of each (`shell`: three
operations and one call of the rail, so that a customer can be entered, left and
another entered; which factors are asked for only changes the form, and "both" has
the steps of each), and two accounts, rows or subjects are enough to be taken for
each other. Deadlock is not checked: a panel nobody asks anything of, at the end of
its bounds, stops.

**Guards on the console's properties.** Most of them are about a user who waits for
answers: the console does nothing to keep one who does not from overtaking
himself. What else they leave out - a lost call, two answers that crossed, an
answer cut off, a refused listing - is kept in history variables named for it
(`missed`, `crossed`, `unread`, `amiss`, `lost`, `cut`, `shed`), and section 5 says
what happens then.

**Serial and interleaved runs.** Several properties hold only when requests come
one after the other; the interleaved run of the same module then checks what
survives concurrency, and section 5 says what does not. `RefusedRuleIsGone`,
`CreateUnwinds` and `CreateLeavesNoHalf` speak of requests whose client is still
there, because the undo is made under that client's context.

**Fairness.** `Sites!FairSpec`: a handler that can take its next step takes it -
goroutines are scheduled and every call ends, because client and agent have
deadlines. `Firewall!FairSpec`: the same, and the timer fires (systemd). Nobody
is ever assumed to send a request or to confirm one. In the console: every call
is answered or given up by the browser, and what arrives is taken up (`Pages`,
`Forms`, `FileList`, `Shell`); a loop goes on to its next item, an interval fires, a
job ends (the agent's deadlines); of the polls one gets through again and again
(strong fairness: a network that always fails is not promised anything); the
passkey prompt is answered or times out. A user who waits is a state the
checker chooses, not fairness.

## 4. What is proved

`SitesProofs` (for every set of handlers, hostnames, accounts, operations, failure
switches and bounds, under the assumptions named in `SiteRows` and `Sites`):

- `TypeCorrect`: `Spec => []TypeOK`.
- `FailedCreatesUnwind`: a create that answers an error to a client still there
  has left no row.

The last one is not inductive. A row that was removed could come back if its id
were handed out again, so `Fresh` (no row at or above `nextId`) and `IdsUsed` (a
create's id is below it) are needed; and the error answer of a create must be
reachable only through the step that removes the row, which is `AllInStep`:
which steps belong to which operations, and what each has at hand. `IInv` is the
conjunction; there is one lemma per group of actions, over lemmas on the
statements (`StatementTypes`, `StatementFrame`) and on what changing one
handler's record leaves alone (`HandlerStep`, `RequestStep`).

- `CreatesAnswerServed` (`CreateAnswersServed`): however requests overlap, a create
  that answers success does so in a step after which its site is served, unless
  it was deleted meanwhile. The rows are read after the insert; what has to be
  invariant is that a name is given once (`DomainsOnce`) and that no statement
  changes the name of a row that keeps its id (`KeepsNames`), so that the row
  found in the answer is that create's (`Listed`).

With one handler (`OneHandler`: requests one after the other; answers given up and
arriving late still overlap the next request), and as little more as each needs:

| theorem | property | assumes besides | without it |
|---|---|---|---|
| `SuspensionsHold` | `SuspensionHolds` | nothing | |
| `PurgesWithdrawFirst` | `FilesLeaveLast` | no call is given up | a late apply of an older snapshot serves the site again |
| `FilesAreSomewhere` | `FilesSurvive` | clients wait | a create whose client left keeps a row without its directory |
| `FilesStayInPlace` | `FilesInPlace` | clients wait, no move is given up or fails on its way | a move given up, or failing after its rename, has moved the files of a row that was left alone |
| `NothingDrifts` | `NoDrift` | clients wait, no call is given up, only creates and updates may fail (their row is put back as it was) | a failed certificate change or move has no undo, a failed delete puts its row back without the certificate, and an undo whose client left does not happen |

All five rest on `AloneInv`: what a request has read of its row still stands
when it writes it (`HasRead`), the row it wrote is there until the agent has
answered (`HasWritten`), the name it deleted stays free as long (`HasDropped`), and
home and owner are the same in every row (`AtHome`). On top of it,
`WithdrawnInv` says that neither the rows a delete sends nor, at its last step, those
served have its name; `FilesInv` that every row has its directory but the one
being made or moved (`Unplaced`), and where that one is; `SurviveInv` that the files of every
row are in some home, because a move removes nothing before it has put it
elsewhere (`MoveLosesNothing`); `DriftInv` that the table
can be rendered as it is and as it was `Before` the request's change (`Sane`), and
that the latter is served until the apply is answered - which is why putting the
row back is enough when it fails.

`HostProofs` (for every set of estates, versions, providers and backends, any
command failing, the agent and the host restarting anywhere): `TypesHold`, with
never two servers up at once, for actions that overlap; and for actions one after
the other (`OneHandler`) `SuccessAndBoot` (`WebserverInv`), `ServedPoolsAnswer`
(`ServedPoolsListen`) and `ApplyRefinesHost`, the refinement `ApplyIsAtomic`. A host
that was left halfway through a handover is excepted until the agent has started
with everything it then does going through. `HostIsSound` proves of the atomic
specification that what is served was accepted and, unless a change was interrupted,
is what is on disk; `HostStaysSound` takes it over to the agent. None of the
properties is inductive. `Shape` says which operation reaches which step, and
`Knows` what an action that is alone may count on there: the snapshot is the disk
until the first write, the rollback has put the main file back before it turns to
the vhosts, every socket of the page and of the snapshot has a pool, and from
`enable` on the page is whole and loaded. `Booting` says that a server still enabled
that is not on record is running, which is what lets the agent's start put a
handover right
- unless a start has already failed at it (`unmended`).
`Stored`, the disk of the refinement, is the snapshot between the first
write and the last step of the rollback, so that those steps stutter and
the reload is the one that adopts; a restart in between is `Tear`.

`HostProofs` also has the firewall, as the instance `Wall` that `MCHost` runs (for every
set of rules, blocklists and first rulesets that fit, any command failing, clients
leaving, reboots anywhere): `FilterTypesKept` for any number of handlers,
and for requests one after the other `FilterHolds` (`FirewallInv`) and
`ProjectionKept` (`KernelIsProjection`). One handler is assumed because TLC refutes
`FileLoads` and `RefusedRuleIsGone` with two: they share the temporary file, and one
renames what the other checked. The invariant says which step belongs to which
operation (`InStep`); that the script on its way from the database to the
kernel is the one the tables give and is checked before it becomes the file
(`OnItsWay`); that a rule is new when it is entered and gone when its request has
failed (`NewRule`); that unless something failed kernel and file are what the
tables give, or gave before the rule that is not loaded yet (`Agree`); that there is
a good file to go back to from the first load on, and a timer between the arming
and the answer (`Guarded`); and that the last good file was vouched for
(`GoodFile`). `ProvisionalIsWatched`, which the proof needs and `FirewallInv` now
states, is the safety half of `ProvisionalEnds`.

`PanelsProofs` has the three parts of `MCPanels`, and `PanelsFit` (`PanelsInv`) all of
them together, whichever is on screen.

The editor (for every set of accounts and files, every relation of prefixes that
holds each path with itself, and every bound): `UnsavedTextIsMarked`,
`LossIsAlwaysAsked` and `SavesStayInAccount`. The second names the three ways a text
goes unasked: another account, a deletion, and a renaming of the open file. That the
mark is there whenever it must be is not inductive: a save takes the mark away
because of what the disk holds by then, a reading because of what it held when it
was served. The invariant says that view and object come and go together (`Shape`),
that an object is never of a call still on its way (`Numbered`, which is why a view
left over from an earlier reading stays detached), that a user who waits has one
call on its way, of the account on screen (`OneCall`), that an answer on its way
says what the disk holds and a save what the editor holds (`Answers`), and that an
unmarked view shows a text that has been in a file (`CleanIsKept`: has been, for a
new file may be put over it). One lemma per action; `SendKeeps` and `LetsGo` serve
the actions that send a call or leave the editor.

The listing (for every set of accounts, folders, names and jobs, and every bound):
`ListingIsCurrent` (`QuietListingIsCurrent`) and `DeletionsAreOfWhatIsShown`
(`DeletesWhatIsShownIfListed`). A quiet listing is current because a listing is wrong
only about files that jobs have made since, and only while the page has still to
hear of these jobs (`Fresh`, `Untold`): the poll that tells of one asks for the
listing again. So `Listed` says it of what is on screen and of every answer on
its way, and needs that what a page was told of a job stays true (`TellsTrue`:
jobs end and never start again), that a user who waits has everything under way
in one account (`OneAccount`) and that there is one listing on its way
(`OneListing`). A loop that pastes or deletes suspends all this until its end,
when it lists (`Orderly`).

The cards (for all fourteen, any subjects, and every bound):
`FormsFollowTheirSubject` (`QuietFormIsOfSubject`), for users who wait and those who
do not - unless another subject was chosen while a call was on its way, whose
handler then reads the old one back - and `UntouchedFormsAreHarmless`
(`UntouchedSaveChangesNothing`). The second rests on what is stored being what a
form holds (`FormIsStored`) and what an answer on its way brings (`ReadsAreStored`),
except while a save is on its way. What ends the exception depends on the card
(`CardKinds`, a lemma on the table of cards): one that asks by itself reads again
after every save, refused or not; on the others the save is alone on its way
(`SavesAlone`), with what the form holds, so that form and server agree when it is
done.

`AccountsProofs` (for every set of names and first accounts that a panel can hold -
an active administrator, usernames UNIQUE, recorded Linux accounts real ones - any
number of requests, any agent call failing and any client leaving): `TypesHold` for
any number of handlers, and `AccountsAreSound` (`AccountsInv`),
`RefusedDeletesKeepLogins` and `CustomersAreAssignedToResellers`
(`AssignedUnderResellers`) for requests one after the other (`OneHandler`). The last
is about the writes that check both roles; an administrator's create and a change of
role do not, and `accounts_depth` shows what follows. TLC refutes each of the last
three with two requests at once (section 5): nothing is held between a check and the
write it allows. What the invariant has to say is what a request still knows at each
step of what it has checked (`Knows`): that the row is the one it read, that nothing
is owned, that another administrator is left, that the parent is a reseller. That
removing a Linux account by name takes nobody else's needs names to be unique
(`Unique`), and that the row goes first.

`SessionsProofs` (for every set of accounts, handlers, passwords and codes, with
requests interleaved and given up anywhere): `ProofsOnceAndNoSecondHop`
(`SessionsInv`), `OperatorsComeBack` and `RevocationsAreComplete`. A request is at a
step of its operation and has a session that was once opened (`InStep`). What it
has learned of that session - that it is an operator's own, that it
impersonates, that its replacement is there - stays so because a row of the table
never changes but for its end (`Grows`). A code or a challenge that may still be
taken has let nobody in (`Fresh`). A revocation notes the sessions it finds when
the row is written; they are the account's until they are ended and ended when
the request is answered (`Marked`).

`PackagesProofs` (for every set of customers, resellers and packages, the
customers finite in number as rows of a table are, any number of requests and
jobs failing and given up anywhere, and reboots): `LimitsFollowPackages`
(`PackagesInv`) and `GrantsAreWithin` (`GrantsStayWithin`), which is about creates
and assignments: an update of a package in use looks at no allowance. What a request that
was not overtaken has read is still so (`Knows`), because every step that writes
a table marks the others; an account whose limit is not that of its package is
on the list of some request or has been given up (`Settled`). The allowance is
about a sum over customers. Induction over a finite set is out of these provers'
reach, so that a sum does not depend on its order, and what one more account or
a larger one adds to it, is proved by the least counterexample.

`ShellProofs` (for every set of customers and any number of calls, whatever is
lost, cut off, expires or comes late): `ActsAsItShows` (`ShellInv`), `QuietTabKnows`
(`KnowsWhoItIs`) and `RailShowsMe` (`RailIsOfMe`). They are about a tab that is
alone in its browser; what holds of several is in the invariant too, because calls
and cookie are shared by all. Their exceptions are the moments at which cookie and
screen differ: what is sent between the headers and the body of an answer that
changes the account (`quiet`), everything after such an answer was cut off (`cut`),
a panel whose cookie a 403 or 500 took (`shed`), a late 401 (`crossed`); and of the
rail, the time until it first heard since the account came (`heard`). A tab
waits for one call of its user's at a time (`OneOwn`) and is where that call was
sent from (`InPlace`); an answer can say only what its call was for (`Answered`);
no more sessions are opened than were asked for (`Counted`, the bound that keeps
the types); and of a tab that is alone, the cookie is the session of the account
on screen or gone, except while an answer is here that will change the screen
(`Changing`, `Going`, `AloneTab`), so that a call sent outside these moments goes
out in the session of the account shown (`AloneCall`).

`PagesProofs` (for all thirty pages, any rows, any number of operations and
handlers running): `FlaggedRunOnce` (`PagesInv`), `FailuresAreTold`,
`QuietListsAreCurrent` and `TypedTextIsKept`. The machine is right only because of
how the handlers use it. `Fits` says what it needs of a handler (one that changes
something reads the list again or takes it from the answer, a second call is
followed by a listing, a component's own flag disables the button that
raises it) and `Apart` of two of one page; a lemma per page shows that its table
has both, so a new handler that has not breaks a proof. `FlagInv` says who holds
which flag, for users who wait and those who do not; `WaitInv` what the one
handler of a user who waits has at hand, among it that its listing is the
server's and that a text it may blank has arrived.

What the attempts to prove these found, and what was changed in the models:
`RunsOnce` was true of two operations only. Turning a site's TLS off in the
certificates page raises the flag without looking at it and frees it when
done; a certificate being ordered may then be ordered again. The page's history
of flags taken over (`crossed`) did not count two handlers that raise the
same mark, and now does. Two `CASE` expressions had guards that overlap, which
TLC takes in order and the language does not, and one property read the next
state where the present one was meant.

In the firewall, a host without the installer's file (`FirstFile = None`) has
nothing to roll back to, so the first script it loads may stay unconfirmed:
`ProvisionalIsWatched` leaves that host out, and the run has the file. In the
listing, nothing said that the absence of a loop is not a loop;
`FileList!ConstantsFit` now does.

**Only model-checked.** Liveness (`RequestsEnd`, `ProvisionalEnds`, `FlagsEnd`,
`JobsAreFollowed`, `LoginEnds`): it is out of the prover's reach, and so is
everything about ENABLED. Every invariant and every action property of the
passing runs is the statement of a theorem.

## 5. Where code and comments disagree

Shown by a run (`PROJECT.json`, findings): accounts put under a customer, and a
customer with a parent made a reseller (`accounts_depth`); a rule that locked the operator out
loaded again as confirmed (`firewall_lockout`); a failure in the file manager
that vanishes with the listing that follows it (`pages_files`).

Claims the modules state and the code does not keep; each is a definition that
TLC refutes when it is given to a configuration as its INVARIANT or PROPERTY:

- `Sites!NoDrift` with two handlers: a snapshot of the table taken before another
  request's write is applied after it, and what is served lacks that write.
- `Sites!FilesInPlace` with moves that fail: the directory has been renamed when
  setting its owner or mode fails, the error is answered and the row goes on
  naming the directory that is gone (`sitemove.go:110-141`).
- `Accounts!AdminRemains` with two administrators deleting or demoting each other.
- `Sessions!PasswordSticks`: a login with a weak hash writes the old password back
  over a reset that came between its reading and its rehash.
- `Webserver!RefusedSwitchFallsBack`: a switch whose configuration is rejected
  leaves the new server running and the old one on record.
- `FileList!DeletesWhatIsShown` ("a selection ... means nothing once the listing
  changes", `Files.jsx:46`): a listing that was refused empties the screen and
  keeps the selection, and the bar deletes it.
- `FileEditor!SavedIsShown` ("the parent asks for the current one when it saves",
  `CodeEditor.jsx:48`): the file that is open is opened again, the view keeps
  reporting to the first object, and a save writes what was read, not what is
  shown.
- `Forms!FollowedToTheEnd` (`Backups.jsx:49`): a poll that fails ends the timer of a
  backup that is still running.

Met while modelling, without a run of their own:

- *Sites.* A delete whose apply fails puts the row back with `CreateSite`, which
  has no certificate columns: a TLS site comes back with none, and every later
  apply is refused (`internal/sites/service.go:229`). A certificate order that
  spans a suspension lifts it. A move that outlasts its client moves the files
  and not the row.
- *Accounts.* A site made while its owner is being deleted costs the owner the
  database login and not the row; a reseller demoted while a customer is being put
  under it keeps that customer. A Linux account is removed by name after its row: a
  create of that name in between loses it. A cancelled delete may leave a login's
  record without the login.
- *Sessions.* A login in flight when its account is suspended or reset still gets
  a session. Starting a two-factor setup that was authenticated earlier turns
  off one that was switched on meanwhile.
- *Packages.* Enlarging one's own package is not held to the allowance
  (`internal/httpapi/plan_handlers.go:145`), nor are two requests at once. When
  the package cannot be read, no limit is pushed and success is answered
  (`internal/plans/service.go:137`). The
  limits of a deleted package stay on disk. A limit set before the kernel
  enforces quota is not there after the reboot that turns it on.
- *Web server.* When a configuration is rejected the vhosts are put back and the
  PHP pools are not. Two applies at once share one snapshot directory. After an
  agent that died in a handover, the host is dark until the next apply. What the
  agent does at its start to put the recorded server in place is only logged when
  it fails, and the agent goes on (`cmd/opanel-agent/main.go:240-260`): the other server
  may run on, or boot.
- *Firewall.* Confirming keeps the file, whatever is loaded: after the timer has
  fired, the rejected script becomes the last good one. A reboot inside the two
  minutes makes the change permanent. Two applies share one temporary file, so one
  may rename what nobody checked. A last good file that could not be
  written is not told: the first time there is then nothing to roll back to
  (`actions/firewall.go:122`), later an older script (102, 157). The
  blocklist limit is per source when fetched and over all sources when rendered; two
  large lists make every later change fail, and the 4 MiB limit on a message may do
  so sooner. `established` connections are accepted first, so a browser that is cut
  off may still confirm over the one it has.
- *Shell.* "An operator will forget which one they are looking at"
  (`internal/httpapi/auth_handlers.go:120`): with several tabs the cookie is the
  browser's and the account on screen the tab's, and a tab left open shows the
  operator while what it sends is done as the customer. `ActsAsShown` is about a tab
  that is alone; even there the cookie changes with the headers of an answer
  (`api.js:35`) and the screen after its body (`api.js:57`, `App.jsx:165`), so that
  the rail's interval may ask as the account that is coming, and an answer cut off
  in between leaves it so for good. A 401 that comes late signs out an account
  that came meanwhile, and takes its cookie ("Everywhere else a 401 does mean the
  session is gone", `api.js:50`). A 403 for a suspended account and a 500 for a
  failing lookup take the cookie and leave the panel on screen
  (`internal/httpapi/middleware.go:173-195`). A 500 from returning to one's own account
  signs out a tab whose session lives. The rail keeps one customer's
  figures when another is entered, until its first answer (`StatusRail.jsx:22`).
- *Console.* Renaming the open file closes the editor without asking
  (`Files.jsx:443`), and New file writes over a file of that name, the open one too
  (`Files.jsx:288-302`). A handler reads back the subject of its click: a save
  answered after another subject was chosen puts the old one's state under the new
  one's name (`Backups.jsx:57-66`, `Php.jsx:144-189`). The first listing of the
  import page is not told when it fails (`Import.jsx:24-30`). The form of the web
  application firewall's mode and exclusions is never filled from what is stored:
  saving it for one of them, or the rules that go with the same Save, resets the
  others (`Waf.jsx:109-136`). A save of the notifications sends no events whatever
  was stored. Two questions about two logs cross and the late answer is shown. The
  WordPress form of a site keeps its flag after a failure (`Sites.jsx:591`). Turning
  off the malware schedule tells no failure. One flag names the busy row: another
  row's handler takes it over and frees it. In the certificates page, turning TLS
  off or deleting a certificate is not disabled while an order runs, and frees its
  flag: the order can be sent twice (`Ssl.jsx:50`, `Ssl.jsx:99`).

## 6. What is not modelled

`PROJECT.json` lists every part with its reason. In short: server parts still in
the plan; parts that read only (logs, statistics, host information);
presentation (pictures, menus, the dashboard, the directives of PHP as text, the
WHMCS module); the terminal, a stream; single-row settings and the audit log;
the installer, whose result is where two modules start; and the Rust agent,
which serves nothing yet. Inside the modelled parts, columns that only change
what a page says, rate limits, audit records, wording, and the text of scripts
and vhosts are left out. What httpd, nft, systemd, useradd and the quota tools
do is modelled from how the code uses them and is marked external. The console's
modules carry their own small server: composing them with the server's modules
is in the plan. A page keeps one account or site throughout in `Pages`; that it
may change under a call is in `FileList`, `FileEditor` and `Forms`.

## 7. Plan

Done, in this order because the rest of the panel hangs from it: websites,
accounts, sessions, packages, the web server beneath websites, the firewall, and
the console: pages, file manager, cards, shell.

Next:

1. `Backups`: start, run, copies offsite, restore, delete, upload, schedule,
   prune, restart; abstract specification "an archive and its row". Properties:
   a ready row has its archive, a prune never removes the last good one, one
   operation per account, a stale row is failed after a restart and never
   contradicted later. Two operations and one restart; then destinations.
2. `Databases` with sign-on: server and table as two stores; a recorded database
   exists; every sign-on account is swept; grants after a restore. `Cron`: rows
   and crontab, import once. Both instances of one abstract "record and thing"
   specification, shown by refinement.
3. `Jobs`: malware scans and file jobs, goroutines whose outcome must be
   recorded; `AgentServer`: slots, budgets, deadlines, and that every call ends.
4. `LinuxAccounts` with SFTP credentials: half-made accounts, reused ids, sealed
   homes; composed with `Accounts`, whose `hosted` it refines.
5. `Certificates` composed with `Sites`: store, order, renewal, deletion.
6. `WordPress`, `PhpSettings`, `Import`, as sequences over the modules above.
   Small independent services share one model-checking module, with a scene
   chosen by the initial state, as `MCPanels` does.
7. `Shell` with `Sessions` as its server, and `FileList` with `Jobs` as its.

To prove, as these modules come: the refinement of "record and thing" by `Databases`
and `Cron`, and the invariants of `Backups`.
