----------------------------- MODULE PageTables -----------------------------
(* What the handlers of each page do, for the page machine of Pages: one    *)
(* record per operation, grouped by the part of the page they belong to.    *)
(* The fields are explained in Pages.                                       *)

----------------------------------------------------------------------------
(* The usual handler: it clears the message, calls, tells the outcome and   *)
(* reads the list again, whatever came out.                                 *)

Button(n) ==
  [name |-> n, asks |-> 0, redraws |-> FALSE, prompts |-> FALSE, first |-> "none", gate |-> "none",
   flags |-> {}, frees |-> "answer", catches |-> TRUE, told |-> "ok", tail |-> "no",
   reload |-> "always", form |-> "none", effect |-> "change"]

Asked(n, e) == [Button(n) EXCEPT !.asks = 1, !.effect = e]
Form(n, e) == [Button(n) EXCEPT !.form = "success", !.effect = e]
Flagged(o, f) == [o EXCEPT !.gate = f, !.flags = {f}]
Sends(n) == [Button(n) EXCEPT !.effect = "none"]

\* A page: its operations, what a list that cannot be read does, whether one
\* that can takes the message away, and whether the user can ask for it.
Page(ops) == [ops |-> ops, unlisted |-> "tells", clears |-> FALSE, refresh |-> FALSE]

----------------------------------------------------------------------------
(* Websites.                                                               *)

\* The form waits for the page, the page for its list.
NewSite == [Form("create", "make") EXCEPT !.gate = "own", !.flags = {"own"}, !.form = "end"]
CreateSite == [NewSite EXCEPT !.flags = @ \cup {"page"}, !.frees = "reload", !.tail = "notes"]
Owner == [Asked("owner", "change") EXCEPT !.redraws = TRUE, !.first = "ok"]
AppType == [Asked("appType", "change") EXCEPT !.redraws = TRUE]
PhpOfSite == Button("php")
Suspend == Button("suspend")
SslCell == {Button("tlsOff"), Asked("tlsOn", "change")}
DeleteSite == Asked("delete", "drop")
\* The form's own flag goes with the form, when the installation succeeded.
InstallWordPressCard ==
  [Button("installWordPress") EXCEPT !.gate = "own", !.flags = {"own"}, !.frees = "success"]
InstallWordPress ==
  [InstallWordPressCard EXCEPT !.flags = @ \cup {"row"}, !.first = "ok", !.told = "clear"]
Sites == Page({CreateSite, Owner, AppType, PhpOfSite, Suspend, DeleteSite, InstallWordPress} \cup SslCell)

----------------------------------------------------------------------------
(* Backups and where they go.                                              *)

Restore == [Asked("restore", "none") EXCEPT !.first = "ok"]
DeleteBackup == Asked("delete", "drop")
BackUpNow == [Button("backup") EXCEPT !.effect = "make"]
UploadBackup == [Form("upload", "make") EXCEPT !.first = "ok"]
Backups == Page({BackUpNow, Restore, DeleteBackup, UploadBackup})

TestDestination == Flagged(Button("test"), "row")
RemoveDestination == [Asked("remove", "drop") EXCEPT !.first = "keep"]
\* The form is closed by the page, which then reads its list again.
DestinationForm == Flagged(Form("add", "make"), "own")
AddDestination == [DestinationForm EXCEPT !.first = "keep", !.reload = "success"]
Destinations == Page({TestDestination, RemoveDestination, AddDestination})

----------------------------------------------------------------------------
(* Malware scans.                                                          *)

InstallScanner == Flagged(Button("install"), "page")
UpdateScanner == Flagged(Button("update"), "page")
Scan == [Flagged(Button("scan"), "page") EXCEPT !.effect = "make"]
RemoveScanner == [Flagged(Button("uninstall"), "page") EXCEPT !.asks = 2]
FindingAction(n, questions) ==
  [Flagged(Button(n), "row") EXCEPT !.asks = questions, !.told = "keep", !.reload = "success",
                                    !.frees = "reload"]
Findings == {FindingAction("quarantine", 0), FindingAction("delete", 1)}
\* The button that turns the schedule off catches nothing.
SaveSchedule == [Flagged(Button("save"), "page") EXCEPT !.reload = "success"]
TurnScheduleOff ==
  [Button("turnOff") EXCEPT !.gate = "page", !.catches = FALSE, !.reload = "success", !.first = "keep"]
Malware == [Page({InstallScanner, UpdateScanner, RemoveScanner, Scan}) EXCEPT !.refresh = TRUE]
MalwareFindings == Page(Findings)
MalwareSchedule == Page({SaveSchedule, TurnScheduleOff})

----------------------------------------------------------------------------
(* Databases.                                                              *)

OpenPhpMyAdmin == [Sends("phpmyadmin") EXCEPT !.reload = "never", !.told = "keep"]
InstallPhpMyAdmin == Button("installPhpMyAdmin")
DeleteDatabase == Asked("deleteDatabase", "drop")
DeleteDatabaseUser == Asked("deleteUser", "drop")
ResetPassword == Sends("resetPassword")
NewDatabase == Form("create", "make")
Databases == Page({OpenPhpMyAdmin, InstallPhpMyAdmin, DeleteDatabase, DeleteDatabaseUser, ResetPassword,
                   NewDatabase})

----------------------------------------------------------------------------
(* Users and packages.                                                     *)

Role == Button("role")
PlanOfUser == Button("plan")
ResetUserPassword == Sends("resetPassword")
SuspendUser == Button("suspend")
Impersonate == [Asked("impersonate", "none") EXCEPT !.first = "keep", !.reload = "never", !.told = "keep"]
DeleteUser == Asked("delete", "drop")
NewUser == Form("create", "make")
ResellerLimits ==
  [Sends("limits") EXCEPT !.first = "keep", !.reload = "success"]
Users == Page({Role, PlanOfUser, ResetUserPassword, Impersonate, SuspendUser, DeleteUser, NewUser,
               ResellerLimits})

NewPlan == [Form("create", "make") EXCEPT !.form = "before"]
PlanRow == {Button("save"), Asked("delete", "drop")}
Packages == Page({NewPlan} \cup PlanRow)

----------------------------------------------------------------------------
(* WordPress.                                                              *)

InstallHere ==
  [Flagged(Form("install", "make"), "own") EXCEPT !.first = "keep", !.told = "keep", !.reload = "success"]
WordPress == Page({InstallHere})

\* The answer of a run brings the new inventory.
Manage(n, questions) ==
  [Flagged(Button(n), "page") EXCEPT !.asks = questions, !.reload = "answer"]
SignOn == [Flagged(Sends("signOn"), "page") EXCEPT !.reload = "never", !.told = "keep"]
UpdateCore == Manage("core", 1)
Components == {Manage("plugin", 0), Manage("updateAll", 1)}
WordPressManage == [Page(Components \cup {SignOn, UpdateCore}) EXCEPT !.unlisted = "empties"]

----------------------------------------------------------------------------
(* Certificates.                                                           *)

\* A run that succeeded closes the panel, and with it what was typed there.
InstallCertificate(n) ==
  [Form(n, "change") EXCEPT !.gate = "page", !.flags = {"page"}]
LetsEncryptForm == InstallCertificate("letsencrypt")
WildcardForm == InstallCertificate("wildcard")
ReuseForm == InstallCertificate("reuse")
ManualForm == InstallCertificate("manual")
TurnOff == [Asked("off", "change") EXCEPT !.flags = {"page"}, !.form = "wipes"]
DeleteCertificate == [Asked("delete", "drop") EXCEPT !.flags = {"page"}, !.form = "wipes"]
Ssl == Page({LetsEncryptForm, WildcardForm, ReuseForm, ManualForm, TurnOff, DeleteCertificate})

----------------------------------------------------------------------------
(* Firewall and the web application firewall.                              *)

\* A change is confirmed by a second call.
Rule(n, e) == [Button(n) EXCEPT !.gate = "page", !.flags = {"page"}, !.tail = "must", !.effect = e]
RuleForm == [Rule("add", "make") EXCEPT !.form = "before"]
RuleTable == [Rule("remove", "drop") EXCEPT !.asks = 1]
ClosePort == [Rule("close", "drop") EXCEPT !.asks = 1]
Firewall == Page({RuleForm, RuleTable, ClosePort})

RefreshSource == [Button("refresh") EXCEPT !.gate = "page"]
RemoveSource == [Asked("remove", "drop") EXCEPT !.gate = "page"]
AddSource == [Form("add", "make") EXCEPT !.gate = "page", !.form = "before"]
Sources == Page({AddSource, RefreshSource, RemoveSource})

InstallWaf == Flagged(Button("install"), "page")
\* Mode, excluded rules and categories go with one Save.
SaveWaf == Flagged(Button("save"), "page")
WafOfSite == Flagged(Button("site"), "page")
Waf == [Page({InstallWaf, SaveWaf, WafOfSite}) EXCEPT !.refresh = TRUE]

----------------------------------------------------------------------------
(* The machine: PHP, services, web servers, CloudLinux.                    *)

InstallPhp == Flagged(Button("install"), "row")
RemovePhp == Flagged(Asked("remove", "change"), "row")
PhpVersions == Page({InstallPhp, RemovePhp})
SaveSettings == [Flagged(Button("save"), "own") EXCEPT !.reload = "success", !.frees = "reload"]
VersionSettings == Page({SaveSettings})
DropOverride == [Button("drop") EXCEPT !.reload = "success", !.effect = "drop"]
Overrides == [Page({DropOverride}) EXCEPT !.unlisted = "silent"]

Act == Flagged(Sends("act"), "row")
System == [Page({Act}) EXCEPT !.refresh = TRUE]
SwitchTo == Flagged(Asked("switch", "change"), "page")
InstallLiteSpeed == Flagged(Form("installLiteSpeed", "change"), "page")
Webserver == Page({SwitchTo, InstallLiteSpeed})
InstallManager == Flagged(Button("manager"), "page")
InstallIntegration == Flagged(Button("integration"), "page")
CloudLinux == Page({InstallManager, InstallIntegration})

----------------------------------------------------------------------------
(* One's own account, SFTP logins, settings.                               *)

AccountForm(n) == [Form(n, "none") EXCEPT !.reload = "never"]
EmailForm == AccountForm("email")
PasswordForm == AccountForm("password")
DisableSecondFactor == AccountForm("disable")
EnableSecondFactor == AccountForm("enable")
SetUpSecondFactor == [Sends("setup") EXCEPT !.reload = "never", !.told = "keep"]
NotificationForm == [Sends("notifications") EXCEPT !.reload = "success"]
Account == Page({EmailForm, PasswordForm, DisableSecondFactor, SetUpSecondFactor, EnableSecondFactor,
                 NotificationForm})

RemovePasskey == [Button("remove") EXCEPT !.effect = "drop", !.reload = "success"]
RegisterPasskey ==
  [Flagged(Form("register", "make"), "own") EXCEPT !.reload = "success", !.frees = "reload",
                                                   !.prompts = TRUE]
Passkeys == [Page({RemovePasskey, RegisterPasskey}) EXCEPT !.unlisted = "silent"]

PrimaryLogin == [Sends("resetPrimary") EXCEPT !.reload = "never", !.told = "keep"]
ResetLogin == [Sends("reset") EXCEPT !.told = "keep"]
RemoveLogin == [Asked("remove", "drop") EXCEPT !.first = "keep"]
CreateLogin == [Flagged(Form("create", "make"), "own") EXCEPT !.told = "keep"]
SFTP == [Page({PrimaryLogin, ResetLogin, RemoveLogin, CreateLogin}) EXCEPT !.unlisted = "empties"]

\* Without a Linux user there is nothing to list and one button to get one.
EnableAccess ==
  [Flagged(Button("enable"), "own") EXCEPT !.told = "keep", !.reload = "success", !.effect = "make"]
Access == [Page({EnableAccess}) EXCEPT !.unlisted = "empties"]

UseIPv6 == [Button("ipv6") EXCEPT !.first = "keep"]
RemoveHostname == [Asked("removeHostname", "drop") EXCEPT !.first = "keep"]
AddHostname == [Form("addHostname", "make") EXCEPT !.first = "keep"]
Branding == [Form("branding", "none") EXCEPT !.first = "keep"]
TerminalSettings ==
  [Flagged(Sends("terminal"), "own") EXCEPT !.first = "keep", !.reload = "success"]
Settings == Page({UseIPv6, RemoveHostname, AddHostname, Branding, TerminalSettings})

TurnPasskeys == [Button("passkeys") EXCEPT !.first = "keep", !.reload = "answer"]
PasskeySwitch == [Page({TurnPasskeys}) EXCEPT !.unlisted = "silent"]

----------------------------------------------------------------------------
(* Scheduled tasks, imports, files.                                        *)

\* A new job leaves the form as it is, an edited one closes it.
JobForm == {Flagged(Form("add", "make"), "page"), Flagged(Form("save", "change"), "page")}
SaveJob == {IF o.name = "add" THEN [o EXCEPT !.form = "stays"] ELSE o : o \in JobForm}
PauseJob == [Flagged(Button("pause"), "page") EXCEPT !.form = "wipes"]
DeleteJob == [Flagged(Asked("delete", "drop"), "page") EXCEPT !.form = "wipes"]
Cron == [Page(SaveJob \cup {PauseJob, DeleteJob}) EXCEPT !.unlisted = "empties"]

\* What was uploaded is no list: the page has it from the answer, an import
\* leaves it, and where discarding it fails it goes by itself.
UploadImport == [Flagged(Sends("upload"), "page") EXCEPT !.reload = "never"]
RunImport == [Flagged(Asked("run", "none"), "page") EXCEPT !.reload = "never"]
DiscardImport ==
  [Sends("discard") EXCEPT !.gate = "page", !.first = "keep", !.catches = FALSE, !.told = "keep",
                           !.reload = "never"]
Import == [Page({UploadImport, RunImport, DiscardImport}) EXCEPT !.unlisted = "silent"]

CreateFile == [Form("create", "make") EXCEPT !.form = "before", !.flags = {"page"}]
Chmod == [Button("chmod") EXCEPT !.flags = {"page"}]
DeleteFile == [Asked("delete", "drop") EXCEPT !.flags = {"page"}]
ExtractFile ==
  [Flagged(Asked("extract", "none"), "page") EXCEPT !.first = "keep", !.told = "keep", !.reload = "never"]
Files == [Page({CreateFile, Chmod, ExtractFile, DeleteFile}) EXCEPT !.clears = TRUE, !.unlisted = "empties"]

Table ==
  [sites |-> Sites, backups |-> Backups, destinations |-> Destinations, malware |-> Malware,
   findings |-> MalwareFindings, schedule |-> MalwareSchedule, databases |-> Databases, users |-> Users,
   packages |-> Packages, wordpress |-> WordPress, manage |-> WordPressManage, ssl |-> Ssl,
   firewall |-> Firewall, sources |-> Sources, waf |-> Waf, php |-> PhpVersions,
   phpsettings |-> VersionSettings, overrides |-> Overrides, system |-> System, webserver |-> Webserver,
   cloudlinux |-> CloudLinux, account |-> Account, passkeys |-> Passkeys, sftp |-> SFTP,
   access |-> Access, settings |-> Settings,
   passkeyswitch |-> PasskeySwitch, cron |-> Cron, import |-> Import, files |-> Files]
=============================================================================
