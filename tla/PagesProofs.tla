---------------------------- MODULE PagesProofs ----------------------------
(***************************************************************************)
(* What the machine of Pages guarantees for the pages of PageTables, any   *)
(* number of rows, operations and handlers running: no flagged operation   *)
(* runs twice on a row, and a user who waits is told of a failure, sees    *)
(* what is on the server once all is quiet, and keeps what was typed.      *)
(*                                                                         *)
(* The machine is right only because of how the handlers use it.  Fits and *)
(* Apart say what that is: every handler that changes something reads the  *)
(* list again or takes it from the answer, every flag of a component       *)
(* guards the button that raises it, and no handler frees the flag of      *)
(* another one.  FlagInv is about the flags, WaitInv about the one handler *)
(* a user who waits has running.                                           *)
(***************************************************************************)
EXTENDS Pages, FiniteSetTheorems, TLAPS

----------------------------------------------------------------------------
(* What the proofs use of a handler, and of the handlers of one page.      *)
Fits(o) ==
  /\ o.name # "visit"
  /\ o.asks \in 0..2
  /\ o.flags \subseteq {"page", "row", "own"} /\ o.gate \in {"none", "page", "row", "own"}
  /\ o.gate = "row" => "page" \notin o.flags
  /\ "own" \in o.flags => o.gate = "own"
  /\ o.first \in {"none", "ok", "keep"} /\ o.told \in {"ok", "keep", "clear"}
  /\ o.catches \in BOOLEAN
  /\ o.tail \in {"no", "notes", "must"} /\ (o.tail # "no" => o.reload = "always")
  /\ o.effect \in {"make", "drop", "change", "none"}
  /\ o.reload \in {"always", "success", "answer", "never"} /\ (o.effect # "none" => o.reload # "never")

Apart(o, q) == "own" \in o.flags /\ o.name = q.name => o = q

PageFits(P) == (\A o \in P.ops : Fits(o)) /\ (\A o, q \in P.ops : Apart(o, q))

----------------------------------------------------------------------------
(* The invariant.                                                          *)

Mark(t) == IF "page" \in t.op.flags THEN "page" ELSE t.row

(* Whether a handler has raised its component's own flag.                  *)
HoldsOwn(t) ==
  /\ "own" \in t.op.flags
  /\ Running(t) \/ (t.stage \in {"list", "listed"} /\ t.op.frees = "reload")

(* Handlers are numbered as they begin; a visit only reads the list.       *)
TaskInv(t) ==
  /\ t.n <= ops
  /\ t.op \in OpsHere \/ (t.op = Visit /\ t.stage \in {"list", "listed"} /\ ~t.done)
  /\ Questioned(t) => ~Disabled(t.op, t.row)
  /\ HoldsOwn(t) => t.op.name \in own
  /\ Holds(t) /\ t.op.gate \in t.op.flags /\ t.op.gate # "own" /\ ~crossed => busy = Mark(t)

PairInv(t, u) ==
  /\ t.n = u.n => t = u
  /\ Questioned(t) /\ Questioned(u) => t = u
  /\ HoldsOwn(t) /\ HoldsOwn(u) /\ t.op = u.op => t = u
  /\ Holds(t) /\ Holds(u) /\ ~crossed => t.op = u.op /\ t.row = u.row
  /\ Holds(t) /\ Holds(u) /\ ~crossed /\ t.op.gate \in t.op.flags /\ t.op.gate # "own" => t = u

FlagInv == (\A t \in tasks : TaskInv(t)) /\ (\A t, u \in tasks : PairInv(t, u))

(* The pages that confirm nothing: there the server takes nothing back.    *)
Plain == \A o \in OpsHere : o.tail # "must"

(* What the one handler of a user who waits has at hand.                   *)
Waited(t) ==
  /\ Running(t) => ~failed
  /\ (t.stage = "done" \/ t.stage = "more" \/ t.done) /\ TakesText(t.op) => saved
  /\ Plain /\ t.stage \in {"first", "second", "sent", "refused"} /\ ~missed => shown = server
  /\ Plain /\ t.stage \in {"done", "listed"} => t.rows = server
  /\ Plain /\ t.stage = "done" /\ t.op.effect = "none" /\ ~missed => shown = server
  /\ t.stage = "more" => t.op.tail # "no"

WaitInv ==
  /\ \A t, u \in tasks : t = u
  /\ \A t \in tasks : Waited(t)
  /\ Plain /\ tasks = {} /\ ~missed => shown = server
  /\ failed /\ ~Table[page].clears => msg = "err"

IInv ==
  /\ TypeOK
  /\ IsFiniteSet(tasks)
  /\ FlagInv
  /\ Plain => \A r \in Rows : waiting[r] = Nothing
  /\ patient => WaitInv

----------------------------------------------------------------------------
(* The pages, one by one.                                                  *)

LEMMA SitesFits == PageFits(Sites)
<1>1. Sites.ops = {CreateSite, Owner, AppType, PhpOfSite, Suspend, DeleteSite, InstallWordPress,
        Button("tlsOff"), Asked("tlsOn", "change")}
  BY DEF Sites, Page, SslCell
<1>2. Fits(CreateSite) /\ Fits(Owner) /\ Fits(AppType) /\ Fits(PhpOfSite) /\ Fits(Suspend) /\
      Fits(DeleteSite) /\ Fits(InstallWordPress) /\ Fits(Button("tlsOff")) /\ Fits(Asked("tlsOn", "change"))
  BY DEF Fits, CreateSite, NewSite, Form, Button, Owner, Asked, AppType, PhpOfSite, Suspend, DeleteSite,
         InstallWordPress, InstallWordPressCard
<1>3. "own" \notin Owner.flags /\ "own" \notin AppType.flags /\ "own" \notin PhpOfSite.flags /\ "own" \notin
      Suspend.flags /\ "own" \notin DeleteSite.flags /\ "own" \notin Button("tlsOff").flags /\ "own" \notin
      Asked("tlsOn", "change").flags /\ Owner.name # CreateSite.name /\ AppType.name # CreateSite.name /\
      PhpOfSite.name # CreateSite.name /\ Suspend.name # CreateSite.name /\ DeleteSite.name #
      CreateSite.name /\ InstallWordPress.name # CreateSite.name /\ Button("tlsOff").name # CreateSite.name
      /\ Asked("tlsOn", "change").name # CreateSite.name /\ CreateSite.name # InstallWordPress.name /\
      Owner.name # InstallWordPress.name /\ AppType.name # InstallWordPress.name /\ PhpOfSite.name #
      InstallWordPress.name /\ Suspend.name # InstallWordPress.name /\ DeleteSite.name #
      InstallWordPress.name /\ Button("tlsOff").name # InstallWordPress.name /\ Asked("tlsOn",
      "change").name # InstallWordPress.name
  BY DEF CreateSite, NewSite, Form, Button, Owner, Asked, AppType, PhpOfSite, Suspend, DeleteSite,
         InstallWordPress, InstallWordPressCard
<1> QED BY <1>1, <1>2, <1>3 DEF PageFits, Apart

LEMMA BackupsFits == PageFits(Backups)
<1>1. Backups.ops = {BackUpNow, Restore, DeleteBackup, UploadBackup}
  BY DEF Backups, Page
<1>2. Fits(BackUpNow) /\ Fits(Restore) /\ Fits(DeleteBackup) /\ Fits(UploadBackup)
  BY DEF Fits, BackUpNow, Button, Restore, Asked, DeleteBackup, UploadBackup, Form
<1>3. "own" \notin BackUpNow.flags /\ "own" \notin Restore.flags /\ "own" \notin DeleteBackup.flags /\ "own"
      \notin UploadBackup.flags
  BY DEF BackUpNow, Button, Restore, Asked, DeleteBackup, UploadBackup, Form
<1> QED BY <1>1, <1>2, <1>3 DEF PageFits, Apart

LEMMA DestinationsFits == PageFits(Destinations)
<1>1. Destinations.ops = {TestDestination, RemoveDestination, AddDestination}
  BY DEF Destinations, Page
<1>2. Fits(TestDestination) /\ Fits(RemoveDestination) /\ Fits(AddDestination)
  BY DEF Fits, TestDestination, Flagged, Button, RemoveDestination, Asked, AddDestination, DestinationForm,
         Form
<1>3. "own" \notin TestDestination.flags /\ "own" \notin RemoveDestination.flags /\ TestDestination.name #
      AddDestination.name /\ RemoveDestination.name # AddDestination.name
  BY DEF TestDestination, Flagged, Button, RemoveDestination, Asked, AddDestination, DestinationForm, Form
<1> QED BY <1>1, <1>2, <1>3 DEF PageFits, Apart

LEMMA MalwareFits == PageFits(Malware)
<1>1. Malware.ops = {InstallScanner, UpdateScanner, RemoveScanner, Scan}
  BY DEF Malware, Page
<1>2. Fits(InstallScanner) /\ Fits(UpdateScanner) /\ Fits(RemoveScanner) /\ Fits(Scan)
  BY DEF Fits, InstallScanner, Flagged, Button, UpdateScanner, RemoveScanner, Scan
<1>3. "own" \notin InstallScanner.flags /\ "own" \notin UpdateScanner.flags /\ "own" \notin
      RemoveScanner.flags /\ "own" \notin Scan.flags
  BY DEF InstallScanner, Flagged, Button, UpdateScanner, RemoveScanner, Scan
<1> QED BY <1>1, <1>2, <1>3 DEF PageFits, Apart

LEMMA MalwareFindingsFits == PageFits(MalwareFindings)
<1>1. MalwareFindings.ops = {FindingAction("quarantine", 0), FindingAction("delete", 1)}
  BY DEF MalwareFindings, Page, Findings
<1>2. Fits(FindingAction("quarantine", 0)) /\ Fits(FindingAction("delete", 1))
  BY DEF Fits, FindingAction, Flagged, Button
<1>3. "own" \notin FindingAction("quarantine", 0).flags /\ "own" \notin FindingAction("delete", 1).flags
  BY DEF FindingAction, Flagged, Button
<1> QED BY <1>1, <1>2, <1>3 DEF PageFits, Apart

LEMMA MalwareScheduleFits == PageFits(MalwareSchedule)
<1>1. MalwareSchedule.ops = {SaveSchedule, TurnScheduleOff}
  BY DEF MalwareSchedule, Page
<1>2. Fits(SaveSchedule) /\ Fits(TurnScheduleOff)
  BY DEF Fits, SaveSchedule, Flagged, Button, TurnScheduleOff
<1>3. "own" \notin SaveSchedule.flags /\ "own" \notin TurnScheduleOff.flags
  BY DEF SaveSchedule, Flagged, Button, TurnScheduleOff
<1> QED BY <1>1, <1>2, <1>3 DEF PageFits, Apart

LEMMA DatabasesFits == PageFits(Databases)
<1>1. Databases.ops = {OpenPhpMyAdmin, InstallPhpMyAdmin, DeleteDatabase, DeleteDatabaseUser, ResetPassword,
        NewDatabase}
  BY DEF Databases, Page
<1>2. Fits(OpenPhpMyAdmin) /\ Fits(InstallPhpMyAdmin) /\ Fits(DeleteDatabase) /\ Fits(DeleteDatabaseUser) /\
      Fits(ResetPassword) /\ Fits(NewDatabase)
  BY DEF Fits, OpenPhpMyAdmin, Sends, Button, InstallPhpMyAdmin, DeleteDatabase, Asked, DeleteDatabaseUser,
         ResetPassword, NewDatabase, Form
<1>3. "own" \notin OpenPhpMyAdmin.flags /\ "own" \notin InstallPhpMyAdmin.flags /\ "own" \notin
      DeleteDatabase.flags /\ "own" \notin DeleteDatabaseUser.flags /\ "own" \notin ResetPassword.flags /\
      "own" \notin NewDatabase.flags
  BY DEF OpenPhpMyAdmin, Sends, Button, InstallPhpMyAdmin, DeleteDatabase, Asked, DeleteDatabaseUser,
         ResetPassword, NewDatabase, Form
<1> QED BY <1>1, <1>2, <1>3 DEF PageFits, Apart

LEMMA UsersFits == PageFits(Users)
<1>1. Users.ops = {Role, PlanOfUser, ResetUserPassword, Impersonate, SuspendUser, DeleteUser, NewUser,
        ResellerLimits}
  BY DEF Users, Page
<1>2. Fits(Role) /\ Fits(PlanOfUser) /\ Fits(ResetUserPassword) /\ Fits(Impersonate) /\ Fits(SuspendUser) /\
      Fits(DeleteUser) /\ Fits(NewUser) /\ Fits(ResellerLimits)
  BY DEF Fits, Role, Button, PlanOfUser, ResetUserPassword, Sends, Impersonate, Asked, SuspendUser,
         DeleteUser, NewUser, Form, ResellerLimits
<1>3. "own" \notin Role.flags /\ "own" \notin PlanOfUser.flags /\ "own" \notin ResetUserPassword.flags /\
      "own" \notin Impersonate.flags /\ "own" \notin SuspendUser.flags /\ "own" \notin DeleteUser.flags /\
      "own" \notin NewUser.flags /\ "own" \notin ResellerLimits.flags
  BY DEF Role, Button, PlanOfUser, ResetUserPassword, Sends, Impersonate, Asked, SuspendUser, DeleteUser,
         NewUser, Form, ResellerLimits
<1> QED BY <1>1, <1>2, <1>3 DEF PageFits, Apart

LEMMA PackagesFits == PageFits(Packages)
<1>1. Packages.ops = {NewPlan, Button("save"), Asked("delete", "drop")}
  BY DEF Packages, Page, PlanRow
<1>2. Fits(NewPlan) /\ Fits(Button("save")) /\ Fits(Asked("delete", "drop"))
  BY DEF Fits, NewPlan, Form, Button, Asked
<1>3. "own" \notin NewPlan.flags /\ "own" \notin Button("save").flags /\ "own" \notin Asked("delete",
      "drop").flags
  BY DEF NewPlan, Form, Button, Asked
<1> QED BY <1>1, <1>2, <1>3 DEF PageFits, Apart

LEMMA WordPressFits == PageFits(WordPress)
<1>1. WordPress.ops = {InstallHere}
  BY DEF WordPress, Page
<1>2. Fits(InstallHere)
  BY DEF Fits, InstallHere, Flagged, Form, Button
<1> QED BY <1>1, <1>2 DEF PageFits, Apart

LEMMA WordPressManageFits == PageFits(WordPressManage)
<1>1. WordPressManage.ops = {Manage("plugin", 0), Manage("updateAll", 1), SignOn, UpdateCore}
  BY DEF WordPressManage, Page, Components
<1>2. Fits(Manage("plugin", 0)) /\ Fits(Manage("updateAll", 1)) /\ Fits(SignOn) /\ Fits(UpdateCore)
  BY DEF Fits, Manage, Flagged, Button, SignOn, Sends, UpdateCore
<1>3. "own" \notin Manage("plugin", 0).flags /\ "own" \notin Manage("updateAll", 1).flags /\ "own" \notin
      SignOn.flags /\ "own" \notin UpdateCore.flags
  BY DEF Manage, Flagged, Button, SignOn, Sends, UpdateCore
<1> QED BY <1>1, <1>2, <1>3 DEF PageFits, Apart

LEMMA SslFits == PageFits(Ssl)
<1>1. Ssl.ops = {LetsEncryptForm, WildcardForm, ReuseForm, ManualForm, TurnOff, DeleteCertificate}
  BY DEF Ssl, Page
<1>2. Fits(LetsEncryptForm) /\ Fits(WildcardForm) /\ Fits(ReuseForm) /\ Fits(ManualForm) /\ Fits(TurnOff) /\
      Fits(DeleteCertificate)
  BY DEF Fits, LetsEncryptForm, InstallCertificate, Form, Button, WildcardForm, ReuseForm, ManualForm,
         TurnOff, Asked, DeleteCertificate
<1>3. "own" \notin LetsEncryptForm.flags /\ "own" \notin WildcardForm.flags /\ "own" \notin ReuseForm.flags
      /\ "own" \notin ManualForm.flags /\ "own" \notin TurnOff.flags /\ "own" \notin DeleteCertificate.flags
  BY DEF LetsEncryptForm, InstallCertificate, Form, Button, WildcardForm, ReuseForm, ManualForm, TurnOff,
         Asked, DeleteCertificate
<1> QED BY <1>1, <1>2, <1>3 DEF PageFits, Apart

LEMMA FirewallFits == PageFits(Firewall)
<1>1. Firewall.ops = {RuleForm, RuleTable, ClosePort}
  BY DEF Firewall, Page
<1>2. Fits(RuleForm) /\ Fits(RuleTable) /\ Fits(ClosePort)
  BY DEF Fits, RuleForm, Rule, Button, RuleTable, ClosePort
<1>3. "own" \notin RuleForm.flags /\ "own" \notin RuleTable.flags /\ "own" \notin ClosePort.flags
  BY DEF RuleForm, Rule, Button, RuleTable, ClosePort
<1> QED BY <1>1, <1>2, <1>3 DEF PageFits, Apart

LEMMA SourcesFits == PageFits(Sources)
<1>1. Sources.ops = {AddSource, RefreshSource, RemoveSource}
  BY DEF Sources, Page
<1>2. Fits(AddSource) /\ Fits(RefreshSource) /\ Fits(RemoveSource)
  BY DEF Fits, AddSource, Form, Button, RefreshSource, RemoveSource, Asked
<1>3. "own" \notin AddSource.flags /\ "own" \notin RefreshSource.flags /\ "own" \notin RemoveSource.flags
  BY DEF AddSource, Form, Button, RefreshSource, RemoveSource, Asked
<1> QED BY <1>1, <1>2, <1>3 DEF PageFits, Apart

LEMMA WafFits == PageFits(Waf)
<1>1. Waf.ops = {InstallWaf, SaveWaf, WafOfSite}
  BY DEF Waf, Page
<1>2. Fits(InstallWaf) /\ Fits(SaveWaf) /\ Fits(WafOfSite)
  BY DEF Fits, InstallWaf, Flagged, Button, SaveWaf, WafOfSite
<1>3. "own" \notin InstallWaf.flags /\ "own" \notin SaveWaf.flags /\ "own" \notin WafOfSite.flags
  BY DEF InstallWaf, Flagged, Button, SaveWaf, WafOfSite
<1> QED BY <1>1, <1>2, <1>3 DEF PageFits, Apart

LEMMA PhpVersionsFits == PageFits(PhpVersions)
<1>1. PhpVersions.ops = {InstallPhp, RemovePhp}
  BY DEF PhpVersions, Page
<1>2. Fits(InstallPhp) /\ Fits(RemovePhp)
  BY DEF Fits, InstallPhp, Flagged, Button, RemovePhp, Asked
<1>3. "own" \notin InstallPhp.flags /\ "own" \notin RemovePhp.flags
  BY DEF InstallPhp, Flagged, Button, RemovePhp, Asked
<1> QED BY <1>1, <1>2, <1>3 DEF PageFits, Apart

LEMMA VersionSettingsFits == PageFits(VersionSettings)
<1>1. VersionSettings.ops = {SaveSettings}
  BY DEF VersionSettings, Page
<1>2. Fits(SaveSettings)
  BY DEF Fits, SaveSettings, Flagged, Button
<1> QED BY <1>1, <1>2 DEF PageFits, Apart

LEMMA OverridesFits == PageFits(Overrides)
<1>1. Overrides.ops = {DropOverride}
  BY DEF Overrides, Page
<1>2. Fits(DropOverride)
  BY DEF Fits, DropOverride, Button
<1>3. "own" \notin DropOverride.flags
  BY DEF DropOverride, Button
<1> QED BY <1>1, <1>2, <1>3 DEF PageFits, Apart

LEMMA SystemFits == PageFits(System)
<1>1. System.ops = {Act}
  BY DEF System, Page
<1>2. Fits(Act)
  BY DEF Fits, Act, Flagged, Sends, Button
<1>3. "own" \notin Act.flags
  BY DEF Act, Flagged, Sends, Button
<1> QED BY <1>1, <1>2, <1>3 DEF PageFits, Apart

LEMMA WebserverFits == PageFits(Webserver)
<1>1. Webserver.ops = {SwitchTo, InstallLiteSpeed}
  BY DEF Webserver, Page
<1>2. Fits(SwitchTo) /\ Fits(InstallLiteSpeed)
  BY DEF Fits, SwitchTo, Flagged, Asked, Button, InstallLiteSpeed, Form
<1>3. "own" \notin SwitchTo.flags /\ "own" \notin InstallLiteSpeed.flags
  BY DEF SwitchTo, Flagged, Asked, Button, InstallLiteSpeed, Form
<1> QED BY <1>1, <1>2, <1>3 DEF PageFits, Apart

LEMMA CloudLinuxFits == PageFits(CloudLinux)
<1>1. CloudLinux.ops = {InstallManager, InstallIntegration}
  BY DEF CloudLinux, Page
<1>2. Fits(InstallManager) /\ Fits(InstallIntegration)
  BY DEF Fits, InstallManager, Flagged, Button, InstallIntegration
<1>3. "own" \notin InstallManager.flags /\ "own" \notin InstallIntegration.flags
  BY DEF InstallManager, Flagged, Button, InstallIntegration
<1> QED BY <1>1, <1>2, <1>3 DEF PageFits, Apart

LEMMA AccountFits == PageFits(Account)
<1>1. Account.ops = {EmailForm, PasswordForm, DisableSecondFactor, SetUpSecondFactor, EnableSecondFactor,
        NotificationForm}
  BY DEF Account, Page
<1>2. Fits(EmailForm) /\ Fits(PasswordForm) /\ Fits(DisableSecondFactor) /\ Fits(SetUpSecondFactor) /\
      Fits(EnableSecondFactor) /\ Fits(NotificationForm)
  BY DEF Fits, EmailForm, AccountForm, Form, Button, PasswordForm, DisableSecondFactor, SetUpSecondFactor,
         Sends, EnableSecondFactor, NotificationForm
<1>3. "own" \notin EmailForm.flags /\ "own" \notin PasswordForm.flags /\ "own" \notin
      DisableSecondFactor.flags /\ "own" \notin SetUpSecondFactor.flags /\ "own" \notin
      EnableSecondFactor.flags /\ "own" \notin NotificationForm.flags
  BY DEF EmailForm, AccountForm, Form, Button, PasswordForm, DisableSecondFactor, SetUpSecondFactor, Sends,
         EnableSecondFactor, NotificationForm
<1> QED BY <1>1, <1>2, <1>3 DEF PageFits, Apart

LEMMA PasskeysFits == PageFits(Passkeys)
<1>1. Passkeys.ops = {RemovePasskey, RegisterPasskey}
  BY DEF Passkeys, Page
<1>2. Fits(RemovePasskey) /\ Fits(RegisterPasskey)
  BY DEF Fits, RemovePasskey, Button, RegisterPasskey, Flagged, Form
<1>3. "own" \notin RemovePasskey.flags /\ RemovePasskey.name # RegisterPasskey.name
  BY DEF RemovePasskey, Button, RegisterPasskey, Flagged, Form
<1> QED BY <1>1, <1>2, <1>3 DEF PageFits, Apart

LEMMA SFTPFits == PageFits(SFTP)
<1>1. SFTP.ops = {PrimaryLogin, ResetLogin, RemoveLogin, CreateLogin}
  BY DEF SFTP, Page
<1>2. Fits(PrimaryLogin) /\ Fits(ResetLogin) /\ Fits(RemoveLogin) /\ Fits(CreateLogin)
  BY DEF Fits, PrimaryLogin, Sends, Button, ResetLogin, RemoveLogin, Asked, CreateLogin, Flagged, Form
<1>3. "own" \notin PrimaryLogin.flags /\ "own" \notin ResetLogin.flags /\ "own" \notin RemoveLogin.flags /\
      PrimaryLogin.name # CreateLogin.name /\ ResetLogin.name # CreateLogin.name /\ RemoveLogin.name #
      CreateLogin.name
  BY DEF PrimaryLogin, Sends, Button, ResetLogin, RemoveLogin, Asked, CreateLogin, Flagged, Form
<1> QED BY <1>1, <1>2, <1>3 DEF PageFits, Apart

LEMMA AccessFits == PageFits(Access)
<1>1. Access.ops = {EnableAccess}
  BY DEF Access, Page
<1>2. Fits(EnableAccess)
  BY DEF Fits, EnableAccess, Flagged, Button
<1> QED BY <1>1, <1>2 DEF PageFits, Apart

LEMMA SettingsFits == PageFits(Settings)
<1>1. Settings.ops = {UseIPv6, RemoveHostname, AddHostname, Branding, TerminalSettings}
  BY DEF Settings, Page
<1>2. Fits(UseIPv6) /\ Fits(RemoveHostname) /\ Fits(AddHostname) /\ Fits(Branding) /\ Fits(TerminalSettings)
  BY DEF Fits, UseIPv6, Button, RemoveHostname, Asked, AddHostname, Form, Branding, TerminalSettings,
         Flagged, Sends
<1>3. "own" \notin UseIPv6.flags /\ "own" \notin RemoveHostname.flags /\ "own" \notin AddHostname.flags /\
      "own" \notin Branding.flags /\ UseIPv6.name # TerminalSettings.name /\ RemoveHostname.name #
      TerminalSettings.name /\ AddHostname.name # TerminalSettings.name /\ Branding.name #
      TerminalSettings.name
  BY DEF UseIPv6, Button, RemoveHostname, Asked, AddHostname, Form, Branding, TerminalSettings, Flagged,
         Sends
<1> QED BY <1>1, <1>2, <1>3 DEF PageFits, Apart

LEMMA PasskeySwitchFits == PageFits(PasskeySwitch)
<1>1. PasskeySwitch.ops = {TurnPasskeys}
  BY DEF PasskeySwitch, Page
<1>2. Fits(TurnPasskeys)
  BY DEF Fits, TurnPasskeys, Button
<1>3. "own" \notin TurnPasskeys.flags
  BY DEF TurnPasskeys, Button
<1> QED BY <1>1, <1>2, <1>3 DEF PageFits, Apart

LEMMA CronFits == PageFits(Cron)
<1> DEFINE AddJob == [Flagged(Form("add", "make"), "page") EXCEPT !.form = "stays"]
           EditJob == Flagged(Form("save", "change"), "page")
           JobToAdd == Flagged(Form("add", "make"), "page")
<1>0. SaveJob = {AddJob, EditJob}
  <2>1. JobForm = {JobToAdd, EditJob}
    BY DEF JobForm
  <2>2. JobToAdd.name = "add" /\ EditJob.name # "add"
    BY DEF Flagged, Form, Button
  <2> QED BY <2>1, <2>2 DEF SaveJob
<1>1. Cron.ops = {AddJob, EditJob, PauseJob, DeleteJob}
  BY <1>0 DEF Cron, Page
<1>2. Fits(AddJob) /\ Fits(EditJob) /\ Fits(PauseJob) /\ Fits(DeleteJob)
  BY DEF Fits, Flagged, Form, Button, PauseJob, DeleteJob, Asked
<1>3. "own" \notin AddJob.flags /\ "own" \notin EditJob.flags /\ "own" \notin PauseJob.flags /\ "own" \notin
      DeleteJob.flags
  BY DEF Flagged, Form, Button, PauseJob, DeleteJob, Asked
<1> QED BY <1>1, <1>2, <1>3 DEF PageFits, Apart

LEMMA ImportFits == PageFits(Import)
<1>1. Import.ops = {UploadImport, RunImport, DiscardImport}
  BY DEF Import, Page
<1>2. Fits(UploadImport) /\ Fits(RunImport) /\ Fits(DiscardImport)
  BY DEF Fits, UploadImport, DiscardImport, Sends, Flagged, Button, RunImport, Asked
<1>3. "own" \notin UploadImport.flags /\ "own" \notin RunImport.flags /\ "own" \notin DiscardImport.flags
  BY DEF UploadImport, DiscardImport, Sends, Flagged, Button, RunImport, Asked
<1> QED BY <1>1, <1>2, <1>3 DEF PageFits, Apart

LEMMA FilesFits == PageFits(Files)
<1>1. Files.ops = {CreateFile, Chmod, ExtractFile, DeleteFile}
  BY DEF Files, Page
<1>2. Fits(CreateFile) /\ Fits(Chmod) /\ Fits(ExtractFile) /\ Fits(DeleteFile)
  BY DEF Fits, CreateFile, Form, Button, Chmod, ExtractFile, Flagged, Asked, DeleteFile
<1>3. "own" \notin CreateFile.flags /\ "own" \notin Chmod.flags /\ "own" \notin ExtractFile.flags /\ "own"
      \notin DeleteFile.flags
  BY DEF CreateFile, Form, Button, Chmod, ExtractFile, Flagged, Asked, DeleteFile
<1> QED BY <1>1, <1>2, <1>3 DEF PageFits, Apart

LEMMA TableFits == ASSUME NEW p \in DOMAIN Table PROVE PageFits(Table[p])
<1>1. p \in {"sites", "backups", "destinations", "malware", "findings", "schedule", "databases", "users",
            "packages", "wordpress", "manage", "ssl", "firewall", "sources", "waf", "php", "phpsettings",
            "overrides", "system", "webserver", "cloudlinux", "account", "passkeys", "sftp", "access",
            "settings", "passkeyswitch", "cron", "import", "files"}
  BY DEF Table
<1>2. /\ Table["sites"] = Sites
      /\ Table["backups"] = Backups
      /\ Table["destinations"] = Destinations
      /\ Table["malware"] = Malware
      /\ Table["findings"] = MalwareFindings
      /\ Table["schedule"] = MalwareSchedule
      /\ Table["databases"] = Databases
      /\ Table["users"] = Users
      /\ Table["packages"] = Packages
      /\ Table["wordpress"] = WordPress
      /\ Table["manage"] = WordPressManage
      /\ Table["ssl"] = Ssl
      /\ Table["firewall"] = Firewall
      /\ Table["sources"] = Sources
      /\ Table["waf"] = Waf
      /\ Table["php"] = PhpVersions
      /\ Table["phpsettings"] = VersionSettings
      /\ Table["overrides"] = Overrides
      /\ Table["system"] = System
      /\ Table["webserver"] = Webserver
      /\ Table["cloudlinux"] = CloudLinux
      /\ Table["account"] = Account
      /\ Table["passkeys"] = Passkeys
      /\ Table["sftp"] = SFTP
      /\ Table["access"] = Access
      /\ Table["settings"] = Settings
      /\ Table["passkeyswitch"] = PasskeySwitch
      /\ Table["cron"] = Cron
      /\ Table["import"] = Import
      /\ Table["files"] = Files
  BY DEF Table
<1> QED BY <1>1, <1>2, SitesFits, BackupsFits, DestinationsFits, MalwareFits, MalwareFindingsFits,
           MalwareScheduleFits, DatabasesFits, UsersFits, PackagesFits, WordPressFits, WordPressManageFits,
           SslFits, FirewallFits, SourcesFits, WafFits, PhpVersionsFits, VersionSettingsFits, OverridesFits,
           SystemFits, WebserverFits, CloudLinuxFits, AccountFits, PasskeysFits, SFTPFits, AccessFits,
           SettingsFits, PasskeySwitchFits, CronFits, ImportFits, FilesFits

LEMMA OpsFit ==
  ASSUME page \in Pages
  PROVE  (\A o \in OpsHere : Fits(o) /\ o # Visit) /\ (\A o, q \in OpsHere : Apart(o, q))
<1>1. page \in DOMAIN Table
  BY PagesAssumption DEF PagesAssumption
<1>2. Visit.name = "visit"
  BY DEF Visit, Button
<1>3. PageFits(Table[page])
  BY <1>1, TableFits
<1>4. \A o \in OpsHere : Fits(o) /\ o.name # "visit"
  BY <1>3 DEF PageFits, OpsHere, Fits
<1>5. \A o, q \in OpsHere : Apart(o, q)
  BY <1>3 DEF PageFits, OpsHere
<1> QED BY <1>2, <1>4, <1>5

LEMMA VisitFacts ==
  /\ Visit.name = "visit" /\ Visit.flags = {} /\ Visit.gate = "none" /\ Visit.frees = "answer"
  /\ Visit.form = "none" /\ Visit.tail = "no"
BY DEF Visit, Button

LEMMA CardFacts ==
  ASSUME NEW T, IsFiniteSet(T), NEW u
  PROVE  /\ Cardinality(T) \in Nat
         /\ IsFiniteSet(T \cup {u}) /\ Cardinality(T \cup {u}) \in Nat /\ Cardinality(T \cup {u}) <= Cardinality(T) + 1
         /\ \A t \in T : /\ IsFiniteSet(T \ {t}) /\ Cardinality(T \ {t}) \in Nat /\ Cardinality(T \ {t}) <= Cardinality(T)
                         /\ IsFiniteSet((T \ {t}) \cup {u}) /\ Cardinality((T \ {t}) \cup {u}) <= Cardinality(T)
<1>1. Cardinality(T) \in Nat
  BY FS_CardinalityType
<1>2. ASSUME NEW R, IsFiniteSet(R), Cardinality(R) \in Nat
      PROVE  IsFiniteSet(R \cup {u}) /\ Cardinality(R \cup {u}) \in Nat /\ Cardinality(R \cup {u}) <= Cardinality(R) + 1
  <2>1. IsFiniteSet(R \cup {u}) /\ (Cardinality(R \cup {u}) = Cardinality(R) \/ Cardinality(R \cup {u}) = Cardinality(R) + 1)
    BY <1>2, FS_AddElement
  <2> QED BY <1>2, <2>1
<1>3. ASSUME NEW t \in T
      PROVE  IsFiniteSet(T \ {t}) /\ Cardinality(T \ {t}) = Cardinality(T) - 1 /\ Cardinality(T \ {t}) \in Nat
  <2>1. IsFiniteSet(T \ {t}) /\ Cardinality(T \ {t}) = Cardinality(T) - 1
    BY FS_RemoveElement
  <2>2. Cardinality(T \ {t}) \in Nat
    BY <2>1, FS_CardinalityType
  <2> QED BY <2>1, <2>2
<1>4. ASSUME NEW t \in T
      PROVE  IsFiniteSet((T \ {t}) \cup {u}) /\ Cardinality((T \ {t}) \cup {u}) <= Cardinality(T)
  <2>1. IsFiniteSet((T \ {t}) \cup {u}) /\ Cardinality((T \ {t}) \cup {u}) <= Cardinality(T \ {t}) + 1
    BY <1>2, <1>3
  <2>2. Cardinality((T \ {t}) \cup {u}) \in Nat
    BY <2>1, FS_CardinalityType
  <2> QED BY <1>1, <1>3, <2>1, <2>2
<1>5. ASSUME NEW t \in T PROVE Cardinality(T \ {t}) <= Cardinality(T)
  BY <1>1, <1>3
<1> QED BY <1>1, <1>2, <1>3, <1>4, <1>5

(* What every state has.                                                   *)
LEMMA StateFacts ==
  ASSUME TypeOK, FlagInv
  PROVE  /\ page \in Pages /\ (\A o \in OpsHere : Fits(o) /\ o # Visit) /\ (\A o, q \in OpsHere : Apart(o, q))
         /\ ops \in Nat /\ MaxTasks \in Nat
         /\ \A t \in tasks : t \in Task /\ TaskInv(t) /\ t.row \in Rows /\ t.n \in Nat /\ t.n <= ops
<1>1. page \in Pages /\ (\A o \in OpsHere : Fits(o) /\ o # Visit) /\ (\A o, q \in OpsHere : Apart(o, q))
  BY OpsFit DEF TypeOK
<1>2. ops \in Nat /\ MaxTasks \in Nat
  BY PagesAssumption DEF TypeOK, PagesAssumption
<1>3. ASSUME NEW t \in tasks PROVE t \in Task /\ TaskInv(t) /\ t.row \in Rows /\ t.n \in Nat /\ t.n <= ops
  <2>1. t \in Task /\ TaskInv(t)
    BY DEF TypeOK, FlagInv
  <2>2. t.row \in Rows /\ t.n \in 0..MaxOps
    BY <2>1 DEF Task
  <2>3. t.n \in Nat
    BY <2>2, PagesAssumption DEF PagesAssumption
  <2> QED BY <2>1, <2>2, <2>3 DEF TaskInv
<1> QED BY <1>1, <1>2, <1>3

----------------------------------------------------------------------------
(* The flags.                                                              *)

(* A flag that goes disables nothing more.                                 *)
LEMMA DisabledLess ==
  ASSUME NEW o, Fits(o), NEW r \in Rows, ~Disabled(o, r), busy' = busy \/ busy' = "free", own' \subseteq own
  PROVE  ~Disabled(o, r)'
<1>1. r # "free"
  BY PagesAssumption DEF PagesAssumption
<1>2. o.gate \in {"none", "page", "row", "own"}
  BY DEF Fits
<1> QED BY <1>1, <1>2 DEF Disabled

(* A handler goes on, or is over, and lowers what it holds.                *)
LEMMA FlagsGoOn ==
  ASSUME TypeOK, FlagInv, NEW t \in tasks, NEW U, tasks' = (tasks \ {t}) \cup U,
         \A u, v \in U : u = v,
         \A u \in U : /\ u.n = t.n
                      /\ \/ u.op = t.op /\ u.row = t.row /\ (t.op = Visit => u.stage \in {"list", "listed"} /\ ~u.done)
                         \/ u.op = Visit /\ u.stage = "list" /\ ~u.done
                      /\ Questioned(u) => Questioned(t)
                      /\ Holds(u) => Holds(t) /\ busy' = busy
                      /\ HoldsOwn(u) => HoldsOwn(t) /\ own' = own,
         busy' = busy \/ (busy' = "free" /\ Holds(t)),
         own' = own \/ (own' = own \ {t.op.name} /\ ("own" \in t.op.flags => HoldsOwn(t))),
         crossed => crossed', UNCHANGED <<page, ops>>
  PROVE  FlagInv'
<1>1. OpsHere' = OpsHere
  BY DEF OpsHere
<1>2. ASSUME NEW v \in tasks, v # t PROVE TaskInv(v)'
  <2>1. TaskInv(v) /\ PairInv(v, t) /\ v.row \in Rows
    BY StateFacts DEF FlagInv
  <2>2. Questioned(v) => ~Disabled(v.op, v.row)'
    <3> SUFFICES ASSUME Questioned(v) PROVE ~Disabled(v.op, v.row)'
      OBVIOUS
    <3>1. v.op \in OpsHere /\ ~Disabled(v.op, v.row)
      BY <2>1 DEF TaskInv, Questioned
    <3>2. Fits(v.op)
      BY <3>1, StateFacts
    <3> QED BY <2>1, <3>1, <3>2, DisabledLess
  <2>3. HoldsOwn(v) => v.op.name \in own'
    <3> SUFFICES ASSUME HoldsOwn(v), v.op.name = t.op.name, own' # own PROVE FALSE
      BY <2>1 DEF TaskInv
    <3>1. v.op \in OpsHere /\ "own" \in v.op.flags
      BY <2>1, VisitFacts DEF TaskInv, HoldsOwn
    <3>2. t.op \in OpsHere
      BY <3>1, StateFacts, VisitFacts DEF TaskInv, Fits
    <3>3. v.op = t.op
      BY <3>1, <3>2, StateFacts DEF Apart
    <3> QED BY <1>2, <2>1, <3>1, <3>3 DEF PairInv
  <2>4. Holds(v) /\ v.op.gate \in v.op.flags /\ v.op.gate # "own" /\ ~crossed' => busy' = Mark(v)
    BY <1>2, <2>1 DEF TaskInv, PairInv
  <2> QED BY <1>1, <2>1, <2>2, <2>3, <2>4 DEF TaskInv
<1>3. ASSUME NEW u \in U PROVE TaskInv(u)'
  <2>1. TaskInv(t) /\ t.row \in Rows
    BY StateFacts
  <2>2. CASE u.op = Visit
    BY <1>1, <1>3, <2>1, <2>2, VisitFacts DEF TaskInv, Questioned, Holds, HoldsOwn
  <2>3. CASE u.op # Visit
    <3>1. u.op = t.op /\ u.row = t.row /\ u.n = t.n
      BY <1>3, <2>3
    <3>2. Questioned(u) => ~Disabled(u.op, u.row)'
      <4> SUFFICES ASSUME Questioned(u) PROVE ~Disabled(u.op, u.row)'
        OBVIOUS
      <4>1. t.op \in OpsHere /\ ~Disabled(t.op, t.row)
        BY <1>3, <2>1, <2>3, <3>1 DEF TaskInv
      <4>2. Fits(t.op)
        BY <4>1, StateFacts
      <4>3. ~Disabled(t.op, t.row)'
        BY <2>1, <4>1, <4>2, DisabledLess
      <4> QED BY <3>1, <4>3 DEF Disabled
    <3>3. HoldsOwn(u) => u.op.name \in own'
      BY <1>3, <2>1, <3>1 DEF TaskInv
    <3>4. Holds(u) /\ u.op.gate \in u.op.flags /\ u.op.gate # "own" /\ ~crossed' => busy' = Mark(u)
      BY <1>3, <2>1, <3>1 DEF TaskInv, Mark
    <3> QED BY <1>1, <2>1, <2>3, <3>1, <3>2, <3>3, <3>4 DEF TaskInv
  <2> QED BY <2>2, <2>3
<1>4. ASSUME NEW v \in tasks', NEW w \in tasks' PROVE PairInv(v, w)'
  <2>1. CASE v \in tasks /\ w \in tasks
    BY <2>1 DEF FlagInv, PairInv
  <2>2. CASE v \in U /\ w \in U
    BY <2>2 DEF PairInv
  <2>3. CASE v \in U /\ w \in tasks \ {t}
    <3>1. PairInv(t, w)
      BY <2>3 DEF FlagInv
    <3>2. v.op = Visit => ~Questioned(v) /\ ~Holds(v) /\ ~HoldsOwn(v)
      BY <2>3, StateFacts, VisitFacts DEF Questioned, Holds, HoldsOwn, TaskInv
    <3> QED BY <2>3, <3>1, <3>2 DEF PairInv
  <2>4. CASE v \in tasks \ {t} /\ w \in U
    <3>1. PairInv(v, t)
      BY <2>4 DEF FlagInv
    <3>2. w.op = Visit => ~Questioned(w) /\ ~Holds(w) /\ ~HoldsOwn(w)
      BY <2>4, StateFacts, VisitFacts DEF Questioned, Holds, HoldsOwn, TaskInv
    <3> QED BY <2>4, <3>1, <3>2 DEF PairInv
  <2> QED BY <2>1, <2>2, <2>3, <2>4
<1> QED BY <1>2, <1>3, <1>4 DEF FlagInv
(* A handler begins: its button was not disabled and nothing was asked.    *)
LEMMA FlagsStart ==
  ASSUME TypeOK, FlagInv, NEW t \in Task, t.op \in OpsHere, ~Disabled(t.op, t.row), Starts(t),
         \A u \in tasks : (u.n = t.n \/ Questioned(u)) => u = t,
         t.n <= ops', ops' = ops \/ ops' = ops + 1, page' = page
  PROVE  FlagInv'
<1>1. OpsHere' = OpsHere /\ (crossed => crossed') /\ own \subseteq own'
  BY DEF OpsHere, Starts
<1>2. PICK s : s = [t EXCEPT !.stage = "sent"]
  OBVIOUS
<1>3. /\ s.n = t.n /\ s.op = t.op /\ s.row = t.row /\ s.stage = "sent"
      /\ tasks' = {u \in tasks : u.n # t.n} \cup {s}
  BY <1>2 DEF Task, Starts
<1>4. Fits(t.op) /\ t.op # Visit /\ t.row \in Rows
  BY StateFacts DEF Task
<1>5. ~Questioned(s) /\ (HoldsOwn(s) => "own" \in t.op.flags) /\ (Holds(s) => t.op.flags \cap {"page", "row"} # {})
  BY <1>3 DEF Questioned, HoldsOwn, Holds
<1>6. t.op.flags \cap {"page", "row"} # {} => busy' = Mark(t)
  BY DEF Starts, Mark
<1>7. ASSUME NEW v \in tasks, v.n # t.n PROVE TaskInv(v)'
  <2>1. TaskInv(v) /\ ~Questioned(v) /\ v.n \in Nat /\ ops \in Nat
    BY <1>7, StateFacts
  <2>2. Holds(v) /\ v.op.gate \in v.op.flags /\ v.op.gate # "own" /\ ~crossed' => busy' = Mark(v)
    <3>1. CASE t.op.flags \cap {"page", "row"} # {}
      BY <1>6, <3>1 DEF Starts, Mark
    <3>2. CASE t.op.flags \cap {"page", "row"} = {}
      BY <1>1, <2>1, <3>2 DEF Starts, TaskInv
    <3> QED BY <3>1, <3>2
  <2>3. v.n <= ops'
    BY <2>1 DEF TaskInv
  <2> QED BY <1>1, <2>1, <2>2, <2>3 DEF TaskInv
<1>8. TaskInv(s)'
  <2>1. HoldsOwn(s) => s.op.name \in own'
    BY <1>3, <1>5 DEF Starts
  <2>2. Holds(s) => busy' = Mark(s)
    BY <1>3, <1>5, <1>6 DEF Mark
  <2> QED BY <1>1, <1>3, <1>5, <2>1, <2>2 DEF TaskInv
<1>9. ASSUME NEW v \in tasks, v.n # t.n PROVE PairInv(v, s)' /\ PairInv(s, v)'
  <2>1. TaskInv(v) /\ ~Questioned(v)
    BY <1>9, StateFacts
  <2>2. ~(HoldsOwn(v) /\ HoldsOwn(s) /\ v.op = s.op)
    BY <1>3, <1>4, <1>5, <2>1 DEF TaskInv, Fits, Disabled
  <2>3. Holds(v) /\ Holds(s) /\ ~crossed' => v.op = s.op /\ v.row = s.row
    BY <1>3, <1>5 DEF Starts
  <2>4. ~(Holds(v) /\ Holds(s) /\ ~crossed' /\ s.op.gate \in s.op.flags /\ s.op.gate # "own")
    <3> SUFFICES ASSUME Holds(v), Holds(s), ~crossed', s.op.gate \in s.op.flags, s.op.gate # "own" PROVE FALSE
      OBVIOUS
    <3>1. v.op = t.op /\ v.row = t.row /\ busy = Mark(v)
      BY <1>1, <1>3, <2>1, <2>3 DEF TaskInv
    <3>2. t.op.gate \in {"page", "row"} /\ (t.op.gate = "row" => "page" \notin t.op.flags)
      BY <1>3, <1>4 DEF Fits
    <3> QED BY <1>3, <3>1, <3>2 DEF Disabled, Mark
  <2> QED BY <1>3, <1>5, <1>9, <2>1, <2>2, <2>3, <2>4 DEF PairInv
<1>10. ASSUME NEW v \in tasks', NEW w \in tasks' PROVE PairInv(v, w)'
  <2>1. CASE v \in tasks /\ w \in tasks
    BY <1>1, <2>1 DEF FlagInv, PairInv
  <2>2. CASE v = s /\ w = s
    BY <1>3, <2>2 DEF PairInv
  <2>3. CASE v = s /\ w \in tasks /\ w.n # t.n
    BY <1>9, <2>3
  <2>4. CASE w = s /\ v \in tasks /\ v.n # t.n
    BY <1>9, <2>4
  <2> QED BY <1>3, <2>1, <2>2, <2>3, <2>4
<1> QED BY <1>3, <1>7, <1>8, <1>10 DEF FlagInv

(* A question is put, or a list is read at the press of a button.          *)
LEMMA FlagsAdd ==
  ASSUME TypeOK, FlagInv, NEW t, tasks' = tasks \cup {t}, t.n = ops + 1, ops' = ops + 1,
         \/ t.op \in OpsHere /\ t.stage = "first" /\ ~Disabled(t.op, t.row)
         \/ t.op = Visit /\ t.stage = "list" /\ ~t.done,
         \A u \in tasks : ~Questioned(u), UNCHANGED <<page, busy, own, crossed>>
  PROVE  FlagInv'
<1>1. OpsHere' = OpsHere /\ ops \in Nat
  BY StateFacts DEF OpsHere
<1>2. ~Holds(t) /\ ~HoldsOwn(t)
  BY VisitFacts DEF Holds, HoldsOwn, Running
<1>3. ASSUME NEW v \in tasks PROVE TaskInv(v)' /\ v.n # t.n
  <2>1. TaskInv(v) /\ ~Questioned(v) /\ v.n \in Nat /\ v.n <= ops
    BY StateFacts
  <2> QED BY <1>1, <2>1 DEF TaskInv
<1>4. TaskInv(t)'
  <2>1. t.n <= ops'
    BY <1>1
  <2>2. Questioned(t) => ~Disabled(t.op, t.row)'
    BY DEF Questioned, Disabled
  <2> QED BY <1>1, <1>2, <2>1, <2>2 DEF TaskInv
<1>5. ASSUME NEW v \in tasks', NEW w \in tasks' PROVE PairInv(v, w)'
  <2>1. CASE v \in tasks /\ w \in tasks
    BY <2>1 DEF FlagInv, PairInv
  <2>2. CASE v = t \/ w = t
    BY <1>2, <1>3, <2>2 DEF PairInv
  <2> QED BY <2>1, <2>2
<1> QED BY <1>3, <1>4, <1>5 DEF FlagInv

(* What is none of the flags' business.                                    *)
LEMMA FlagsStay ==
  ASSUME FlagInv, UNCHANGED <<page, tasks, ops, busy, own, crossed>>
  PROVE  FlagInv'
BY ZenonT(60) DEF FlagInv, TaskInv, PairInv, OpsHere, Disabled
----------------------------------------------------------------------------
(* The parts of the invariant.                                             *)

LEMMA Parts ==
  ASSUME IInv
  PROVE  /\ TypeOK /\ FlagInv /\ IsFiniteSet(tasks)
         /\ server \in Values /\ shown \in Values /\ msg \in {"none", "ok", "warn", "err"}
         /\ busy \in {"free", "page"} \cup Rows /\ own \subseteq {o.name : o \in OpsHere}
         /\ form \in {"blank", "typed"} /\ saved \in BOOLEAN /\ waiting \in [Rows -> 0..3]
         /\ patient \in BOOLEAN /\ failed \in BOOLEAN /\ missed \in BOOLEAN /\ crossed \in BOOLEAN
         /\ ops \in 0..MaxOps /\ MaxOps \in Nat /\ MaxTasks \in Nat /\ Cardinality(tasks) <= MaxTasks
         /\ Cardinality(tasks) \in Nat
         /\ (patient => WaitInv)
         /\ (Plain => \A r \in Rows : waiting[r] = Nothing)
<1>1. IsFiniteSet(tasks)
  BY DEF IInv
<1>2. Cardinality(tasks) \in Nat
  BY <1>1, FS_CardinalityType
<1> QED BY <1>1, <1>2, PagesAssumption DEF IInv, TypeOK, PagesAssumption

LEMMA SameOps ==
  ASSUME page' = page
  PROVE  OpsHere' = OpsHere /\ Task' = Task /\ Plain' = Plain
BY DEF OpsHere, Task, Plain

LEMMA TasksGoOn ==
  ASSUME IInv, NEW t \in tasks, page' = page
  PROVE  /\ \A u \in Task : Becomes(t, u)
              => /\ tasks' = (tasks \ {t}) \cup {u} /\ tasks' \subseteq Task'
                 /\ Cardinality(tasks') <= MaxTasks /\ IsFiniteSet(tasks')
         /\ tasks' = tasks \ {t}
              => tasks' \subseteq Task' /\ Cardinality(tasks') <= MaxTasks /\ IsFiniteSet(tasks')
<1>1. tasks \subseteq Task /\ Task' = Task
  BY SameOps DEF IInv, TypeOK
<1>2. Cardinality(tasks) \in Nat /\ Cardinality(tasks) <= MaxTasks /\ MaxTasks \in Nat
  BY Parts
<1>3. /\ IsFiniteSet(tasks \ {t}) /\ Cardinality(tasks \ {t}) \in Nat
      /\ Cardinality(tasks \ {t}) <= Cardinality(tasks)
  BY CardFacts DEF IInv
<1>4. ASSUME NEW u \in Task, Becomes(t, u)
      PROVE  /\ tasks' = (tasks \ {t}) \cup {u} /\ tasks' \subseteq Task'
             /\ Cardinality(tasks') <= MaxTasks /\ IsFiniteSet(tasks')
  <2>1. tasks' = (tasks \ {t}) \cup {u}
    BY <1>4 DEF Becomes
  <2>2. /\ IsFiniteSet((tasks \ {t}) \cup {u}) /\ Cardinality((tasks \ {t}) \cup {u}) <= Cardinality(tasks)
    BY CardFacts DEF IInv
  <2>3. Cardinality((tasks \ {t}) \cup {u}) \in Nat
    BY <2>2, FS_CardinalityType
  <2> QED BY <1>1, <1>2, <2>1, <2>2, <2>3
<1>5. ASSUME tasks' = tasks \ {t}
      PROVE  tasks' \subseteq Task' /\ Cardinality(tasks') <= MaxTasks /\ IsFiniteSet(tasks')
  BY <1>1, <1>2, <1>3, <1>5
<1> QED BY <1>4, <1>5
LEMMA ReadingFacts ==
  ASSUME NEW n \in 0..MaxOps
  PROVE  /\ Reading(n) \in Task /\ Reading(n).n = n /\ Reading(n).op = Visit /\ Reading(n).stage = "list"
         /\ ~Reading(n).done /\ ~Running(Reading(n)) /\ Waited(Reading(n))
<1>1. AnyRow \in Rows /\ Empty \in Values
  BY PagesAssumption DEF PagesAssumption, AnyRow, Empty, Values
<1>2. /\ Reading(n) \in Task /\ Reading(n).n = n /\ Reading(n).op = Visit /\ Reading(n).stage = "list"
      /\ ~Reading(n).done
  BY <1>1 DEF Reading, Task
<1> QED BY <1>2 DEF Running, Waited

----------------------------------------------------------------------------
(* The steps.                                                              *)

(* A handler begins.                                                       *)
LEMMA StartKeeps ==
  ASSUME IInv, NEW t \in Task, t.op \in OpsHere, ~Disabled(t.op, t.row), Starts(t),
         \A u \in tasks : (u.n = t.n \/ Questioned(u)) => u = t,
         t \in tasks \/ Cardinality(tasks) < MaxTasks,
         t.n <= ops', ops' \in 0..MaxOps, ops' = ops \/ ops' = ops + 1,
         UNCHANGED <<page, server, shown, saved, waiting, patient, missed>>,
         patient => tasks \subseteq {t} /\ (Plain /\ ~missed => shown = server) /\ (t.done /\ TakesText(t.op) => saved)
  PROVE  IInv'
<1>1. TypeOK /\ FlagInv /\ OpsHere' = OpsHere /\ Task' = Task /\ Plain' = Plain
  BY SameOps DEF IInv
<1>2. FlagInv'
  BY <1>1, FlagsStart
<1>3. PICK s : s = [t EXCEPT !.stage = "sent"]
  OBVIOUS
<1>4. s \in Task /\ s.stage = "sent" /\ s.op = t.op /\ s.row = t.row /\ s.done = t.done
  BY <1>3 DEF Task
<1>5. tasks' = (tasks \ {t}) \cup {s}
  BY <1>3 DEF Starts
<1>6. tasks' \subseteq Task' /\ Cardinality(tasks') <= MaxTasks /\ IsFiniteSet(tasks')
  <2>1. CASE t \in tasks
    <3>1. Becomes(t, s)
      BY <1>5 DEF Becomes
    <3> QED BY <1>4, <2>1, <3>1, TasksGoOn
  <2>2. CASE t \notin tasks
    <3>1. tasks' = tasks \cup {s}
      BY <1>5, <2>2
    <3>2. IsFiniteSet(tasks) /\ Cardinality(tasks) \in Nat /\ Cardinality(tasks) < MaxTasks /\ MaxTasks \in Nat
      BY <2>2, Parts
    <3>3. /\ IsFiniteSet(tasks \cup {s}) /\ Cardinality(tasks \cup {s}) \in Nat
          /\ Cardinality(tasks \cup {s}) <= Cardinality(tasks) + 1
      BY <3>2, CardFacts
    <3>4. Cardinality(tasks') <= MaxTasks
      BY <3>1, <3>2, <3>3
    <3> QED BY <1>1, <1>4, <3>1, <3>3, <3>4 DEF TypeOK
  <2> QED BY <2>1, <2>2
<1>7. TypeOK'
  <2>1. Fits(t.op) /\ t.row \in Rows
    BY <1>1, StateFacts DEF Task
  <2>2. msg' \in {"none", "ok", "warn", "err"}
    BY <2>1, Parts DEF Starts, Fits
  <2>3. busy' \in {"free", "page"} \cup Rows
    BY <2>1, Parts DEF Starts
  <2>4. own' \subseteq {o.name : o \in OpsHere'}
    BY <1>1, Parts DEF Starts
  <2>5. form' \in {"blank", "typed"} /\ failed' \in BOOLEAN /\ crossed' \in BOOLEAN
    BY Parts DEF Starts
  <2> QED BY <1>6, <2>2, <2>3, <2>4, <2>5, Parts DEF TypeOK
<1>8. Plain' => \A r \in Rows : waiting'[r] = Nothing
  BY <1>1, Parts
<1>9. ASSUME patient PROVE WaitInv'
  <2>1. tasks' = {s} /\ failed' = FALSE
    BY <1>5, <1>9 DEF Starts
  <2>2. Waited(s)'
    BY <1>1, <1>4, <1>9, <2>1 DEF Waited
  <2> QED BY <2>1, <2>2 DEF WaitInv
<1> QED BY <1>2, <1>6, <1>7, <1>8, <1>9 DEF IInv

LEMMA ClickKeeps ==
  ASSUME IInv, NEW o \in OpsHere, NEW r \in Rows, Click(o, r)
  PROVE  IInv'
<1>1. TypeOK /\ FlagInv /\ OpsHere' = OpsHere /\ Task' = Task /\ Plain' = Plain
  BY SameOps DEF IInv, Click
<1>2. PICK t : t = [n |-> ops + 1, op |-> o, row |-> r, rows |-> Empty, done |-> FALSE, stage |-> "first"]
  OBVIOUS
<1>3. /\ MayAct /\ Cardinality(tasks) < MaxTasks /\ ops < MaxOps /\ ~Disabled(o, r)
      /\ ops' = ops + 1
      /\ o.asks = 0 => Starts(t)
      /\ o.asks # 0 => tasks' = tasks \cup {t} /\ UNCHANGED <<msg, busy, own, crossed, form, failed>>
      /\ UNCHANGED <<page, server, shown, saved, waiting, patient, missed>>
  BY <1>2, Zenon DEF Click, Offered
<1>4. ops + 1 \in 0..MaxOps /\ ops \in Nat
  BY <1>3, Parts
<1>5. t \in Task /\ t.n = ops + 1 /\ t.op = o /\ t.row = r /\ t.stage = "first" /\ ~t.done
  <2>1. Empty \in Values
    BY DEF Empty, Values
  <2> QED BY <1>2, <1>4, <2>1 DEF Task
<1>6. \A u \in tasks : u.n # t.n /\ ~Questioned(u)
  <2>1. \A u \in tasks : u.n \in Nat /\ u.n <= ops
    BY <1>1, StateFacts
  <2> QED BY <1>3, <1>4, <1>5, <2>1 DEF MayAct
<1>7. patient => tasks = {} /\ (Plain /\ ~missed => shown = server)
  BY <1>3, Parts DEF MayAct, WaitInv
<1>8. CASE o.asks = 0
  <2>1. t.n <= ops' /\ ops' \in 0..MaxOps
    BY <1>3, <1>4, <1>5
  <2> QED BY <1>3, <1>5, <1>6, <1>7, <1>8, <2>1, StartKeeps
<1>9. CASE o.asks # 0
  <2>1. FlagInv'
    BY <1>1, <1>3, <1>5, <1>6, <1>9, FlagsAdd
  <2>2. IsFiniteSet(tasks) /\ Cardinality(tasks) \in Nat /\ Cardinality(tasks) < MaxTasks /\ MaxTasks \in Nat
    BY <1>3, Parts
  <2>3. /\ IsFiniteSet(tasks \cup {t}) /\ Cardinality(tasks \cup {t}) \in Nat
        /\ Cardinality(tasks \cup {t}) <= Cardinality(tasks) + 1
    BY <2>2, CardFacts
  <2>4. IsFiniteSet(tasks') /\ Cardinality(tasks') <= MaxTasks
    <3>1. tasks' = tasks \cup {t}
      BY <1>3, <1>9
    <3> QED BY <2>2, <2>3, <3>1
  <2>5. TypeOK'
    BY <1>1, <1>3, <1>4, <1>5, <1>9, <2>4 DEF TypeOK
  <2>6. Plain' => \A q \in Rows : waiting'[q] = Nothing
    BY <1>1, <1>3, Parts
  <2>7. ASSUME patient PROVE WaitInv'
    <3>1. tasks' = {t}
      BY <1>3, <1>7, <1>9, <2>7
    <3>2. Waited(t)'
      BY <1>1, <1>3, <1>5, <1>7, <2>7 DEF Waited, Running
    <3>3. failed' /\ ~Table[page]'.clears => msg' = "err"
      BY <1>1, <1>3, <1>9, <2>7, Parts DEF WaitInv
    <3> QED BY <3>1, <3>2, <3>3 DEF WaitInv
  <2> QED BY <1>3, <2>1, <2>4, <2>5, <2>6, <2>7 DEF IInv
<1> QED BY <1>8, <1>9

LEMMA ConfirmKeeps ==
  ASSUME IInv, NEW t \in tasks, Confirm(t)
  PROVE  IInv'
<1>1. TypeOK /\ FlagInv
  BY DEF IInv
<1>2. t \in Task /\ TaskInv(t) /\ Questioned(t) /\ t.n <= ops
  BY <1>1, StateFacts DEF Confirm, Questioned
<1>3. t.op \in OpsHere /\ ~Disabled(t.op, t.row)
  BY <1>2 DEF TaskInv, Questioned
<1>4. \A u \in tasks : (u.n = t.n \/ Questioned(u)) => u = t
  BY <1>1, <1>2 DEF FlagInv, PairInv
<1>5. patient => tasks \subseteq {t} /\ (Plain /\ ~missed => shown = server) /\ (t.done /\ TakesText(t.op) => saved)
  <2> SUFFICES ASSUME patient
               PROVE  tasks \subseteq {t} /\ (Plain /\ ~missed => shown = server) /\ (t.done /\ TakesText(t.op) => saved)
    OBVIOUS
  <2>1. tasks \subseteq {t} /\ Waited(t)
    BY Parts DEF WaitInv
  <2> QED BY <1>2, <2>1 DEF Waited, Questioned
<1>6. Starts(t) /\ UNCHANGED <<page, server, shown, saved, waiting, ops, patient, missed>>
  BY DEF Confirm
<1>7. t.n <= ops' /\ ops' \in 0..MaxOps
  BY <1>2, <1>6, Parts
<1> QED BY <1>2, <1>3, <1>4, <1>5, <1>6, <1>7, StartKeeps

(* The user types, or presses the button that reads the list again, or the *)
(* message fades.                                                          *)
LEMMA TypeKeeps ==
  ASSUME IInv, Type
  PROVE  IInv'
<1>1. /\ UNCHANGED <<page, server, shown, msg, busy, own, waiting, tasks, ops, patient, failed, missed, crossed>>
      /\ form' = "typed" /\ saved' = FALSE /\ (patient => tasks = {})
  BY DEF Type, MayAct
<1>2. TypeOK /\ FlagInv /\ OpsHere' = OpsHere /\ Task' = Task /\ Plain' = Plain
  BY <1>1, SameOps DEF IInv
<1>3. FlagInv'
  BY <1>1, <1>2, FlagsStay
<1>4. TypeOK'
  BY <1>1, <1>2 DEF TypeOK
<1>5. Plain' => \A q \in Rows : waiting'[q] = Nothing
  BY <1>1, <1>2, Parts
<1>6. patient => WaitInv'
  BY <1>1, <1>2, Parts DEF WaitInv
<1> QED BY <1>1, <1>3, <1>4, <1>5, <1>6 DEF IInv

LEMMA FadeKeeps ==
  ASSUME IInv, Fade
  PROVE  IInv'
<1>1. /\ UNCHANGED <<page, server, shown, busy, own, form, saved, waiting, tasks, ops, patient, failed, missed, crossed>>
      /\ msg = "ok" /\ msg' = "none"
  BY DEF Fade
<1>2. TypeOK /\ FlagInv /\ OpsHere' = OpsHere /\ Task' = Task /\ Plain' = Plain
  BY <1>1, SameOps DEF IInv
<1>3. FlagInv'
  BY <1>1, <1>2, FlagsStay
<1>4. TypeOK'
  BY <1>1, <1>2 DEF TypeOK
<1>5. Plain' => \A q \in Rows : waiting'[q] = Nothing
  BY <1>1, <1>2, Parts
<1>6. patient => WaitInv'
  BY <1>1, <1>2, Parts DEF WaitInv, Waited
<1> QED BY <1>1, <1>3, <1>4, <1>5, <1>6 DEF IInv

LEMMA RefreshKeeps ==
  ASSUME IInv, Refresh
  PROVE  IInv'
<1>1. /\ UNCHANGED <<page, server, shown, msg, busy, own, form, saved, waiting, patient, failed, missed, crossed>>
      /\ MayAct /\ Cardinality(tasks) < MaxTasks /\ ops < MaxOps
      /\ ops' = ops + 1 /\ tasks' = tasks \cup {Reading(ops + 1)}
  BY DEF Refresh
<1>2. TypeOK /\ FlagInv /\ OpsHere' = OpsHere /\ Task' = Task /\ Plain' = Plain
  BY <1>1, SameOps DEF IInv
<1>3. ops \in Nat /\ ops + 1 \in 0..MaxOps
  BY <1>1, Parts
<1>4. PICK t : t = Reading(ops + 1)
  OBVIOUS
<1>5. /\ t \in Task /\ t.n = ops + 1 /\ t.op = Visit /\ t.stage = "list" /\ ~t.done /\ ~Running(t)
      /\ tasks' = tasks \cup {t}
  BY <1>1, <1>3, <1>4, ReadingFacts
<1>6. FlagInv'
  <2>1. \A u \in tasks : ~Questioned(u)
    BY <1>1 DEF MayAct
  <2> QED BY <1>1, <1>2, <1>5, <2>1, FlagsAdd
<1>7. IsFiniteSet(tasks) /\ Cardinality(tasks) \in Nat /\ Cardinality(tasks) < MaxTasks /\ MaxTasks \in Nat
  BY <1>1, Parts
<1>8. /\ IsFiniteSet(tasks \cup {t}) /\ Cardinality(tasks \cup {t}) \in Nat
      /\ Cardinality(tasks \cup {t}) <= Cardinality(tasks) + 1
  BY <1>7, CardFacts
<1>9. IsFiniteSet(tasks') /\ Cardinality(tasks') <= MaxTasks
  BY <1>5, <1>7, <1>8
<1>10. TypeOK'
  BY <1>1, <1>2, <1>3, <1>5, <1>9 DEF TypeOK
<1>11. Plain' => \A q \in Rows : waiting'[q] = Nothing
  BY <1>1, <1>2, Parts
<1>12. ASSUME patient PROVE WaitInv'
  <2>1. tasks' = {t}
    BY <1>1, <1>5, <1>12 DEF MayAct
  <2>2. Waited(t)'
    BY <1>5 DEF Waited
  <2>3. failed' /\ ~Table[page]'.clears => msg' = "err"
    BY <1>1, <1>2, <1>12, Parts DEF WaitInv
  <2> QED BY <2>1, <2>2, <2>3 DEF WaitInv
<1> QED BY <1>1, <1>6, <1>9, <1>10, <1>11, <1>12 DEF IInv

(* A change that was not confirmed is taken back.                          *)
LEMMA TakeBackKeeps ==
  ASSUME IInv, NEW r \in Rows, TakeBack(r)
  PROVE  IInv'
<1>1. /\ UNCHANGED <<page, shown, msg, busy, own, form, saved, tasks, ops, patient, failed, crossed>>
      /\ server' = [server EXCEPT ![r] = waiting[r]]
      /\ waiting' = [waiting EXCEPT ![r] = Nothing] /\ missed' = TRUE /\ waiting[r] # Nothing
  BY DEF TakeBack
<1>2. TypeOK /\ FlagInv /\ OpsHere' = OpsHere /\ Task' = Task /\ Plain' = Plain
  BY <1>1, SameOps DEF IInv
<1>3. FlagInv'
  BY <1>1, <1>2, FlagsStay
<1>4. waiting[r] \in 0..2
  BY <1>1, Parts DEF Nothing
<1>5. server' \in Values /\ waiting' \in [Rows -> 0..3]
  BY <1>1, <1>4, Parts DEF Values, Nothing
<1>6. TypeOK'
  BY <1>1, <1>2, <1>5 DEF TypeOK, Values
<1>7. ~Plain
  BY <1>1, Parts
<1>8. patient => WaitInv'
  BY <1>1, <1>2, <1>7, Parts DEF WaitInv, Waited
<1> QED BY <1>1, <1>2, <1>3, <1>6, <1>7, <1>8 DEF IInv
(* A handler goes on, and raises and lowers nothing.                       *)
LEMMA MoveKeeps ==
  ASSUME IInv, NEW t \in tasks, NEW u \in Task, Becomes(t, u), u.n = t.n,
         \/ u.op = t.op /\ u.row = t.row /\ (t.op = Visit => u.stage \in {"list", "listed"} /\ ~u.done)
         \/ u.op = Visit /\ u.stage = "list" /\ ~u.done,
         Questioned(u) => Questioned(t), Holds(u) => Holds(t), HoldsOwn(u) => HoldsOwn(t),
         UNCHANGED <<page, shown, busy, own, form, ops, patient, failed, crossed>>,
         server' \in Values, waiting' \in [Rows -> 0..3], saved' \in BOOLEAN, missed' \in BOOLEAN,
         msg' \in {"none", "ok", "warn", "err"},
         Plain => waiting' = waiting,
         patient => Waited(u)' /\ (failed => msg' = msg)
  PROVE  IInv'
<1>1. TypeOK /\ FlagInv /\ OpsHere' = OpsHere /\ Task' = Task /\ Plain' = Plain
  BY SameOps DEF IInv
<1>2. /\ tasks' = (tasks \ {t}) \cup {u} /\ tasks' \subseteq Task'
      /\ Cardinality(tasks') <= MaxTasks /\ IsFiniteSet(tasks')
  BY TasksGoOn
<1>3. FlagInv'
  <2>1. PICK U : U = {u}
    OBVIOUS
  <2>2. tasks' = (tasks \ {t}) \cup U
    BY <1>2, <2>1
  <2> QED BY <1>1, <2>1, <2>2, FlagsGoOn
<1>4. TypeOK'
  BY <1>1, <1>2 DEF TypeOK, Values
<1>5. Plain' => \A q \in Rows : waiting'[q] = Nothing
  BY <1>1, Parts
<1>6. ASSUME patient PROVE WaitInv'
  <2>1. tasks' = {u}
    BY <1>2, <1>6, Parts DEF WaitInv
  <2>2. Waited(u)'
    BY <1>6
  <2>3. failed' /\ ~Table[page]'.clears => msg' = "err"
    BY <1>1, <1>6, Parts DEF WaitInv
  <2> QED BY <2>1, <2>2, <2>3 DEF WaitInv
<1> QED BY <1>2, <1>3, <1>4, <1>5, <1>6 DEF IInv

LEMMA AskAgainKeeps ==
  ASSUME IInv, NEW t \in tasks, AskAgain(t)
  PROVE  IInv'
<1>1. /\ UNCHANGED <<page, server, shown, msg, busy, own, form, saved, waiting, ops, patient, failed, missed, crossed>>
      /\ t.stage = "first" /\ Becomes(t, [t EXCEPT !.stage = "second"])
  BY DEF AskAgain, To
<1>2. t \in Task /\ TaskInv(t)
  BY StateFacts DEF IInv
<1>3. PICK u : u = [t EXCEPT !.stage = "second"]
  OBVIOUS
<1>4. /\ u \in Task /\ u.stage = "second" /\ u.n = t.n /\ u.op = t.op /\ u.row = t.row
      /\ u.rows = t.rows /\ u.done = t.done
  BY <1>2, <1>3 DEF Task
<1>5. t.op # Visit /\ Questioned(t) /\ ~Holds(u) /\ ~HoldsOwn(u) /\ ~Running(u)
  BY <1>1, <1>2, <1>4, StateFacts DEF IInv, TaskInv, Questioned, Holds, HoldsOwn, Running
<1>6. patient => Waited(u)'
  <2> SUFFICES ASSUME patient PROVE Waited(u)'
    OBVIOUS
  <2>1. Waited(t)
    BY Parts DEF WaitInv
  <2>2. Plain' = Plain
    BY <1>1, SameOps
  <2> QED BY <1>1, <1>4, <1>5, <2>1, <2>2 DEF Waited
<1> QED BY <1>1, <1>3, <1>4, <1>5, <1>6, MoveKeeps, Parts

LEMMA ServeListKeeps ==
  ASSUME IInv, NEW t \in tasks, ServeList(t)
  PROVE  IInv'
<1>1. /\ UNCHANGED <<page, server, shown, msg, busy, own, form, saved, waiting, ops, patient, failed, missed, crossed>>
      /\ t.stage = "list" /\ Becomes(t, [t EXCEPT !.stage = "listed", !.rows = server])
  BY DEF ServeList
<1>2. t \in Task /\ TaskInv(t) /\ server \in Values
  BY StateFacts DEF IInv, TypeOK
<1>3. PICK u : u = [t EXCEPT !.stage = "listed", !.rows = server]
  OBVIOUS
<1>4. /\ u \in Task /\ u.stage = "listed" /\ u.n = t.n /\ u.op = t.op /\ u.row = t.row
      /\ u.rows = server /\ u.done = t.done
  BY <1>2, <1>3 DEF Task
<1>5. /\ ~Questioned(u) /\ (Holds(u) => Holds(t)) /\ (HoldsOwn(u) => HoldsOwn(t)) /\ ~Running(u)
      /\ t.op = Visit => ~u.done
  BY <1>1, <1>2, <1>4, StateFacts DEF IInv, TaskInv, Questioned, Holds, HoldsOwn, Running
<1>6. patient => Waited(u)'
  <2> SUFFICES ASSUME patient PROVE Waited(u)'
    OBVIOUS
  <2>1. Waited(t)
    BY Parts DEF WaitInv
  <2> QED BY <1>1, <1>4, <1>5, <2>1 DEF Waited
<1> QED BY <1>1, <1>3, <1>4, <1>5, <1>6, MoveKeeps, Parts, ZenonT(60)

(* The server's answer to a call.                                          *)
LEMMA ServeKeeps ==
  ASSUME IInv, NEW t \in tasks, Serve(t)
  PROVE  IInv'
<1>1. /\ UNCHANGED <<page, shown, msg, busy, own, form, ops, patient, failed, crossed>>
      /\ t.stage = "sent"
  BY DEF Serve
<1>2. t \in Task /\ TaskInv(t) /\ t.row \in Rows
  BY StateFacts DEF IInv
<1>3. t.op # Visit /\ t.op \in OpsHere /\ Fits(t.op) /\ Running(t) /\ Plain' = Plain
  <2>1. t.op \in OpsHere /\ t.op # Visit
    BY <1>1, <1>2, StateFacts DEF TaskInv, IInv
  <2> QED BY <1>1, <2>1, StateFacts, SameOps DEF IInv, Running
<1>4. patient => Waited(t)
  BY Parts DEF WaitInv
<1>5. Plain => t.op.tail # "must"
  BY <1>3 DEF Plain
<1>6. CASE UNCHANGED <<server, saved, waiting, missed>> /\ To(t, "refused")
  <2>1. PICK u : u = [t EXCEPT !.stage = "refused"]
    OBVIOUS
  <2>2. /\ u \in Task /\ u.stage = "refused" /\ u.n = t.n /\ u.op = t.op /\ u.row = t.row
        /\ u.rows = t.rows /\ u.done = t.done
    BY <1>2, <2>1 DEF Task
  <2>3. ~Questioned(u) /\ (Holds(u) => Holds(t)) /\ (HoldsOwn(u) => HoldsOwn(t))
    BY <1>3, <2>2 DEF Questioned, Holds, HoldsOwn
  <2>4. patient => Waited(u)'
    BY <1>1, <1>3, <1>4, <1>6, <2>2 DEF Waited
  <2> QED BY <1>1, <1>3, <1>6, <2>1, <2>2, <2>3, <2>4, MoveKeeps, Parts DEF To
<1>7. CASE /\ Possible(t.op, t.row)
           /\ server' = [server EXCEPT ![t.row] = Changed(t.op, @)]
           /\ saved' = (saved \/ TakesText(t.op))
           /\ waiting' = IF t.op.tail = "must" /\ waiting[t.row] = Nothing
                         THEN [waiting EXCEPT ![t.row] = server[t.row]] ELSE waiting
           /\ \/ Becomes(t, [t EXCEPT !.stage = "done", !.rows = server']) /\ missed' = missed
              \/ To(t, "refused") /\ missed' = TRUE
  <2>1. server[t.row] \in 0..2
    BY <1>2, Parts DEF Values
  <2>2. Changed(t.op, server[t.row]) \in 0..2
    <3>1. t.op.effect \in {"make", "drop", "change", "none"}
      BY <1>3 DEF Fits
    <3>2. t.op.effect = "change" => server[t.row] # 0
      BY <1>7 DEF Possible
    <3> QED BY <2>1, <3>1, <3>2 DEF Changed
  <2>3. server' \in Values /\ waiting' \in [Rows -> 0..3] /\ saved' \in BOOLEAN
    BY <1>2, <1>7, <2>1, <2>2, Parts DEF Values
  <2>4. Plain => waiting' = waiting
    BY <1>5, <1>7
  <2>5. CASE Becomes(t, [t EXCEPT !.stage = "done", !.rows = server']) /\ missed' = missed
    <3>1. PICK u : u = [t EXCEPT !.stage = "done", !.rows = server']
      OBVIOUS
    <3>2. /\ u \in Task /\ u.stage = "done" /\ u.n = t.n /\ u.op = t.op /\ u.row = t.row
          /\ u.rows = server' /\ u.done = t.done
      BY <1>2, <2>3, <3>1 DEF Task
    <3>3. ~Questioned(u) /\ (Holds(u) => Holds(t)) /\ (HoldsOwn(u) => HoldsOwn(t))
      BY <1>3, <3>2 DEF Questioned, Holds, HoldsOwn
    <3>4. t.op.effect = "none" => server' = server
      BY <1>2, <1>7, Parts DEF Changed, Values
    <3>5. patient => Waited(u)'
      BY <1>1, <1>3, <1>4, <1>7, <2>5, <3>2, <3>4 DEF Waited, TakesText
    <3> QED BY <1>1, <1>3, <2>3, <2>4, <2>5, <3>1, <3>2, <3>3, <3>5, MoveKeeps, Parts
  <2>6. CASE To(t, "refused") /\ missed' = TRUE
    <3>1. PICK u : u = [t EXCEPT !.stage = "refused"]
      OBVIOUS
    <3>2. /\ u \in Task /\ u.stage = "refused" /\ u.n = t.n /\ u.op = t.op /\ u.row = t.row
          /\ u.rows = t.rows /\ u.done = t.done
      BY <1>2, <3>1 DEF Task
    <3>3. ~Questioned(u) /\ (Holds(u) => Holds(t)) /\ (HoldsOwn(u) => HoldsOwn(t))
      BY <1>3, <3>2 DEF Questioned, Holds, HoldsOwn
    <3>4. patient => Waited(u)'
      BY <1>1, <1>3, <1>4, <1>7, <2>6, <3>2 DEF Waited
    <3> QED BY <1>1, <1>3, <2>3, <2>4, <2>6, <3>1, <3>2, <3>3, <3>4, MoveKeeps, Parts DEF To
  <2> QED BY <1>7, <2>5, <2>6
<1> QED BY <1>6, <1>7 DEF Serve
(* A handler lowers its flags, and reads the list again or is over.        *)
LEMMA LeaveKeeps ==
  ASSUME IInv, NEW t \in tasks, NEW U \in SUBSET Task, \A u, v \in U : u = v, tasks' = (tasks \ {t}) \cup U,
         \A u \in U : /\ u.n = t.n /\ u.op = t.op /\ u.row = t.row /\ u.stage = "list" /\ t.op # Visit
                      /\ Holds(u) => Holds(t) /\ busy' = busy
                      /\ HoldsOwn(u) => HoldsOwn(t) /\ own' = own
                      /\ patient /\ u.done /\ TakesText(u.op) => saved,
         busy' = busy \/ (busy' = "free" /\ Holds(t)),
         own' = own \/ (own' = own \ {t.op.name} /\ ("own" \in t.op.flags => HoldsOwn(t))),
         crossed => crossed', UNCHANGED <<page, server, saved, ops, patient>>,
         shown' \in Values, msg' \in {"none", "ok", "warn", "err"}, form' \in {"blank", "typed"},
         waiting' \in [Rows -> 0..3], failed' \in BOOLEAN, missed' \in BOOLEAN, crossed' \in BOOLEAN,
         Plain => \A r \in Rows : waiting'[r] = Nothing,
         patient /\ U = {} /\ Plain /\ ~missed' => shown' = server,
         patient /\ failed' /\ ~Table[page].clears => msg' = "err"
  PROVE  IInv'
<1>1. TypeOK /\ FlagInv /\ OpsHere' = OpsHere /\ Task' = Task /\ Plain' = Plain
  BY SameOps DEF IInv
<1>2. \A u \in U : ~Questioned(u) /\ ~Running(u)
  BY DEF Questioned, Running
<1>3. tasks' \subseteq Task' /\ Cardinality(tasks') <= MaxTasks /\ IsFiniteSet(tasks')
  <2>1. CASE U = {}
    <3>1. tasks' = tasks \ {t}
      BY <2>1
    <3> QED BY <3>1, TasksGoOn
  <2>2. ASSUME NEW u \in U PROVE tasks' \subseteq Task' /\ Cardinality(tasks') <= MaxTasks /\ IsFiniteSet(tasks')
    <3>1. Becomes(t, u)
      BY <2>2 DEF Becomes
    <3>2. u \in Task
      BY <2>2
    <3> QED BY <3>1, <3>2, TasksGoOn
  <2> QED BY <2>1, <2>2
<1>4. FlagInv'
  BY <1>1, <1>2, FlagsGoOn
<1>5. TypeOK'
  <2>1. busy' \in {"free", "page"} \cup Rows /\ own' \subseteq {o.name : o \in OpsHere}
    BY Parts
  <2>2. ops' \in 0..MaxOps /\ patient' \in BOOLEAN
    BY Parts
  <2> QED BY <1>1, <1>3, <2>1, <2>2 DEF TypeOK
<1>6. ASSUME patient PROVE WaitInv'
  <2>1. tasks' = U
    BY <1>6, Parts DEF WaitInv
  <2>2. \A u \in U : Waited(u)'
    BY <1>2, <1>6 DEF Waited
  <2>3. failed' /\ ~Table[page]'.clears => msg' = "err"
    BY <1>1, <1>6
  <2> QED BY <1>1, <1>6, <2>1, <2>2, <2>3 DEF WaitInv
<1> QED BY <1>1, <1>3, <1>4, <1>5, <1>6 DEF IInv

LEMMA OverKeeps ==
  ASSUME IInv, NEW t \in tasks, tasks' = tasks \ {t},
         busy' = busy \/ (busy' = "free" /\ Holds(t)),
         own' = own \/ (own' = own \ {t.op.name} /\ ("own" \in t.op.flags => HoldsOwn(t))),
         crossed => crossed', UNCHANGED <<page, server, saved, ops, patient>>,
         shown' \in Values, msg' \in {"none", "ok", "warn", "err"}, form' \in {"blank", "typed"},
         waiting' \in [Rows -> 0..3], failed' \in BOOLEAN, missed' \in BOOLEAN, crossed' \in BOOLEAN,
         Plain => \A r \in Rows : waiting'[r] = Nothing,
         patient /\ Plain /\ ~missed' => shown' = server,
         patient /\ failed' /\ ~Table[page].clears => msg' = "err"
  PROVE  IInv'
<1>1. PICK U : U = {}
  OBVIOUS
<1>2. U \in SUBSET Task /\ (\A u, v \in U : u = v) /\ tasks' = (tasks \ {t}) \cup U
  BY <1>1
<1>3. \A u \in U : /\ u.n = t.n /\ u.op = t.op /\ u.row = t.row /\ u.stage = "list" /\ t.op # Visit
                   /\ Holds(u) => Holds(t) /\ busy' = busy
                   /\ HoldsOwn(u) => HoldsOwn(t) /\ own' = own
                   /\ patient /\ u.done /\ TakesText(u.op) => saved
  BY <1>1
<1> QED BY <1>2, <1>3, LeaveKeeps

(* An answer is taken up.                                                  *)
LEMMA EndsKeeps ==
  ASSUME IInv, NEW t \in tasks, Running(t), NEW done \in BOOLEAN, NEW outcome \in {"none", "ok", "warn", "err"},
         Ends(t, done, outcome),
         shown' \in Values, waiting' \in [Rows -> 0..3], failed' \in BOOLEAN, missed' \in BOOLEAN,
         Plain => \A r \in Rows : waiting'[r] = Nothing,
         patient /\ done /\ TakesText(t.op) => saved,
         patient /\ ~Rereads(t.op, done) /\ Plain /\ ~missed' => shown' = server,
         patient /\ failed' /\ ~Table[page].clears => outcome = "err"
  PROVE  IInv'
<1>1. t \in Task /\ t.op # Visit /\ (t.op.flags \cap {"page", "row"} # {} => Holds(t))
  BY StateFacts DEF IInv, Running, Holds
<1>2. "own" \in t.op.flags => HoldsOwn(t)
  BY DEF HoldsOwn
<1>3. busy' = busy \/ (busy' = "free" /\ Holds(t))
  BY <1>1 DEF Ends, Frees, Lower
<1>4. own' = own \/ (own' = own \ {t.op.name} /\ ("own" \in t.op.flags => HoldsOwn(t)))
  BY <1>2 DEF Ends, Frees
<1>5. (crossed => crossed') /\ crossed' \in BOOLEAN
  BY Parts DEF Ends, Frees, Lower
<1>6. form' \in {"blank", "typed"} /\ msg' \in {"none", "ok", "warn", "err"}
  BY Parts DEF Ends
<1>7. UNCHANGED <<page, server, saved, ops, patient>> /\ msg' = outcome
  BY DEF Ends
<1>8. CASE ~Rereads(t.op, done)
  <2>1. tasks' = tasks \ {t}
    BY <1>8 DEF Ends, GoesOn
  <2>2. patient /\ Plain /\ ~missed' => shown' = server
    BY <1>8
  <2> QED BY <1>3, <1>4, <1>5, <1>6, <1>7, <2>1, <2>2, OverKeeps
<1>9. CASE Rereads(t.op, done)
  <2>1. PICK u : u = [t EXCEPT !.stage = "list", !.done = done]
    OBVIOUS
  <2>2. /\ u \in Task /\ u.n = t.n /\ u.op = t.op /\ u.row = t.row /\ u.stage = "list" /\ u.done = done
    BY <1>1, <2>1 DEF Task
  <2>3. tasks' = (tasks \ {t}) \cup {u}
    BY <1>9, <2>1 DEF Ends, GoesOn, Becomes
  <2>4. Holds(u) => Holds(t) /\ busy' = busy
    BY <1>1, <1>9, <2>2 DEF Holds, Running, Ends, Frees, FreesNow
  <2>5. HoldsOwn(u) => HoldsOwn(t) /\ own' = own
    BY <1>2, <1>9, <2>2 DEF HoldsOwn, Running, Ends, Frees, FreesNow
  <2>6. PICK U : U = {u}
    OBVIOUS
  <2>7. U \in SUBSET Task /\ (\A v, w \in U : v = w) /\ tasks' = (tasks \ {t}) \cup U /\ U # {}
    BY <2>2, <2>3, <2>6
  <2>8. \A v \in U : /\ v.n = t.n /\ v.op = t.op /\ v.row = t.row /\ v.stage = "list" /\ t.op # Visit
                     /\ Holds(v) => Holds(t) /\ busy' = busy
                     /\ HoldsOwn(v) => HoldsOwn(t) /\ own' = own
                     /\ patient /\ v.done /\ TakesText(v.op) => saved
    BY <1>1, <2>2, <2>4, <2>5, <2>6
  <2> QED BY <1>3, <1>4, <1>5, <1>6, <1>7, <2>7, <2>8, LeaveKeeps
<1> QED BY <1>8, <1>9

(* The list arrived, or did not.                                           *)
LEMMA AfterListKeeps ==
  ASSUME IInv, NEW t \in tasks, t.stage \in {"list", "listed"}, AfterList(t),
         shown' \in Values, msg' \in {"none", "ok", "warn", "err"}, missed' \in BOOLEAN,
         patient /\ Plain /\ ~missed' => shown' = server,
         ~Table[page].clears /\ msg = "err" => msg' = "err"
  PROVE  IInv'
<1>1. UNCHANGED <<page, server, saved, waiting, ops, patient, failed>> /\ tasks' = tasks \ {t}
  BY DEF AfterList
<1>2. busy' = busy \/ (busy' = "free" /\ Holds(t))
  BY DEF AfterList, Lower, Holds
<1>3. own' = own \/ (own' = own \ {t.op.name} /\ ("own" \in t.op.flags => HoldsOwn(t)))
  BY DEF AfterList, HoldsOwn
<1>4. (crossed => crossed') /\ crossed' \in BOOLEAN /\ form' \in {"blank", "typed"}
  BY Parts DEF AfterList, Lower
<1>5. waiting' \in [Rows -> 0..3] /\ failed' \in BOOLEAN /\ (Plain => \A r \in Rows : waiting'[r] = Nothing)
  BY <1>1, Parts
<1>6. patient /\ failed' /\ ~Table[page].clears => msg' = "err"
  BY <1>1, Parts DEF WaitInv
<1> QED BY <1>1, <1>2, <1>3, <1>4, <1>5, <1>6, OverKeeps
LEMMA DeclineKeeps ==
  ASSUME IInv, NEW t \in tasks, Decline(t)
  PROVE  IInv'
<1>1. /\ UNCHANGED <<page, server, shown, msg, busy, own, form, saved, waiting, ops, patient, failed, missed, crossed>>
      /\ t.stage = "first"
  BY DEF Decline
<1>2. t.n \in 0..MaxOps
  BY StateFacts DEF IInv, Task
<1>3. CASE Becomes(t, Reading(t.n))
  <2>1. PICK u : u = Reading(t.n)
    OBVIOUS
  <2>2. u \in Task /\ u.n = t.n /\ u.op = Visit /\ u.stage = "list" /\ ~u.done /\ ~Running(u)
    BY <1>2, <2>1, ReadingFacts
  <2>3. ~Questioned(u) /\ ~Holds(u) /\ ~HoldsOwn(u)
    BY <2>2, VisitFacts DEF Questioned, Holds, HoldsOwn
  <2>4. Waited(u)'
    BY <2>2 DEF Waited
  <2> QED BY <1>1, <1>3, <2>1, <2>2, <2>3, <2>4, MoveKeeps, Parts
<1>4. CASE tasks' = tasks \ {t}
  <2>1. patient => Waited(t) /\ (failed /\ ~Table[page].clears => msg = "err")
    BY Parts DEF WaitInv
  <2>2. patient /\ Plain /\ ~missed' => shown' = server
    BY <1>1, <2>1 DEF Waited
  <2> QED BY <1>1, <1>4, <2>1, <2>2, OverKeeps, Parts
<1> QED BY <1>3, <1>4 DEF Decline

LEMMA TakeDoneKeeps ==
  ASSUME IInv, NEW t \in tasks, TakeDone(t)
  PROVE  IInv'
<1>1. t.stage = "done" /\ failed' = failed
  BY DEF TakeDone
<1>2. t \in Task /\ TaskInv(t) /\ t.rows \in Values
  BY StateFacts DEF IInv, Task
<1>3. t.op # Visit /\ t.op \in OpsHere /\ Fits(t.op) /\ Running(t)
  <2>1. t.op \in OpsHere /\ t.op # Visit
    BY <1>1, <1>2, StateFacts DEF TaskInv, IInv
  <2> QED BY <1>1, <2>1, StateFacts DEF IInv, Running
<1>4. patient => Waited(t)
  BY Parts DEF WaitInv
<1>5. CASE t.op.tail # "no"
  <2>1. /\ To(t, "more") /\ msg' = IF t.op.tail = "notes" THEN "ok" ELSE msg
        /\ UNCHANGED <<page, server, shown, busy, own, form, saved, waiting, ops, patient, missed, crossed>>
    BY <1>5 DEF TakeDone
  <2>2. PICK u : u = [t EXCEPT !.stage = "more"]
    OBVIOUS
  <2>3. /\ u \in Task /\ u.stage = "more" /\ u.n = t.n /\ u.op = t.op /\ u.row = t.row
        /\ u.rows = t.rows /\ u.done = t.done
    BY <1>2, <2>2 DEF Task
  <2>4. ~Questioned(u) /\ (Holds(u) => Holds(t)) /\ (HoldsOwn(u) => HoldsOwn(t))
    BY <1>3, <2>3 DEF Questioned, Holds, HoldsOwn
  <2>5. patient => Waited(u)' /\ ~failed
    BY <1>1, <1>3, <1>4, <1>5, <2>1, <2>3 DEF Waited
  <2>6. msg' \in {"none", "ok", "warn", "err"}
    BY <2>1, Parts
  <2> QED BY <1>1, <1>3, <2>1, <2>2, <2>3, <2>4, <2>5, <2>6, MoveKeeps, Parts DEF To
<1>6. CASE t.op.tail = "no"
  <2>1. /\ Ends(t, TRUE, Outcome(t.op)) /\ waiting' = waiting
        /\ shown' = IF t.op.reload = "answer" THEN t.rows ELSE shown
        /\ missed' = (missed /\ t.op.reload # "answer")
    BY <1>6 DEF TakeDone
  <2>2. PICK outcome : outcome = Outcome(t.op)
    OBVIOUS
  <2>3. outcome \in {"none", "ok", "warn", "err"}
    <3>1. t.op.told \in {"ok", "keep", "clear"}
      BY <1>3 DEF Fits
    <3> QED BY <2>2, <3>1, Parts DEF Outcome
  <2>4. shown' \in Values /\ missed' \in BOOLEAN /\ failed' \in BOOLEAN
    BY <1>1, <1>2, <2>1, Parts
  <2>5. patient /\ ~Rereads(t.op, TRUE) /\ Plain /\ ~missed' => shown' = server
    <3> SUFFICES ASSUME patient, ~Rereads(t.op, TRUE), Plain, ~missed' PROVE shown' = server
      OBVIOUS
    <3>1. CASE t.op.reload = "answer"
      BY <1>1, <1>4, <2>1, <3>1 DEF Waited
    <3>2. CASE t.op.reload # "answer"
      <4>1. t.op.effect = "none"
        BY <1>3, <3>2 DEF Fits, Rereads
      <4> QED BY <1>1, <1>4, <2>1, <3>2, <4>1 DEF Waited
    <3> QED BY <3>1, <3>2
  <2>6. (patient /\ TakesText(t.op) => saved) /\ (patient => ~failed)
    BY <1>1, <1>3, <1>4 DEF Waited
  <2> QED BY <1>1, <1>3, <2>1, <2>2, <2>3, <2>4, <2>5, <2>6, EndsKeeps, Parts
<1> QED BY <1>5, <1>6

LEMMA TakeMoreKeeps ==
  ASSUME IInv, NEW t \in tasks, TakeMore(t)
  PROVE  IInv'
<1>1. t.stage = "more" /\ UNCHANGED <<shown, missed>>
  BY DEF TakeMore
<1>2. t \in Task /\ TaskInv(t) /\ t.row \in Rows
  BY StateFacts DEF IInv
<1>3. t.op # Visit /\ t.op \in OpsHere /\ Fits(t.op) /\ Running(t)
  <2>1. t.op \in OpsHere /\ t.op # Visit
    BY <1>1, <1>2, StateFacts DEF TaskInv, IInv
  <2> QED BY <1>1, <2>1, StateFacts DEF IInv, Running
<1>4. patient => ~failed /\ (TakesText(t.op) => saved) /\ Rereads(t.op, TRUE) /\ Rereads(t.op, FALSE)
  BY <1>1, <1>3, Parts DEF WaitInv, Waited, Fits, Rereads
<1>5. /\ shown' \in Values /\ missed' \in BOOLEAN /\ waiting \in [Rows -> 0..3] /\ failed \in BOOLEAN
      /\ (Plain => \A r \in Rows : waiting[r] = Nothing)
  BY <1>1, Parts
<1>6. CASE Ends(t, TRUE, "ok") /\ waiting' = [waiting EXCEPT ![t.row] = Nothing] /\ failed' = failed
  <2>1. waiting' \in [Rows -> 0..3] /\ (Plain => \A r \in Rows : waiting'[r] = Nothing)
    BY <1>2, <1>5, <1>6 DEF Nothing
  <2>2. PICK outcome : outcome = "ok"
    OBVIOUS
  <2>3. Ends(t, TRUE, outcome) /\ outcome \in {"none", "ok", "warn", "err"} /\ failed' \in BOOLEAN
    BY <1>5, <1>6, <2>2
  <2> QED BY <1>3, <1>4, <1>5, <1>6, <2>1, <2>3, EndsKeeps
<1>7. CASE Ends(t, TRUE, "warn") /\ UNCHANGED <<waiting, failed>>
  <2>1. PICK outcome : outcome = "warn"
    OBVIOUS
  <2>2. Ends(t, TRUE, outcome) /\ outcome \in {"none", "ok", "warn", "err"} /\ failed' \in BOOLEAN
    BY <1>5, <1>7, <2>1
  <2> QED BY <1>3, <1>4, <1>5, <1>7, <2>2, EndsKeeps
<1>8. CASE Ends(t, FALSE, "err") /\ failed' = TRUE /\ waiting' = waiting
  <2>1. PICK outcome : outcome = "err"
    OBVIOUS
  <2>2. Ends(t, FALSE, outcome) /\ outcome \in {"none", "ok", "warn", "err"} /\ failed' \in BOOLEAN
    BY <1>8, <2>1
  <2> QED BY <1>3, <1>4, <1>5, <1>8, <2>1, <2>2, EndsKeeps
<1> QED BY <1>6, <1>7, <1>8 DEF TakeMore

LEMMA TakeRefusedKeeps ==
  ASSUME IInv, NEW t \in tasks, TakeRefused(t)
  PROVE  IInv'
<1>1. /\ t.stage = "refused" /\ UNCHANGED <<shown, waiting, missed>> /\ failed' = t.op.catches
      /\ Ends(t, FALSE, IF t.op.catches THEN "err" ELSE msg)
  BY DEF TakeRefused
<1>2. t.op # Visit /\ t.op \in OpsHere /\ Running(t)
  BY <1>1, StateFacts DEF TaskInv, IInv, Running
<1>3. t.op.catches \in BOOLEAN
  BY <1>2, OpsFit DEF IInv, TypeOK, Fits
<1>4. PICK outcome : outcome = IF t.op.catches THEN "err" ELSE msg
  OBVIOUS
<1>5. /\ outcome \in {"none", "ok", "warn", "err"} /\ Ends(t, FALSE, outcome)
      /\ failed' \in BOOLEAN /\ (failed' => outcome = "err")
  BY <1>1, <1>3, <1>4, Parts
<1>6. patient /\ Plain /\ ~missed' => shown' = server
  BY <1>1, Parts DEF WaitInv, Waited
<1> QED BY <1>1, <1>2, <1>5, <1>6, EndsKeeps, Parts

LEMMA TakeCancelledKeeps ==
  ASSUME IInv, NEW t \in tasks, TakeCancelled(t)
  PROVE  IInv'
<1>1. t.stage = "sent" /\ UNCHANGED <<shown, waiting, failed, missed>> /\ Ends(t, FALSE, "none")
  BY DEF TakeCancelled
<1>2. t.op # Visit /\ t.op \in OpsHere /\ Running(t)
  BY <1>1, StateFacts DEF TaskInv, IInv, Running
<1>3. PICK outcome : outcome = "none"
  OBVIOUS
<1>4. outcome \in {"none", "ok", "warn", "err"} /\ Ends(t, FALSE, outcome)
  BY <1>1, <1>3
<1>5. (patient /\ Plain /\ ~missed' => shown' = server) /\ (patient => ~failed)
  BY <1>1, <1>2, Parts DEF WaitInv, Waited
<1> QED BY <1>1, <1>2, <1>4, <1>5, EndsKeeps, Parts

LEMMA TakeListKeeps ==
  ASSUME IInv, NEW t \in tasks, TakeList(t)
  PROVE  IInv'
<1>1. /\ t.stage = "listed" /\ shown' = t.rows /\ missed' = FALSE /\ AfterList(t)
      /\ msg' = IF Table[page].clears THEN "none" ELSE msg
  BY DEF TakeList
<1>2. shown' \in Values
  BY <1>1, StateFacts DEF IInv, Task
<1>3. patient /\ Plain => shown' = server
  BY <1>1, Parts DEF WaitInv, Waited
<1>4. msg' \in {"none", "ok", "warn", "err"}
  BY <1>1, Parts
<1> QED BY <1>1, <1>2, <1>3, <1>4, AfterListKeeps

LEMMA TakeNoListKeeps ==
  ASSUME IInv, NEW t \in tasks, TakeNoList(t)
  PROVE  IInv'
<1>1. /\ t.stage = "list" /\ missed' = TRUE /\ AfterList(t)
      /\ shown' = IF Table[page].unlisted = "empties" THEN Empty ELSE shown
      /\ msg' = IF Table[page].unlisted = "silent" THEN msg ELSE "err"
  BY DEF TakeNoList
<1>2. shown' \in Values
  <2>1. Empty \in Values
    BY DEF Empty, Values
  <2> QED BY <1>1, <2>1, Parts
<1>3. msg' \in {"none", "ok", "warn", "err"} /\ (msg = "err" => msg' = "err")
  BY <1>1, Parts
<1> QED BY <1>1, <1>2, <1>3, AfterListKeeps

----------------------------------------------------------------------------
(* Every step keeps the invariant.                                         *)

LEMMA InitIInv == Init => IInv
<1> SUFFICES ASSUME Init PROVE IInv
  OBVIOUS
<1>1. /\ page \in Pages /\ shown = Empty /\ msg = "none" /\ busy = "free" /\ own = {}
      /\ server = [r \in Rows |-> IF r \in Old THEN 1 ELSE 0]
      /\ form = "blank" /\ saved = FALSE /\ waiting = [r \in Rows |-> Nothing]
      /\ ops = 0 /\ failed = FALSE /\ missed = TRUE /\ crossed = FALSE
  BY DEF Init
<1>2. 0 \in 0..MaxOps /\ MaxTasks \in Nat \ {0}
  BY PagesAssumption DEF PagesAssumption
<1>3. PICK t : t = Reading(0)
  OBVIOUS
<1>4. /\ t \in Task /\ t.n = 0 /\ t.op = Visit /\ t.stage = "list" /\ ~t.done /\ ~Running(t) /\ Waited(t)
      /\ tasks = {t}
  BY <1>2, <1>3, ReadingFacts DEF Init
<1>5. IsFiniteSet(tasks) /\ Cardinality(tasks) = 1
  BY <1>4, FS_Singleton
<1>6. patient \in BOOLEAN
  BY PagesAssumption DEF Init, PagesAssumption
<1>7. TypeOK
  <2>1. server \in Values /\ shown \in Values /\ waiting \in [Rows -> 0..3]
    BY <1>1 DEF Values, Empty, Nothing
  <2>2. Cardinality(tasks) <= MaxTasks
    BY <1>2, <1>5
  <2> QED BY <1>1, <1>2, <1>4, <1>6, <2>1, <2>2 DEF TypeOK
<1>8. FlagInv
  <2>1. ~Holds(t) /\ ~HoldsOwn(t) /\ ~Questioned(t)
    BY <1>4, VisitFacts DEF Holds, HoldsOwn, Questioned
  <2>2. TaskInv(t)
    BY <1>1, <1>4, <2>1 DEF TaskInv
  <2> QED BY <1>4, <2>1, <2>2 DEF FlagInv, PairInv
<1>9. \A r \in Rows : waiting[r] = Nothing
  BY <1>1
<1>10. WaitInv
  BY <1>1, <1>4 DEF WaitInv
<1> QED BY <1>5, <1>7, <1>8, <1>9, <1>10 DEF IInv

LEMMA NextKeeps == IInv /\ [Next]_vars => IInv'
<1> SUFFICES ASSUME IInv, [Next]_vars PROVE IInv'
  OBVIOUS
<1>1. ASSUME NEW o \in OpsHere, NEW r \in Rows, Click(o, r) PROVE IInv'
  BY <1>1, ClickKeeps
<1>2. ASSUME NEW t \in tasks, Confirm(t) \/ AskAgain(t) \/ Decline(t) PROVE IInv'
  BY <1>2, ConfirmKeeps, AskAgainKeeps, DeclineKeeps
<1>3. ASSUME NEW t \in tasks, Answer(t) PROVE IInv'
  BY <1>3, ServeKeeps, ServeListKeeps, TakeDoneKeeps, TakeMoreKeeps, TakeRefusedKeeps, TakeCancelledKeeps,
     TakeListKeeps, TakeNoListKeeps DEF Answer
<1>4. ASSUME Type \/ Refresh \/ Fade PROVE IInv'
  BY <1>4, TypeKeeps, RefreshKeeps, FadeKeeps
<1>5. ASSUME NEW r \in Rows, TakeBack(r) PROVE IInv'
  BY <1>5, TakeBackKeeps
<1>6. CASE UNCHANGED vars
  <2>1. FlagInv'
    BY <1>6, FlagsStay DEF IInv, vars
  <2>2. OpsHere' = OpsHere /\ Task' = Task /\ Plain' = Plain
    BY <1>6, SameOps DEF vars
  <2>3. TypeOK'
    BY <1>6, <2>2 DEF IInv, TypeOK, vars, Values
  <2>4. patient => WaitInv'
    BY <1>6, <2>2 DEF IInv, WaitInv, Waited, vars
  <2> QED BY <1>6, <2>1, <2>2, <2>3, <2>4 DEF IInv, vars
<1> QED BY <1>1, <1>2, <1>3, <1>4, <1>5, <1>6 DEF Next

LEMMA Invariance == Spec => []IInv
BY InitIInv, NextKeeps, PTL DEF Spec

----------------------------------------------------------------------------
(* The theorems.                                                           *)

LEMMA InvRunsOnce == IInv => PagesInv
<1> SUFFICES ASSUME IInv PROVE RunsOnce
  BY DEF IInv, PagesInv
<1>1. ASSUME NEW t \in tasks, NEW u \in tasks, Running(t), Running(u), t.op = u.op, t.row = u.row, t # u,
             t.op.gate \in t.op.flags, ~crossed
      PROVE  FALSE
  <2>1. PairInv(t, u) /\ TaskInv(t) /\ t.op # Visit
    BY <1>1 DEF IInv, FlagInv, Running
  <2>2. Fits(t.op)
    BY <2>1, StateFacts DEF IInv, TaskInv
  <2>3. CASE t.op.gate = "own"
    BY <1>1, <2>1, <2>3 DEF PairInv, HoldsOwn
  <2>4. CASE t.op.gate # "own"
    BY <1>1, <2>1, <2>2, <2>4 DEF PairInv, Holds, Fits
  <2> QED BY <2>3, <2>4
<1> QED BY <1>1 DEF RunsOnce

(* However fast the user clicks and in whatever order the answers come, an *)
(* operation whose button is disabled by a flag it raises itself never     *)
(* runs twice on a row, unless a handler of the page has taken over or     *)
(* freed the one flag of another: setBusy in the pages, components.jsx.    *)
THEOREM FlaggedRunOnce == Spec => []PagesInv
BY Invariance, InvRunsOnce, PTL

(* A user who waits for the answer is told that an operation failed: the   *)
(* message is there when all is quiet, whatever list was read since.       *)
THEOREM FailuresAreTold == Spec => []FailureIsTold
<1>1. IInv => FailureIsTold
  BY DEF IInv, WaitInv, FailureIsTold
<1> QED BY <1>1, Invariance, PTL

(* A user who waits sees the rows as the server has them when all is       *)
(* quiet: every handler of every page that changes something reads the     *)
(* list again, or takes it from the answer.                                *)
THEOREM QuietListsAreCurrent == Spec => []QuietListIsCurrent
<1>1. IInv => QuietListIsCurrent
  BY DEF IInv, WaitInv, Plain, QuietListIsCurrent
<1> QED BY <1>1, Invariance, PTL

(* What a user who waits has typed leaves a form only when it has reached  *)
(* the server: the forms are emptied after the answer, and only if it was  *)
(* a success.                                                              *)
THEOREM TypedTextIsKept == Spec => TextIsKept
<1> DEFINE Kept == patient /\ form = "typed" /\ form' = "blank" /\ (\A o \in OpsHere : o.form \notin {"before", "wipes"})
                     => saved
<1>1. IInv /\ [Next]_vars => [Kept]_vars
  <2> SUFFICES ASSUME IInv, Next, patient, form = "typed", form' = "blank",
                      \A o \in OpsHere : o.form \notin {"before", "wipes"}
               PROVE  saved
    BY DEF vars
  <2>1. ASSUME NEW t \in tasks PROVE t.op.form # "none" => t.op \in OpsHere /\ Waited(t)
    BY <2>1, StateFacts, VisitFacts DEF IInv, WaitInv, TaskInv
  <2>2. ASSUME NEW t, Starts(t), t.op \in OpsHere PROVE FALSE
    BY <2>2 DEF Starts
  <2>3. ASSUME NEW o \in OpsHere, NEW r \in Rows, Click(o, r) PROVE FALSE
    <3>1. PICK t : t = [n |-> ops + 1, op |-> o, row |-> r, rows |-> Empty, done |-> FALSE, stage |-> "first"]
      OBVIOUS
    <3>2. Starts(t) \/ form' = form
      BY <2>3, <3>1, Zenon DEF Click
    <3> QED BY <2>2, <3>1, <3>2
  <2>4. ASSUME NEW t \in tasks, Confirm(t) PROVE FALSE
    <3>1. t.op \in OpsHere
      BY <2>4, StateFacts DEF IInv, TaskInv, Confirm
    <3> QED BY <2>2, <2>4, <3>1 DEF Confirm
  <2>5. ASSUME NEW t \in tasks, NEW done, NEW outcome, Ends(t, done, outcome), done => t.stage \in {"done", "more"}
        PROVE  saved
    <3>1. done /\ t.op.form = "success" /\ t.stage \in {"done", "more"}
      BY <2>1, <2>5 DEF Ends, Blanks
    <3> QED BY <2>1, <3>1 DEF Waited, TakesText
  <2>6. ASSUME NEW t \in tasks, AfterList(t) PROVE saved
    <3>1. t.op.form = "end" /\ t.done
      BY <2>6 DEF AfterList
    <3> QED BY <2>1, <3>1 DEF Waited, TakesText
  <2>7. ASSUME NEW t \in tasks, Answer(t) PROVE saved
    <3>1. CASE Serve(t) \/ ServeList(t)
      BY <3>1 DEF Serve, ServeList
    <3>2. CASE TakeDone(t)
      BY <2>5, <3>2 DEF TakeDone
    <3>3. CASE TakeMore(t)
      BY <2>5, <3>3 DEF TakeMore
    <3>4. CASE TakeRefused(t)
      BY <2>5, <3>4 DEF TakeRefused
    <3>5. CASE TakeCancelled(t)
      BY <2>5, <3>5 DEF TakeCancelled
    <3>6. CASE TakeList(t) \/ TakeNoList(t)
      BY <2>6, <3>6 DEF TakeList, TakeNoList
    <3> QED BY <2>7, <3>1, <3>2, <3>3, <3>4, <3>5, <3>6 DEF Answer
  <2>8. ASSUME NEW t \in tasks, AskAgain(t) \/ Decline(t) PROVE FALSE
    BY <2>8 DEF AskAgain, Decline
  <2>9. ~(Type \/ Refresh \/ Fade) /\ ~(\E r \in Rows : TakeBack(r))
    BY DEF Type, Refresh, Fade, TakeBack
  <2> QED BY <2>3, <2>4, <2>7, <2>8, <2>9 DEF Next
<1>2. [][Kept]_vars <=> TextIsKept
  BY PTL DEF TextIsKept
<1> QED BY <1>1, <1>2, Invariance, PTL DEF Spec
=============================================================================
