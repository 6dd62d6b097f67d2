------------------------------ MODULE Sessions ------------------------------
(***************************************************************************)
(* Who is signed in: internal/auth, the session, recovery-code and passkey *)
(* tables of internal/db, and the handlers that use them, run by           *)
(* concurrent requests.                                                    *)
(*                                                                         *)
(* A login proves the password on the row it read, then a second factor    *)
(* when the account has one, then opens a session.  Every other request    *)
(* carries a session, which is looked up first and whose account is read   *)
(* next (ValidateSession); the rest of the request goes by that reading.   *)
(* Each statement is atomic, any other request may run between two.        *)
(*                                                                         *)
(* Hashes are the passwords they were made of, a session's secret is its   *)
(* place in the table, an authenticator's reply is good or not.  Sessions  *)
(* that have ended are kept here; in the table they are gone.  How roles   *)
(* and resellers change is in Accounts: here they do not.                  *)
(* A definition marked (slip) is a plausible mistake in the one it         *)
(* precedes and is used nowhere.                                           *)
(***************************************************************************)
EXTENDS Naturals, FiniteSets

CONSTANTS Users, Staff,    \* accounts; those with a staff role
          Manages,         \* whom each of them may manage (CanManage)
          Passwords,       \* what may be typed or set as a password
          Codes,           \* recovery codes of one account
          ChallengeIds,    \* bound: passkey ceremonies ever started
          NoSession,       \* a place in the sessions table never used
          FirstUsers,      \* each account's row when the panel starts
          FirstKeys,       \* accounts that have a passkey
          FirstSignedIn,   \* the account that has a session at the start
          Handlers,        \* request handlers that may run at the same time
          Ops,             \* the operations offered to them
          MaxSessions, MaxRequests,  \* bounds
          MayCancel        \* whether a client may go away mid-request

Account == [pw: Passwords, weak: BOOLEAN, suspended: BOOLEAN,
            totp: {"off", "pending", "on"}]

SessionIds == 1 .. MaxSessions

OwnOps   == {"password", "setup", "enable", "disable", "register", "finish", "unkey"}
StaffOps == {"reset", "suspend", "restore", "impersonate"}
AllOps   == {"login", "use", "logout", "stop"} \cup OwnOps \cup StaffOps

Nobody == "nobody"

Session == [user: Users, imp: Users \cup {Nobody},
            by: {"login", "staff", "return"}, end: {"open", "closed", "returned"}]

ASSUME PeopleAssumption ==
  Staff \subseteq Users /\ FirstSignedIn \in Users /\ Nobody \notin Users
ASSUME ManagesAssumption ==
  /\ Manages \in [Users -> SUBSET Users]
  /\ \A u \in Users : u \notin Manages[u] /\ (u \notin Staff => Manages[u] = {})
ASSUME FirstAssumption == FirstUsers \in [Users -> Account] /\ FirstKeys \subseteq Users
ASSUME NoSessionAssumption == NoSession \notin Session
ASSUME BoundAssumption ==
  MaxSessions \in Nat \ {0} /\ MaxRequests \in Nat
ASSUME OpsAssumption == Ops \subseteq AllOps /\ MayCancel \in BOOLEAN

VARIABLES users,       \* the users table, what a login needs of it
          chosen,      \* the password last set for each account
          codes,       \* unused recovery codes
          used,        \* logins each recovery code has let in
          keys,        \* accounts with a passkey
          challenges,  \* half-finished passkey ceremonies
          sessions,    \* the sessions table
          req,         \* each handler's request
          begun        \* requests begun so far

vars == <<users, chosen, codes, used, keys, challenges, sessions, req, begun>>

Challenge == [user: Users, purpose: {"none", "login", "register"}, used: 0 .. 2]

Steps == {"idle", "done"} \cup
  {"verify", "rehash", "factor", "redeem", "take", "mint", "session", "user",
   "evict", "target", "worn", "operator", "replace", "close", "hash", "flag", "revoke",
   "secret", "codes", "enable", "disable", "challenge", "key", "unkey"}

Factors == {"none", "totp"} \cup Codes \cup ChallengeIds

Request == [op: AllOps \cup {"none"}, pc: Steps, who: Users, typed: Passwords,
            new: Passwords, factor: Factors, totp: {"off", "pending", "on"},
            sess: SessionIds \cup {0}, mark: SUBSET SessionIds]

Used(i) == sessions[i] # NoSession
Open(i) == Used(i) /\ sessions[i].end = "open"
Free == {i \in SessionIds : ~ Used(i)}

TypeOK ==
  /\ users \in [Users -> Account]
  /\ chosen \in [Users -> Passwords]
  /\ codes \in [Users -> SUBSET Codes] /\ used \in [Users -> [Codes -> 0 .. 2]]
  /\ keys \subseteq Users
  /\ challenges \in [ChallengeIds -> Challenge]
  /\ sessions \in [SessionIds -> Session \cup {NoSession}]
  /\ \A i, j \in SessionIds : i < j /\ Used(j) => Used(i)
  /\ \A i \in SessionIds : Used(i) => (sessions[i].imp # Nobody <=> sessions[i].by = "staff")
  /\ req \in [Handlers -> Request]
  /\ begun \in 0 .. MaxRequests

NoRequest == [op |-> "none", pc |-> "idle", who |-> FirstSignedIn,
              typed |-> FirstUsers[FirstSignedIn].pw, new |-> FirstUsers[FirstSignedIn].pw,
              factor |-> "none", totp |-> "off", sess |-> 0, mark |-> {}]

Init ==
  /\ users = FirstUsers
  /\ chosen = [u \in Users |-> FirstUsers[u].pw]
  /\ codes = [u \in Users |-> IF FirstUsers[u].totp = "off" THEN {} ELSE Codes]
  /\ used = [u \in Users |-> [c \in Codes |-> 0]]
  /\ keys = FirstKeys
  /\ challenges = [c \in ChallengeIds |-> [user |-> FirstSignedIn, purpose |-> "none", used |-> 0]]
  /\ sessions = [i \in SessionIds |-> IF i > 1 THEN NoSession
                   ELSE [user |-> FirstSignedIn, imp |-> Nobody, by |-> "login",
                         end |-> "open"]]
  /\ req = [h \in Handlers |-> NoRequest]
  /\ begun = 0

-----------------------------------------------------------------------------
At(h, pc) == req[h].pc = pc
Resting(h) == At(h, "idle") \/ At(h, "done")

(* A refused request is forgotten; of one that was answered, the sessions  *)
(* it was to end are remembered.                                           *)
Goto(h, pc) ==
  req' = [req EXCEPT ![h] = CASE pc = "failed" -> NoRequest
                              [] pc = "done"   -> [NoRequest EXCEPT !.pc = "done", !.mark = req[h].mark]
                              [] OTHER         -> [req[h] EXCEPT !.pc = pc]]

tables == <<users, chosen, codes, used, keys, challenges, sessions>>

(* The sessions table once those in S are deleted. *)
Ended(S, why) == [i \in SessionIds |-> IF i \in S /\ Open(i)
                                       THEN [sessions[i] EXCEPT !.end = why] ELSE sessions[i]]
SessionsOf(u) == {i \in SessionIds : Used(i) /\ sessions[i].user = u}

(* CreateSession, at the next place in the table. *)
Minted(u, imp, by) ==
  LET i == Cardinality(SessionIds \ Free) + 1 IN
  [sessions EXCEPT ![i] = [user |-> u, imp |-> imp, by |-> by, end |-> "open"]]

Begin(h, r) ==
  /\ Resting(h)
  /\ r.op \in Ops
  /\ begun < MaxRequests
  /\ begun' = begun + 1
  /\ req' = [req EXCEPT ![h] = r]
  /\ UNCHANGED tables

(* handleLogin: what the form was filled in with. *)
BeginLogin(h) ==
  \E u \in Users, p \in Passwords, f \in Factors :
    /\ f \in ChallengeIds => challenges[f].purpose # "none" \/ challenges[f].used > 0
    /\ Begin(h, [NoRequest EXCEPT !.op = "login", !.pc = "verify", !.who = u,
                                  !.typed = p, !.factor = f])

(* A request carrying a session, open or not: about its own account, or    *)
(* about another, which only staff is let do.                              *)
BeginWith(h) ==
  \E i \in SessionIds \ Free :
    LET base == [NoRequest EXCEPT !.pc = "session", !.sess = i, !.who = sessions[i].user] IN
    \/ \E op \in {"use", "logout", "stop", "setup", "enable", "register", "unkey"} :
         Begin(h, [base EXCEPT !.op = op])
    \/ \E c \in ChallengeIds : Begin(h, [base EXCEPT !.op = "finish", !.factor = c])
    \/ \E p, n \in Passwords : Begin(h, [base EXCEPT !.op = "password", !.typed = p, !.new = n])
    \/ \E p \in Passwords : Begin(h, [base EXCEPT !.op = "disable", !.typed = p])
    \/ \E t \in Users :
         \/ \E op \in {"suspend", "restore", "impersonate"} :
              Begin(h, [base EXCEPT !.op = op, !.who = t])
         \/ \E n \in Passwords : Begin(h, [base EXCEPT !.op = "reset", !.who = t, !.new = n])

-----------------------------------------------------------------------------
(* Signing in. *)

(* VerifyCredentials, up to the row it will go by. *)
Verify(h) ==
  /\ At(h, "verify")
  /\ LET u == users[req[h].who] IN
     IF u.pw # req[h].typed \/ u.suspended THEN Goto(h, "failed")
     ELSE req' = [req EXCEPT ![h].totp = u.totp, ![h].pc = IF u.weak THEN "rehash" ELSE "factor"]
  /\ UNCHANGED <<tables, begun>>

(* A hash made with weaker parameters is replaced by one of what was typed. *)
Rehash(h) ==
  /\ At(h, "rehash")
  /\ users' = [users EXCEPT ![req[h].who].pw = req[h].typed, ![req[h].who].weak = FALSE]
  /\ Goto(h, "factor")
  /\ UNCHANGED <<chosen, codes, used, keys, challenges, sessions, begun>>

(* What is asked of an account after its password; "challenge" asks for    *)
(* its passkey.  A typed code goes first, when the account has that too.   *)
AfterPassword(totp, keyed, f) ==
  LET code == IF f = "totp" THEN "mint" ELSE IF f \in Codes THEN "redeem" ELSE "failed" IN
  IF keyed
  THEN IF totp = "on" /\ f \in Codes \cup {"totp"} THEN code
       ELSE IF f \in ChallengeIds THEN "take" ELSE "challenge"
  ELSE IF totp = "on" THEN code ELSE "mint"

SecondFactor(h) ==
  /\ At(h, "factor")
  /\ Goto(h, AfterPassword(req[h].totp, req[h].who \in keys, req[h].factor))
  /\ UNCHANGED <<tables, begun>>

(* (slip) The code is looked up and not taken. *)
RedeemRecoveryCodeSlip(h) ==
  /\ At(h, "redeem")
  /\ LET u == req[h].who c == req[h].factor IN
     IF c \in codes[u]
     THEN /\ used[u][c] < 2
          /\ used' = [used EXCEPT ![u][c] = @ + 1]
          /\ Goto(h, "mint")
     ELSE Goto(h, "failed") /\ UNCHANGED used
  /\ UNCHANGED <<users, chosen, codes, keys, challenges, sessions, begun>>

(* The DELETE is the check. *)
RedeemRecoveryCode(h) ==
  /\ At(h, "redeem")
  /\ LET u == req[h].who c == req[h].factor IN
     IF c \in codes[u]
     THEN /\ used[u][c] < 2
          /\ codes' = [codes EXCEPT ![u] = @ \ {c}]
          /\ used' = [used EXCEPT ![u][c] = @ + 1]
          /\ Goto(h, "mint")
     ELSE Goto(h, "failed") /\ UNCHANGED <<codes, used>>
  /\ UNCHANGED <<users, chosen, keys, challenges, sessions, begun>>

(* storeChallenge, for the account that proved its password or asks to     *)
(* register; the login it belongs to is answered and starts again.         *)
StoreChallenge(h) ==
  /\ At(h, "challenge")
  /\ \E c \in ChallengeIds :
       /\ challenges[c].purpose = "none" /\ challenges[c].used = 0
       /\ challenges' = [challenges EXCEPT ![c].user = req[h].who,
                           ![c].purpose = IF req[h].op = "login" THEN "login" ELSE "register"]
  /\ Goto(h, IF req[h].op = "login" THEN "failed" ELSE "done")
  /\ UNCHANGED <<users, chosen, codes, used, keys, sessions, begun>>

(* TakePasskeyChallenge reads and deletes in one transaction; the reply is *)
(* then checked against the account, and may be no good.                   *)
TakeChallenge(h) ==
  /\ At(h, "take")
  /\ LET c == req[h].factor
         purpose == IF req[h].op = "login" THEN "login" ELSE "register" IN
     IF challenges[c].purpose = purpose
     THEN /\ challenges' = [challenges EXCEPT ![c].purpose = "none", ![c].used = @ + 1]
          /\ \/ /\ challenges[c].user = req[h].who
                /\ Goto(h, IF req[h].op = "login" THEN "mint" ELSE "key")
             \/ Goto(h, "failed")
     ELSE Goto(h, "failed") /\ UNCHANGED challenges
  /\ UNCHANGED <<users, chosen, codes, used, keys, sessions, begun>>

(* StartSession and Impersonate. *)
StartSession(h) ==
  /\ At(h, "mint")
  /\ Free # {}
  /\ sessions' = IF req[h].op = "impersonate"
                 THEN Minted(req[h].who, sessions[req[h].sess].user, "staff")
                 ELSE Minted(req[h].who, Nobody, "login")
  /\ Goto(h, "done")
  /\ UNCHANGED <<users, chosen, codes, used, keys, challenges, begun>>

-----------------------------------------------------------------------------
(* Every other request: ValidateSession, then what the route asks for. *)

(* The session's row: one that is past its time, or idle, goes. *)
LookUpSession(h) ==
  /\ At(h, "session")
  /\ \/ Open(req[h].sess) /\ Goto(h, "user") /\ UNCHANGED sessions
     \/ Goto(h, "failed") /\ sessions' = Ended({req[h].sess}, "closed")
  /\ UNCHANGED <<users, chosen, codes, used, keys, challenges, begun>>

(* Where a request goes whose session and account are good.  Staff routes  *)
(* need the role, and an account one may manage; impersonation a session   *)
(* of one's own; the routes of the own account are refused while           *)
(* impersonating, and a password is asked again for a new one and for      *)
(* turning two-factor off.                                                 *)
AfterAuth(r, s, row) ==
  IF \/ r.op \in StaffOps /\ s.user \notin Staff
     \/ r.op \in StaffOps \ {"impersonate"} /\ r.who \notin Manages[s.user]
     \/ r.op \in OwnOps \cup {"impersonate"} /\ s.imp # Nobody
     \/ r.op \in {"password", "disable"} /\ row.pw # r.typed
     \/ r.op = "setup" /\ row.totp = "on"
     \/ r.op = "enable" /\ row.totp = "off"
  THEN "failed"
  ELSE CASE r.op = "use"                     -> "done"
         [] r.op = "logout"                  -> "close"
         [] r.op = "stop"                    -> "worn"
         [] r.op = "impersonate"             -> "target"
         [] r.op \in {"password", "reset"}   -> "hash"
         [] r.op \in {"suspend", "restore"}  -> "flag"
         [] r.op = "setup"                   -> "secret"
         [] r.op = "enable"                  -> "enable"
         [] r.op = "disable"                 -> "disable"
         [] r.op = "register"                -> "challenge"
         [] r.op = "finish"                  -> "take"
         [] r.op = "unkey"                   -> "unkey"

(* The account's row, as the rest of the request will know it. *)
LoadUser(h) ==
  /\ At(h, "user")
  /\ LET s == sessions[req[h].sess] row == users[s.user] IN
     Goto(h, IF row.suspended THEN "evict" ELSE AfterAuth(req[h], s, row))
  /\ UNCHANGED <<tables, begun>>

(* A session of a suspended account takes all of them along. *)
Evict(h) ==
  /\ At(h, "evict")
  /\ sessions' = Ended(SessionsOf(sessions[req[h].sess].user), "closed")
  /\ Goto(h, "failed")
  /\ UNCHANGED <<users, chosen, codes, used, keys, challenges, begun>>

(* handleImpersonate: the account, as loaded, has to be one the operator   *)
(* may manage, no staff, and not suspended.                                *)
LoadTarget(h) ==
  /\ At(h, "target")
  /\ LET t == req[h].who IN
     Goto(h, IF t \in Manages[sessions[req[h].sess].user] \ Staff /\ ~ users[t].suspended
             THEN "mint" ELSE "failed")
  /\ UNCHANGED <<tables, begun>>

(* StopImpersonating reads the session again: it names the operator, *)
LookUpWorn(h) ==
  /\ At(h, "worn")
  /\ Goto(h, IF Open(req[h].sess) /\ sessions[req[h].sess].imp # Nobody THEN "operator" ELSE "failed")
  /\ UNCHANGED <<tables, begun>>

(* who must still be one who may sign in. *)
LoadOperator(h) ==
  /\ At(h, "operator")
  /\ LET i == req[h].sess IN
     IF users[sessions[i].imp].suspended
     THEN sessions' = Ended({i}, "closed") /\ Goto(h, "failed")
     ELSE Goto(h, "replace") /\ UNCHANGED sessions
  /\ UNCHANGED <<users, chosen, codes, used, keys, challenges, begun>>

(* (slip) The impersonated session goes first. *)
OpenReplacementSlip(h) ==
  /\ At(h, "replace")
  /\ IF Open(req[h].sess)
     THEN sessions' = Ended({req[h].sess}, "returned") /\ Goto(h, "replace")
     ELSE Free # {} /\ sessions' = Minted(sessions[req[h].sess].imp, Nobody, "return") /\ Goto(h, "done")
  /\ UNCHANGED <<users, chosen, codes, used, keys, challenges, begun>>

OpenReplacement(h) ==
  /\ At(h, "replace")
  /\ Free # {}
  /\ sessions' = Minted(sessions[req[h].sess].imp, Nobody, "return")
  /\ Goto(h, "close")
  /\ UNCHANGED <<users, chosen, codes, used, keys, challenges, begun>>

(* DeleteSession, for a return or a logout. *)
CloseSession(h) ==
  /\ At(h, "close")
  /\ sessions' = Ended({req[h].sess}, IF req[h].op = "stop" THEN "returned" ELSE "closed")
  /\ Goto(h, "done")
  /\ UNCHANGED <<users, chosen, codes, used, keys, challenges, begun>>

-----------------------------------------------------------------------------
(* Passwords and suspension. *)

(* (slip) The sessions of an account whose password is reset are left. *)
SetPasswordHashSlip(h) ==
  /\ At(h, "hash")
  /\ users' = [users EXCEPT ![req[h].who].pw = req[h].new, ![req[h].who].weak = FALSE]
  /\ chosen' = [chosen EXCEPT ![req[h].who] = req[h].new]
  /\ req' = [req EXCEPT ![h] = [NoRequest EXCEPT !.pc = "done", !.mark = SessionsOf(req[h].who)]]
  /\ UNCHANGED <<codes, used, keys, challenges, sessions, begun>>

(* SetPassword, by the account or by staff; mark is what is signed in. *)
SetPasswordHash(h) ==
  /\ At(h, "hash")
  /\ users' = [users EXCEPT ![req[h].who].pw = req[h].new, ![req[h].who].weak = FALSE]
  /\ chosen' = [chosen EXCEPT ![req[h].who] = req[h].new]
  /\ req' = [req EXCEPT ![h].mark = SessionsOf(req[h].who), ![h].pc = "revoke"]
  /\ UNCHANGED <<codes, used, keys, challenges, sessions, begun>>

SetUserSuspended(h) ==
  /\ At(h, "flag")
  /\ users' = [users EXCEPT ![req[h].who].suspended = (req[h].op = "suspend")]
  /\ req' = IF req[h].op = "suspend"
            THEN [req EXCEPT ![h].mark = SessionsOf(req[h].who), ![h].pc = "revoke"]
            ELSE [req EXCEPT ![h] = NoRequest]
  /\ UNCHANGED <<chosen, codes, used, keys, challenges, sessions, begun>>

DeleteUserSessions(h) ==
  /\ At(h, "revoke")
  /\ sessions' = Ended(SessionsOf(req[h].who), "closed")
  /\ Goto(h, "done")
  /\ UNCHANGED <<users, chosen, codes, used, keys, challenges, begun>>

-----------------------------------------------------------------------------
(* Two-factor and passkeys of the own account. *)

(* SetTOTP writes secret and flag, whatever they are by now. *)
SetTOTP(h) ==
  /\ At(h, "secret") \/ At(h, "enable") \/ At(h, "disable")
  /\ users' = [users EXCEPT ![req[h].who].totp = CASE At(h, "secret")  -> "pending"
                                                   [] At(h, "enable")  -> "on"
                                                   [] At(h, "disable") -> "off"]
  /\ Goto(h, IF At(h, "enable") THEN "done" ELSE "codes")
  /\ UNCHANGED <<chosen, codes, used, keys, challenges, sessions, begun>>

(* A setup hands out new codes, turning two-factor off drops them. *)
ReplaceRecoveryCodes(h) ==
  /\ At(h, "codes")
  /\ codes' = [codes EXCEPT ![req[h].who] = IF req[h].op = "setup" THEN Codes ELSE {}]
  /\ used' = [used EXCEPT ![req[h].who] = [c \in Codes |-> 0]]
  /\ Goto(h, "done")
  /\ UNCHANGED <<users, chosen, keys, challenges, sessions, begun>>

CreatePasskey(h) ==
  /\ At(h, "key")
  /\ keys' = keys \cup {req[h].who}
  /\ Goto(h, "done")
  /\ UNCHANGED <<users, chosen, codes, used, challenges, sessions, begun>>

DeletePasskey(h) ==
  /\ At(h, "unkey")
  /\ keys' = keys \ {req[h].who}
  /\ Goto(h, "done")
  /\ UNCHANGED <<users, chosen, codes, used, challenges, sessions, begun>>

-----------------------------------------------------------------------------
(* Time passes: the sweeper drops sessions past their time, a ceremony is  *)
(* forgotten.                                                              *)
PurgeExpiredSessions ==
  /\ \E i \in SessionIds : Open(i) /\ sessions' = Ended({i}, "closed")
  /\ UNCHANGED <<users, chosen, codes, used, keys, challenges, req, begun>>

ChallengeExpires ==
  /\ \E c \in ChallengeIds : /\ challenges[c].purpose # "none"
                             /\ challenges' = [challenges EXCEPT ![c].purpose = "none"]
  /\ UNCHANGED <<users, chosen, codes, used, keys, sessions, req, begun>>

(* The client goes away: the next statement of its request is refused. *)
Cancel(h) ==
  /\ MayCancel
  /\ ~ Resting(h)
  /\ Goto(h, "failed")
  /\ UNCHANGED <<tables, begun>>

Handle(h) ==
  \/ Verify(h) \/ Rehash(h) \/ SecondFactor(h) \/ RedeemRecoveryCode(h)
  \/ StoreChallenge(h) \/ TakeChallenge(h) \/ StartSession(h)
  \/ LookUpSession(h) \/ LoadUser(h) \/ Evict(h) \/ LoadTarget(h)
  \/ LookUpWorn(h) \/ LoadOperator(h) \/ OpenReplacement(h) \/ CloseSession(h)
  \/ SetPasswordHash(h) \/ SetUserSuspended(h) \/ DeleteUserSessions(h)
  \/ SetTOTP(h) \/ ReplaceRecoveryCodes(h)
  \/ CreatePasskey(h) \/ DeletePasskey(h)

Next ==
  \/ \E h \in Handlers : BeginLogin(h) \/ BeginWith(h) \/ Handle(h) \/ Cancel(h)
  \/ PurgeExpiredSessions
  \/ ChallengeExpires

Spec == Init /\ [][Next]_vars
-----------------------------------------------------------------------------
(* A recovery code and a passkey challenge let in one login each, however  *)
(* many ask at the same time: taking them is the check.                    *)
OneTimeProofsOnce ==
  /\ \A u \in Users, c \in Codes : used[u][c] <= 1
  /\ \A c \in ChallengeIds : challenges[c].used <= 1

(* Staff wear customer accounts only, straight from a session of their     *)
(* own: the one named on the session is the hand on the keyboard.          *)
NoSecondHop ==
  \A i \in SessionIds : Used(i) /\ sessions[i].imp # Nobody =>
    /\ sessions[i].user \notin Staff
    /\ sessions[i].imp \in Staff
    /\ \E j \in 1 .. i - 1 : sessions[j].user = sessions[i].imp /\ sessions[j].imp = Nobody

(* Whatever interrupts a return, an impersonated session it ended has been *)
(* replaced by one of the operator: nobody is left with none.              *)
OperatorComesBack ==
  \A i \in SessionIds : Used(i) /\ sessions[i].end = "returned" =>
    \E j \in i + 1 .. MaxSessions :
      Used(j) /\ sessions[j].user = sessions[i].imp /\ sessions[j].by = "return"

(* A new password or a suspension that was answered has ended whatever was *)
(* signed in when it was written.                                          *)
RevocationIsComplete ==
  \A h \in Handlers :
    At(h, "done") => \A i \in req[h].mark : ~ Open(i)

(* At rest, the password an account signs in with is the last one that was *)
(* set for it.                                                             *)
PasswordSticks ==
  (\A h \in Handlers : Resting(h)) => \A u \in Users : users[u].pw = chosen[u]

(* What every state keeps: its types, proofs that let in once, and staff   *)
(* one step from whom they sign in as.                                     *)
SessionsInv == TypeOK /\ OneTimeProofsOnce /\ NoSecondHop
=============================================================================
