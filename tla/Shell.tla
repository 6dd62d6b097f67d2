------------------------------- MODULE Shell -------------------------------
(***************************************************************************)
(* The console as a whole (web/src/App.jsx, api.js, Login.jsx, passkey.js, *)
(* StatusRail.jsx): who a tab takes itself to be, the login form and its   *)
(* second step, signing in as a customer and back, signing out, the rail   *)
(* that asks by itself, and what an answer that says "unauthorized" does.  *)
(*                                                                         *)
(* The tabs of a browser share one cookie.  A call carries the cookie of   *)
(* the moment it is sent; the browser replaces or clears it when the       *)
(* headers of the answer arrive, and the page goes on only when it has     *)
(* read the body.  Calls are served, arrive and are taken up in any order. *)
(* A user waits for what was begun in a tab, the rail waits for nobody.    *)
(* Sessions are numbered as they are opened; 0 is no session.              *)
(*                                                                         *)
(* A definition marked (slip) is a plausible mistake in the one that       *)
(* follows it and is used nowhere.                                         *)
(***************************************************************************)
EXTENDS Naturals, FiniteSets, Sequences

CONSTANTS Tabs,
          Operator,     \* the account that signs in as others
          Customers,    \* the accounts it may sign in as
          None,         \* no account
          Factors,      \* second factors asked for: "none", "totp", "passkey", "both"
          Supported,    \* whether the browser offers passkeys
          MayFail,      \* whether calls are lost
          MayExpire,    \* whether sessions end by themselves
          MaxOps,       \* bound: what users begin
          MaxRails      \* bound: calls of the rail in flight

ASSUME ShellAssumption ==
  /\ IsFiniteSet(Tabs)
  /\ Operator \notin Customers /\ None \notin Customers \cup {Operator}
  /\ Factors \subseteq {"none", "totp", "passkey", "both"}
  /\ {Supported, MayFail, MayExpire} \subseteq BOOLEAN
  /\ MaxOps \in Nat /\ MaxRails \in Nat

VARIABLES sessions,  \* whose the sessions opened so far are
          live,      \* those the server still honours
          cookie,    \* the session the browser's cookie names
          factor,    \* what the accounts ask for after the password
          me,        \* who each tab takes itself to be
          screen,    \* what each tab shows
          login,     \* its login form: idle, busy, or waiting for a passkey
          needsCode, \* whether the form asks for a code
          rail,      \* whose figures its rail shows
          heard,     \* whether it took up an answer since the account came
          calls,     \* calls sent and not yet taken up
          ops,       \* what users began
          lost,      \* history: an answer to who one is, to a sign-out or to a return failed or was lost
          cut,       \* history: one that replaced the cookie was cut off after its headers
          shed,      \* history: an answer that is no 401 took the cookie away
          crossed    \* history: a 401 met an account that came after it was asked

history == <<lost, cut, shed, crossed>>
server == <<sessions, live, factor>>
forms == <<login, needsCode>>
panel == <<me, screen, rail, heard>>
vars == <<server, cookie, forms, panel, calls, ops, history>>

Users == Customers \cup {Operator}
Identity == [user: Users, by: {Operator, None}]
Nobody == [user |-> None, by |-> None]
Sids == 0..(MaxOps + 1)  \* one at the start, and one for whatever is begun
Call == [tab: Tabs, op: {"me", "login", "logout", "impersonate", "stop", "rail"},
         user: Users \cup {None}, given: {"none", "code", "passkey"}, as: Identity \cup {Nobody},
         mounted: BOOLEAN, quiet: BOOLEAN, sid: Sids, got: Sids,
         stage: {"sent", "ok", "unauthorized", "passkey wanted", "code wanted", "refused"},
         sets: {"keep", "clear", "got"}, here: BOOLEAN]

TypeOK ==
  /\ sessions \in Seq(Identity) /\ Len(sessions) <= MaxOps + 1
  /\ live \subseteq DOMAIN sessions /\ cookie \in Sids
  /\ factor \in Factors
  /\ me \in [Tabs -> Identity \cup {Nobody}]
  /\ screen \in [Tabs -> {"loading", "login", "panel"}]
  /\ login \in [Tabs -> {"idle", "busy", "prompt"}] /\ needsCode \in [Tabs -> BOOLEAN]
  /\ rail \in [Tabs -> Users \cup {None}] /\ heard \in [Tabs -> BOOLEAN]
  /\ calls \subseteq Call
  /\ ops \in 0..MaxOps /\ {lost, cut, shed, crossed} \subseteq BOOLEAN

Own(t) == {c \in calls : c.tab = t /\ c.op # "rail"}
Rails(t) == {c \in calls : c.tab = t /\ c.op = "rail"}

\* The cookie is another account's already, the page is still reading whose.
Changing(t) == \E c \in Own(t) : c.here /\ c.sets = "got"

\* A call: the account shown when it was sent, whether that was about to
\* change, and then what the server says and does to the cookie, and whether
\* the headers are there.
Sent(t, op, quiet) ==
  [tab |-> t, op |-> op, user |-> None, given |-> "none", as |-> me[t], mounted |-> TRUE,
   quiet |-> quiet, sid |-> cookie, got |-> 0, stage |-> "sent", sets |-> "keep", here |-> FALSE]
Plain(t, op) == Sent(t, op, ~Changing(t))

\* Tabs that are loaded with or without a session.
Init ==
  /\ sessions \in {<<>>, <<[user |-> Operator, by |-> None]>>}
  /\ live = DOMAIN sessions /\ cookie = Len(sessions)
  /\ factor \in Factors
  /\ me = [t \in Tabs |-> Nobody] /\ screen = [t \in Tabs |-> "loading"]
  /\ login = [t \in Tabs |-> "idle"] /\ needsCode = [t \in Tabs |-> FALSE]
  /\ rail = [t \in Tabs |-> None] /\ heard = [t \in Tabs |-> FALSE]
  /\ ops = 0
  /\ calls = {Sent(t, "me", TRUE) : t \in Tabs}
  /\ lost = FALSE /\ cut = FALSE /\ shed = FALSE /\ crossed = FALSE

Staff(x) == x.user = Operator
Send(c) == calls' = calls \cup {c}
Begin(t) == Own(t) = {} /\ ops < MaxOps /\ ops' = ops + 1

----------------------------------------------------------------------------
(* What users do.                                                          *)

\* The password, and the code where the form asks for one.
Submit(t, u) ==
  /\ screen[t] = "login" /\ login[t] = "idle" /\ Begin(t)
  /\ login' = [login EXCEPT ![t] = "busy"]
  /\ \E given \in {"none"} \cup (IF needsCode[t] THEN {"code"} ELSE {}) :
       Send([Plain(t, "login") EXCEPT !.user = u, !.given = given])
  /\ UNCHANGED <<server, cookie, panel, needsCode, history>>

\* The passkey is there: the password again, with it.
Assert(t, u) ==
  /\ login[t] = "prompt"
  /\ login' = [login EXCEPT ![t] = "busy"]
  /\ Send([Plain(t, "login") EXCEPT !.user = u, !.given = "passkey"])
  /\ UNCHANGED <<server, cookie, panel, needsCode, ops, history>>

\* "Cancelling the browser's prompt is not a failure": a code will do for an
\* account that has one.
CancelPrompt(t) ==
  /\ login[t] = "prompt"
  /\ login' = [login EXCEPT ![t] = "idle"]
  /\ needsCode' = [needsCode EXCEPT ![t] = @ \/ factor = "both"]
  /\ UNCHANGED <<server, cookie, panel, calls, ops, history>>

LogInAs(t, u) ==
  /\ screen[t] = "panel" /\ me[t].user = Operator /\ u \in Customers /\ Begin(t)
  /\ Send([Plain(t, "impersonate") EXCEPT !.user = u])
  /\ UNCHANGED <<server, cookie, panel, forms, history>>

BackToMyAccount(t) ==
  /\ screen[t] = "panel" /\ me[t].by # None /\ Begin(t)
  /\ Send(Plain(t, "stop"))
  /\ UNCHANGED <<server, cookie, panel, forms, history>>

Logout(t) ==
  /\ screen[t] = "panel" /\ Begin(t)
  /\ Send(Plain(t, "logout"))
  /\ UNCHANGED <<server, cookie, panel, forms, history>>

\* The rail asks when it is drawn and at every tick of its interval; the calls
\* of the page on screen are like it.
Tick(t) ==
  /\ screen[t] = "panel" /\ Cardinality(Rails(t)) < MaxRails
  /\ Send(Plain(t, "rail"))
  /\ UNCHANGED <<server, cookie, panel, forms, ops, history>>

----------------------------------------------------------------------------
(* The server.                                                             *)

Open(x) == sessions' = Append(sessions, x)
Next1 == Len(sessions) + 1

Answer(c, stage, sid, sets) ==
  calls' = (calls \ {c}) \cup {[c EXCEPT !.stage = stage, !.got = sid, !.sets = sets]}
Answers(c, stage, sets) == Answer(c, stage, 0, sets) /\ UNCHANGED <<sessions, live>>

\* What is still asked of an account once its password is right.
Wants(given) ==
  CASE factor = "none" -> "nothing"
    [] factor = "totp" -> IF given = "code" THEN "nothing" ELSE "code wanted"
    [] factor = "passkey" -> IF given = "passkey" THEN "nothing" ELSE "passkey wanted"
    [] factor = "both" -> IF given = "none" THEN "passkey wanted" ELSE "nothing"

ServeLogin(c) ==
  /\ c.op = "login"
  /\ \/ Answers(c, "refused", "keep")
     \/ Wants(c.given) # "nothing" /\ Answers(c, Wants(c.given), "keep")
     \/ /\ Wants(c.given) = "nothing"
        /\ Open([user |-> c.user, by |-> None])
        /\ live' = live \cup {Next1}
        /\ Answer(c, "ok", Next1, "got")

\* Who one is, and what the rail asks.
ServeRead(c) == c.op \in {"me", "rail"} /\ c.sid \in live /\ Answer(c, "ok", c.sid, "keep") /\ UNCHANGED <<sessions, live>>

\* A session that could not be deleted is only logged; the cookie goes anyway.
ServeLogout(c) ==
  /\ c.op = "logout" /\ c.sid \in live
  /\ live' = live \ {c.sid} \/ (MayFail /\ live' = live)
  /\ Answer(c, "ok", c.sid, "clear")
  /\ UNCHANGED sessions

\* A new session for the customer; the operator's stays.  Nobody goes on from
\* a customer's, nor to an account that is suspended.
ServeImpersonate(c) ==
  /\ c.op = "impersonate" /\ c.sid \in live
  /\ \/ Answers(c, "refused", "keep")
     \/ /\ sessions[c.sid].user = Operator
        /\ Open([user |-> c.user, by |-> Operator])
        /\ live' = live \cup {Next1}
        /\ Answer(c, "ok", Next1, "got")

\* A fresh session for the operator, and then the customer's ends.  An operator
\* who is gone or suspended has nothing to return to: the session ends there.
ServeStop(c) ==
  /\ c.op = "stop" /\ c.sid \in live
  /\ \/ sessions[c.sid].by = None /\ Answers(c, "refused", "keep")
     \/ /\ sessions[c.sid].by # None
        /\ Open([user |-> sessions[c.sid].by, by |-> None])
        /\ live' = (live \ {c.sid}) \cup {Next1}
        /\ Answer(c, "ok", Next1, "got")
     \/ /\ MayExpire /\ sessions[c.sid].by # None
        /\ live' = live \ {c.sid} /\ UNCHANGED sessions
        /\ Answer(c, "unauthorized", 0, "clear")

\* The store fails before the fresh session is opened, or before the customer's
\* is deleted.
StopFails(c) ==
  /\ MayFail /\ c.op = "stop" /\ c.sid \in live
  /\ \/ UNCHANGED <<sessions, live>>
     \/ /\ sessions[c.sid].by # None
        /\ Open([user |-> sessions[c.sid].by, by |-> None])
        /\ live' = live \cup {Next1}
  /\ Answer(c, "refused", 0, "keep")

\* No cookie, or a session that is not honoured.  One that expired is deleted
\* when it is used again, so that is when it ends here.
ServeNobody(c) ==
  /\ c.op # "login" /\ (c.sid \notin live \/ MayExpire)
  /\ live' = live \ {c.sid} /\ UNCHANGED sessions
  /\ Answer(c, "unauthorized", 0, IF c.sid = 0 THEN "keep" ELSE "clear")

\* An account found suspended: all its sessions end, and the answer is a 403
\* that takes the cookie away.
ServeSuspended(c) ==
  /\ MayExpire /\ c.op # "login" /\ c.sid \in live
  /\ live' = {s \in live : sessions[s].user # sessions[c.sid].user} /\ UNCHANGED sessions
  /\ Answer(c, "refused", 0, "clear")

\* A session that could not be looked up: a 500 that takes the cookie away too.
ServeFault(c) == MayFail /\ c.op # "login" /\ c.sid # 0 /\ Answers(c, "refused", "clear")

Serve(c) ==
  /\ c.stage = "sent"
  /\ \/ /\ \/ ServeLogin(c) \/ ServeRead(c) \/ ServeLogout(c) \/ ServeImpersonate(c) \/ ServeStop(c)
           \/ ServeNobody(c) \/ ServeSuspended(c) \/ ServeFault(c)
        /\ UNCHANGED lost
     \/ StopFails(c) /\ lost' = TRUE
  /\ UNCHANGED <<cookie, factor, panel, forms, ops, cut, shed, crossed>>

\* The headers are there: the browser does to the cookie what they say,
\* whatever session it names by now.
Arrive(c) ==
  /\ c.stage # "sent" /\ ~c.here
  /\ calls' = (calls \ {c}) \cup {[c EXCEPT !.here = TRUE]}
  /\ cookie' = CASE c.sets = "got" -> c.got [] c.sets = "clear" -> 0 [] c.sets = "keep" -> cookie
  /\ shed' = (shed \/ (c.sets = "clear" /\ c.stage = "refused"))
  /\ crossed' = (crossed \/ (c.stage = "unauthorized" /\ cookie \notin {0, c.sid}))
  /\ UNCHANGED <<server, panel, forms, ops, lost, cut>>

\* A call that does not arrive, or whose answer does not, or not to its end.
\* A 401 is acted on before its body is read.
Lose(c) ==
  /\ MayFail /\ (c.stage = "refused" => c.sets = "clear" /\ ~c.here) /\ ~(c.here /\ c.stage = "unauthorized")
  /\ calls' = (calls \ {c}) \cup {[c EXCEPT !.stage = "refused", !.got = 0, !.sets = "keep", !.here = TRUE]}
  /\ lost' = (lost \/ c.op \in {"me", "logout", "stop"})
  /\ cut' = (cut \/ (c.here /\ c.sets = "got"))
  /\ UNCHANGED <<server, cookie, panel, forms, ops, shed, crossed>>

----------------------------------------------------------------------------
(* Answers.                                                                *)

\* The rail is not drawn without an account, and its effects start over when
\* the account becomes staff or stops being staff: what it had asked is dropped.
Unmounts(t, x) == x = Nobody \/ Staff(x) # Staff(me[t])

\* (slip) What was asked for another account is not dropped.
BecomeSlip(t, c, x) ==
  /\ me' = [me EXCEPT ![t] = x]
  /\ screen' = [screen EXCEPT ![t] = IF x = Nobody THEN "login" ELSE "panel"]
  /\ rail' = [rail EXCEPT ![t] = IF x = Nobody THEN None ELSE @]
  /\ heard' = [heard EXCEPT ![t] = FALSE]
  /\ login' = [login EXCEPT ![t] = IF x = Nobody /\ screen[t] = "login" THEN @ ELSE "idle"]
  /\ needsCode' = [needsCode EXCEPT ![t] = @ /\ x = Nobody /\ screen[t] = "login"]
  /\ calls' = calls \ {c}

\* A login form that comes is a new one; one that stays keeps its state.  The
\* figures of the rail stay until its next answer.
Become(t, c, x) ==
  /\ me' = [me EXCEPT ![t] = x]
  /\ screen' = [screen EXCEPT ![t] = IF x = Nobody THEN "login" ELSE "panel"]
  /\ rail' = [rail EXCEPT ![t] = IF x = Nobody THEN None ELSE @]
  /\ heard' = [heard EXCEPT ![t] = FALSE]
  /\ login' = [login EXCEPT ![t] = IF x = Nobody /\ screen[t] = "login" THEN @ ELSE "idle"]
  /\ needsCode' = [needsCode EXCEPT ![t] = @ /\ x = Nobody /\ screen[t] = "login"]
  /\ calls' = {IF d.tab = t /\ Unmounts(t, x) THEN [d EXCEPT !.mounted = FALSE] ELSE d : d \in calls \ {c}}

Stays(c) == calls' = calls \ {c} /\ UNCHANGED panel

\* (slip) An impersonation leaves the page as it was.
TakeIdentitySlip(c) ==
  /\ c.here /\ c.stage = "ok" /\ c.op \in {"me", "login", "impersonate", "stop"}
  /\ IF c.op = "impersonate" THEN Stays(c) /\ UNCHANGED forms ELSE Become(c.tab, c, sessions[c.got])
  /\ UNCHANGED <<server, cookie, ops, history>>

\* Who the answer says the session is.  A login and a return to one's own
\* account bring an account, an impersonation is marked by the page.
TakeIdentity(c) ==
  /\ c.here /\ c.stage = "ok" /\ c.op \in {"me", "login", "impersonate", "stop"}
  /\ Become(c.tab, c, sessions[c.got])
  /\ UNCHANGED <<server, cookie, ops, history>>

\* Signing out, and anything that goes wrong with who one is: back to the form.
SignOut(c) ==
  /\ c.here
  /\ \/ c.op = "logout" /\ c.stage \in {"ok", "refused"}
     \/ c.op \in {"me", "stop"} /\ c.stage = "refused"
  /\ Become(c.tab, c, Nobody)
  /\ UNCHANGED <<server, cookie, ops, history>>

\* "Everywhere else a 401 does mean the session is gone": the tab that sent the
\* call signs out, whoever it is by now or is about to be.
Unauthorized(c) ==
  /\ c.here /\ c.stage = "unauthorized"
  /\ crossed' = (crossed \/ cookie \notin {0, c.sid} \/ Changing(c.tab))
  /\ Become(c.tab, c, Nobody)
  /\ UNCHANGED <<server, cookie, ops, lost, cut, shed>>

TakeRail(c) ==
  /\ c.op = "rail" /\ c.here /\ c.stage \in {"ok", "refused"}
  /\ calls' = calls \ {c}
  /\ IF c.mounted /\ ~Staff(me[c.tab])
     THEN /\ rail' = [rail EXCEPT ![c.tab] = IF c.stage = "ok" THEN sessions[c.got].user ELSE None]
          /\ heard' = [heard EXCEPT ![c.tab] = TRUE]
     ELSE UNCHANGED <<rail, heard>>
  /\ UNCHANGED <<server, cookie, me, screen, forms, ops, history>>

\* (slip) The form is not freed by the step that asks for a code.
TakeNoSlip(c) ==
  /\ c.here /\ c.op \in {"login", "impersonate"} /\ c.stage \in {"passkey wanted", "code wanted", "refused"}
  /\ Stays(c)
  /\ login' = [login EXCEPT ![c.tab] =
       IF c.stage = "refused" THEN "idle" ELSE IF c.stage = "passkey wanted" /\ Supported THEN "prompt" ELSE @]
  /\ needsCode' = [needsCode EXCEPT ![c.tab] = @ \/ (c.stage = "code wanted" /\ c.given # "passkey")]
  /\ UNCHANGED <<server, cookie, ops, history>>

\* The login form says what it is asked next; an impersonation that failed says so.
TakeNo(c) ==
  /\ c.here /\ c.op \in {"login", "impersonate"} /\ c.stage \in {"passkey wanted", "code wanted", "refused"}
  /\ Stays(c)
  /\ login' = [login EXCEPT ![c.tab] =
       IF c.stage = "passkey wanted" /\ Supported /\ c.given # "passkey" THEN "prompt" ELSE "idle"]
  /\ needsCode' = [needsCode EXCEPT ![c.tab] = @ \/ (c.stage = "code wanted" /\ c.given # "passkey")]
  /\ UNCHANGED <<server, cookie, ops, history>>

Take == \E c \in calls : TakeIdentity(c) \/ SignOut(c) \/ Unauthorized(c) \/ TakeRail(c) \/ TakeNo(c)
Arrives == (\E c \in calls : Serve(c) \/ Arrive(c) \/ Lose(c)) \/ Take

\* The browser's prompt is answered by somebody or ends by itself.
PromptEnds(t) == \/ \E u \in Users : Assert(t, u)
                 \/ CancelPrompt(t)

Next ==
  \/ \E t \in Tabs :
       \/ \E u \in Users : Submit(t, u) \/ LogInAs(t, u)
       \/ BackToMyAccount(t) \/ Logout(t) \/ Tick(t) \/ PromptEnds(t)
  \/ Arrives

\* Calls of users are served, and their answers arrive and are taken up.
OwnArrives == \E c \in calls : c.op # "rail" /\
  (Serve(c) \/ Arrive(c) \/ TakeIdentity(c) \/ SignOut(c) \/ Unauthorized(c) \/ TakeNo(c))

Spec == Init /\ [][Next]_vars /\ WF_vars(OwnArrives) /\ \A t \in Tabs : WF_vars(PromptEnds(t))

----------------------------------------------------------------------------
(* What makes the shell correct.                                           *)

Alone == Cardinality(Tabs) = 1

\* A tab that is alone knows who it is once everything that arrived was taken up
\* and what its user began is answered: a panel is the one of the session the
\* cookie names, unless a 403 or a 500 took the cookie away (middleware.go:173-195
\* clears it on any error), and a login form means that there is no session, or a
\* dead one.  Excepted are answers lost or cut off where the page has nothing
\* else to go by, and a 401 that crossed a change of account (README).
Settled(t) == Own(t) = {} /\ \A c \in Rails(t) : ~c.here
KnowsWhoItIs ==
  Alone /\ ~lost /\ ~cut /\ ~crossed =>
    \A t \in Tabs : Settled(t) =>
      /\ screen[t] = "panel" => \/ cookie # 0 /\ sessions[cookie] = me[t]
                                \/ cookie = 0 /\ shed
      /\ screen[t] = "login" => cookie \notin live

\* "The interface has to be able to say whose account this is and whose it is
\* not, on every page, or an operator will forget which one they are looking
\* at and act on the wrong account" (auth_handlers.go:120-122): what a tab that is
\* alone sends is carried out as the account it shows.  Excepted is what it sends
\* between the headers and the body of an answer that changes the account, when
\* the cookie is ahead of the page, and for good if that body never comes.
ActsAsShown ==
  Alone /\ ~cut => \A c \in calls : c.op = "rail" /\ c.stage = "ok" /\ c.quiet => sessions[c.got] = c.as

\* What every state keeps: its types, and calls carried out as the account shown.
ShellInv == TypeOK /\ ActsAsShown

\* Once the rail has taken up an answer since the account came, it shows that
\* account's figures or none: a customer's that come late are not the next one's.
\* Until then it keeps what it showed (StatusRail.jsx:22), the last customer's.
RailIsOfMe ==
  Alone /\ ~cut => \A t \in Tabs : heard[t] /\ Own(t) = {} => rail[t] \in {None, me[t].user}

\* The login form does not stay busy, whatever the passkey prompt does.
LoginEnds == \A t \in Tabs : login[t] # "idle" ~> login[t] = "idle"
=============================================================================
