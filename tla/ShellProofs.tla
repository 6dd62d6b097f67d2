---------------------------- MODULE ShellProofs ----------------------------
(***************************************************************************)
(* What Shell guarantees for every set of customers, whatever is refused,  *)
(* lost or arrives late: a tab that is alone acts as the account it shows, *)
(* knows who it is once it is quiet, and its rail shows no figures of      *)
(* another account, with the exceptions each theorem names.                *)
(*                                                                         *)
(* The invariant says which call a tab waits for (OneOwn, InPlace), what   *)
(* an answer on its way can say and do to the cookie (Answered, Sets),     *)
(* that no more sessions are opened than were asked for (Counted), and of  *)
(* a tab that is alone that the cookie is the panel's unless an answer     *)
(* here is about to change the account or to sign the tab out (AloneTab),  *)
(* so that a call is sent in the session of the account shown (AloneCall). *)
(***************************************************************************)
EXTENDS Shell, FiniteSetTheorems, SequenceTheorems, TLAPS

(* The calls and the tabs that may yet open a session for what was begun.  *)
Opening(c) == c.op \in {"login", "impersonate", "stop"} /\ c.stage \in {"sent", "passkey wanted"}
Due(t) == login[t] = "prompt" \/ \E c \in calls : c.tab = t /\ Opening(c)
Dues == {t \in Tabs : Due(t)}

Counted == Len(sessions) + Cardinality(Dues) <= ops + 1

(* A tab waits for one call of its user's at a time.                       *)
OneOwn ==
  \A c, d \in calls : c.tab = d.tab /\ c.op # "rail" /\ d.op # "rail" => c = d

(* What an answer can say.                                                 *)
Answered(c) ==
  /\ c.sid <= Len(sessions)
  /\ c.stage = "sent" => ~c.here
  /\ c.stage = "ok" => c.got \in DOMAIN sessions
  /\ c.stage = "ok" /\ c.op \in {"me", "rail", "logout"} => c.got = c.sid
  /\ c.stage = "ok" /\ c.op = "impersonate" => sessions[c.got].user # Operator
  /\ c.stage = "ok" /\ c.op = "stop" => sessions[c.got].user = Operator
  /\ c.stage = "unauthorized" => c.op # "login" /\ c.sid \notin live /\ (c.sid # 0 => c.sets = "clear")
  /\ c.stage \in {"passkey wanted", "code wanted"} => c.op = "login"
  /\ c.op = "login" => c.user \in Users
  /\ c.op = "impersonate" => c.user \in Customers

(* What an answer does to the cookie.                                      *)
Sets(c) ==
  /\ c.sets = "got" <=> c.stage = "ok" /\ c.op \in {"login", "impersonate", "stop"}
  /\ c.stage = "ok" /\ c.op \in {"me", "rail"} => c.sets = "keep"
  /\ c.stage = "ok" /\ c.op = "logout" => c.sets = "clear"
  /\ c.op = "login" => c.sets # "clear"

(* Where the tab is that waits for it.                                     *)
InPlace(c) ==
  /\ c.op = "me" => screen[c.tab] = "loading"
  /\ c.op = "login" => screen[c.tab] = "login"
  /\ c.op = "impersonate" => me[c.tab] = Nobody \/ me[c.tab].user = Operator
  /\ c.op = "stop" => me[c.tab] = Nobody \/ me[c.tab].user # Operator
  /\ c.op = "rail" => screen[c.tab] # "loading"
  /\ c.op = "rail" /\ c.mounted => screen[c.tab] = "panel" /\ c.as.user = me[c.tab].user

TabInv(t) ==
  /\ screen[t] = "panel" <=> me[t] # Nobody
  /\ me[t].by # None => me[t].user # Operator
  /\ login[t] = "prompt" => screen[t] = "login" /\ Own(t) = {}

(* An answer is here that signs the tab out.                               *)
Going(t) == \E d \in calls : d.tab = t /\ d.here /\ (d.stage = "unauthorized" \/ d.op = "logout")

(* A tab that is alone has the cookie to itself.                           *)
AloneCall(c) ==
  /\ c.op = "me" => cookie = c.sid \/ (c.here /\ c.sets = "clear")
  /\ c.op # "rail" /\ c.here /\ c.sets = "clear" => cookie = 0
  /\ c.here /\ c.sets = "got" => /\ cookie \in {0, c.got}
                                /\ (cookie = c.got \/ shed \/ crossed \/ Going(c.tab))
  /\ c.op = "rail" /\ c.quiet /\ ~cut => c.sid = 0 \/ sessions[c.sid] = c.as
  /\ c.op = "rail" /\ c.mounted /\ ~c.quiet => cut \/ Changing(c.tab)
  /\ c.op = "stop" /\ ~cut => c.sid = 0 \/ sessions[c.sid].by # None
  /\ c.stage = "refused" /\ c.op \in {"me", "logout", "stop"} => lost \/ cut \/ c.sets = "clear"

AloneTab(t) ==
  /\ screen[t] = "panel" /\ ~cut /\ ~Changing(t) => cookie = 0 \/ sessions[cookie] = me[t]
  /\ screen[t] = "panel" => cookie # 0 \/ shed \/ crossed \/ Going(t)
  /\ screen[t] = "login" /\ ~lost /\ ~cut /\ ~crossed /\ ~Changing(t) => cookie \notin live
  /\ heard[t] /\ ~cut /\ ~Changing(t) => rail[t] \in {None, me[t].user}

AloneInv == (\A c \in calls : AloneCall(c)) /\ (\A t \in Tabs : AloneTab(t))

(* Nobody is signed in as the operator by the operator.                    *)
OnBehalf(s) == \A i \in DOMAIN s : s[i].by # None => s[i].user # Operator

IInv ==
  /\ TypeOK
  /\ cookie <= Len(sessions)
  /\ OnBehalf(sessions)
  /\ Counted
  /\ OneOwn
  /\ \A c \in calls : Answered(c) /\ Sets(c) /\ InPlace(c)
  /\ \A t \in Tabs : TabInv(t)
  /\ Alone => AloneInv

----------------------------------------------------------------------------
(* Lemmas on tabs, sessions and counts.                                    *)

LEMMA AloneIsOne == ASSUME Alone, NEW t \in Tabs, NEW u \in Tabs PROVE t = u
BY ShellAssumption, FS_Singleton DEF Alone, ShellAssumption

LEMMA SessionFacts ==
  ASSUME NEW s \in Seq(Identity)
  PROVE  /\ Len(s) \in Nat /\ DOMAIN s = 1..Len(s)
         /\ \A i \in 1..Len(s) : s[i] \in Identity /\ s[i] # Nobody
<1>1. \A x \in Identity : x.user \in Users
  BY DEF Identity
<1>2. Nobody.user = None /\ None \notin Users
  BY ShellAssumption DEF Nobody, Users, ShellAssumption
<1>3. Nobody \notin Identity
  BY <1>1, <1>2
<1> QED BY <1>3

LEMMA CallFacts ==
  ASSUME sessions \in Seq(Identity), NEW c \in Call, Answered(c)
  PROVE  /\ c.sid \in Nat /\ c.sid <= Len(sessions) /\ (c.sid # 0 => c.sid \in 1..Len(sessions))
         /\ c.stage = "ok" => c.got \in 1..Len(sessions)
<1>1. c.sid \in Nat /\ Len(sessions) \in Nat /\ DOMAIN sessions = 1..Len(sessions)
  <2>1. c.sid \in Sids
    BY DEF Call
  <2>2. c.sid \in Nat
    BY <2>1, ShellAssumption DEF Sids, ShellAssumption
  <2> QED BY <2>2, SessionFacts
<1>2. c.sid <= Len(sessions)
  BY DEF Answered
<1>3. c.stage = "ok" => c.got \in 1..Len(sessions)
  BY <1>1 DEF Answered
<1> QED BY <1>1, <1>2, <1>3

LEMMA StateFacts ==
  ASSUME IInv
  PROVE  /\ sessions \in Seq(Identity) /\ Len(sessions) \in Nat /\ DOMAIN sessions = 1..Len(sessions)
         /\ cookie \in Nat /\ cookie <= Len(sessions) /\ live \subseteq 1..Len(sessions) /\ 0 \notin live
         /\ lost \in BOOLEAN /\ cut \in BOOLEAN /\ shed \in BOOLEAN /\ crossed \in BOOLEAN
         /\ Counted /\ ops \in Nat /\ ops <= MaxOps /\ OnBehalf(sessions) /\ calls \subseteq Call
         /\ \A c \in calls : c \in Call /\ c.tab \in Tabs /\ Answered(c) /\ Sets(c) /\ InPlace(c)
<1>1. sessions \in Seq(Identity) /\ live \subseteq DOMAIN sessions
  BY DEF IInv, TypeOK
<1>2. Len(sessions) \in Nat /\ DOMAIN sessions = 1..Len(sessions) /\ 0 \notin live
  BY <1>1, SessionFacts
<1>3. /\ cookie \in Nat /\ cookie <= Len(sessions)
      /\ lost \in BOOLEAN /\ cut \in BOOLEAN /\ shed \in BOOLEAN /\ crossed \in BOOLEAN
      /\ Counted /\ ops \in Nat /\ ops <= MaxOps /\ OnBehalf(sessions)
  BY ShellAssumption DEF IInv, TypeOK, Sids, ShellAssumption
<1>4. ASSUME NEW c \in calls PROVE c \in Call /\ c.tab \in Tabs /\ Answered(c) /\ Sets(c) /\ InPlace(c)
  BY DEF IInv, TypeOK, Call
<1> QED BY <1>1, <1>2, <1>3, <1>4

LEMMA OpenFacts ==
  ASSUME NEW s \in Seq(Identity), NEW x \in Identity, NEW r, r = Append(s, x)
  PROVE  /\ r \in Seq(Identity) /\ Len(r) = Len(s) + 1 /\ r[Len(s) + 1] = x
         /\ \A i \in 1..Len(s) : r[i] = s[i]
BY AppendProperties

LEMMA CountFacts ==
  ASSUME NEW D \in SUBSET Tabs, NEW E \in SUBSET Tabs
  PROVE  /\ Cardinality(D) \in Nat /\ Cardinality(E) \in Nat
         /\ E \subseteq D => Cardinality(E) <= Cardinality(D)
         /\ \A t \in Tabs : E \subseteq D \cup {t} => Cardinality(E) <= Cardinality(D) + 1
         /\ \A t \in D : E \subseteq D \ {t} => Cardinality(E) + 1 <= Cardinality(D)
<1>1. IsFiniteSet(D) /\ IsFiniteSet(E)
  BY ShellAssumption, FS_Subset DEF ShellAssumption
<1>2. Cardinality(D) \in Nat /\ Cardinality(E) \in Nat
  BY <1>1, FS_CardinalityType
<1>3. E \subseteq D => Cardinality(E) <= Cardinality(D)
  BY <1>1, FS_Subset
<1>4. ASSUME NEW t \in Tabs, E \subseteq D \cup {t} PROVE Cardinality(E) <= Cardinality(D) + 1
  <2>1. IsFiniteSet(D \cup {t}) /\ (Cardinality(D \cup {t}) = Cardinality(D) \/ Cardinality(D \cup {t}) = Cardinality(D) + 1)
    BY <1>1, FS_AddElement
  <2>2. Cardinality(E) <= Cardinality(D \cup {t})
    BY <1>4, <2>1, FS_Subset
  <2> QED BY <1>2, <2>1, <2>2
<1>5. ASSUME NEW t \in D, E \subseteq D \ {t} PROVE Cardinality(E) + 1 <= Cardinality(D)
  <2>1. IsFiniteSet(D \ {t}) /\ Cardinality(D \ {t}) = Cardinality(D) - 1
    BY <1>1, FS_RemoveElement
  <2>2. Cardinality(E) <= Cardinality(D \ {t})
    BY <1>5, <2>1, FS_Subset
  <2> QED BY <1>2, <2>1, <2>2
<1> QED BY <1>2, <1>3, <1>4, <1>5

(* A session is opened for something begun, and for each thing once.       *)
LEMMA CountedKeeps ==
  ASSUME Counted, Len(sessions) \in Nat, Len(sessions') \in Nat, ops \in Nat, ops' \in Nat,
         \/ Dues' \subseteq Dues /\ Len(sessions') = Len(sessions) /\ ops' = ops
         \/ \E t \in Tabs : Dues' \subseteq Dues \cup {t} /\ Len(sessions') = Len(sessions) /\ ops' = ops + 1
         \/ \E t \in Dues : Dues' \subseteq Dues \ {t} /\ Len(sessions') = Len(sessions) + 1 /\ ops' = ops
  PROVE  Counted' /\ Len(sessions') <= ops' + 1
<1>1. PICK D \in SUBSET Tabs : D = Dues
  BY DEF Dues
<1>2. PICK E \in SUBSET Tabs : E = Dues'
  BY DEF Dues
<1>3. Len(sessions) + Cardinality(D) <= ops + 1
  BY <1>1 DEF Counted
<1>4. Len(sessions') + Cardinality(E) <= ops' + 1 /\ Cardinality(E) \in Nat
  BY <1>1, <1>2, <1>3, CountFacts
<1>5. Counted'
  BY <1>2, <1>4 DEF Counted
<1> QED BY <1>4, <1>5

----------------------------------------------------------------------------
(* What users begin.                                                       *)

Fresh(r, t) ==
  /\ r.tab = t /\ r.stage = "sent" /\ ~r.here /\ r.sets = "keep" /\ r.sid = cookie /\ r.as = me[t]
  /\ r.quiet <=> ~Changing(t)

LEMMA SendKeeps ==
  ASSUME IInv, NEW t \in Tabs, NEW r \in Call, Send(r), Fresh(r, t), r.op # "me",
         r.op # "rail" => Own(t) = {},
         r.op = "login" => screen[t] = "login" /\ r.user \in Users,
         r.op # "login" => screen[t] = "panel",
         r.op = "impersonate" => me[t].user = Operator /\ r.user \in Customers,
         r.op = "stop" => me[t].by # None,
         login' = IF r.op = "login" THEN [login EXCEPT ![t] = "busy"] ELSE login,
         \/ ops' = ops + 1 /\ ops < MaxOps
         \/ ops' = ops /\ (r.op = "rail" \/ t \in Dues),
         UNCHANGED <<server, cookie, panel, needsCode, history>>
  PROVE  IInv'
<1> USE DEF server, panel, history
<1>0. calls' = calls \cup {r} /\ sessions \in Seq(Identity) /\ ops \in Nat /\ ops' \in Nat /\ calls \subseteq Call
  BY ShellAssumption DEF IInv, TypeOK, Send, ShellAssumption
<1>f. /\ r.tab = t /\ r.stage = "sent" /\ ~r.here /\ r.sets = "keep" /\ r.sid = cookie /\ r.as = me[t]
      /\ r.quiet <=> ~Changing(t)
  BY DEF Fresh
<1>1. TypeOK'
  BY <1>0, ShellAssumption DEF IInv, TypeOK, ShellAssumption
<1>2. (cookie <= Len(sessions))' /\ OnBehalf(sessions)'
  BY DEF IInv, OnBehalf
<1>3. Counted'
  <2>1. ASSUME NEW u \in Tabs, Due(u)', u # t PROVE Due(u)
    BY <1>0, <1>f, <2>1 DEF Due, IInv, TypeOK
  <2>2. r.op = "rail" => (Due(t)' => Due(t))
    BY <1>0, <1>f DEF Due, Opening, IInv, TypeOK
  <2>3. Dues' \subseteq Dues \cup {t} /\ (r.op = "rail" => Dues' \subseteq Dues)
    BY <2>1, <2>2 DEF Dues
  <2>4. Counted /\ Len(sessions) \in Nat /\ Len(sessions') = Len(sessions)
    BY <1>0, SessionFacts DEF IInv
  <2> QED BY <1>0, <2>3, <2>4, CountedKeeps
<1>4. OneOwn'
  BY <1>0, <1>f DEF IInv, OneOwn, Own
<1>5. ASSUME NEW c \in calls' PROVE Answered(c)' /\ Sets(c)' /\ InPlace(c)'
  <2>1. CASE c \in calls
    <3>1. Answered(c)'
      BY <2>1 DEF IInv, Answered
    <3> QED BY <2>1, <3>1 DEF IInv, Sets, InPlace
  <2>2. CASE c = r
    <3>1. Answered(r)'
      BY <1>2, <1>f DEF Answered
    <3>2. me[t].by # None => me[t].user # Operator
      BY DEF IInv, TabInv
    <3>3. InPlace(r)' /\ Sets(r)'
      BY <1>f, <3>2 DEF InPlace, Sets
    <3> QED BY <2>2, <3>1, <3>3
  <2> QED BY <1>0, <2>1, <2>2
<1>6. ASSUME NEW u \in Tabs PROVE TabInv(u)'
  <2>1. TabInv(u)
    BY DEF IInv
  <2>2. login'[u] = "prompt" => login[u] = "prompt"
    BY <1>0 DEF IInv, TypeOK
  <2>3. r.op # "rail" => login'[t] # "prompt"
    BY DEF IInv, TypeOK, TabInv
  <2> QED BY <1>0, <1>f, <2>1, <2>2, <2>3 DEF TabInv, Own
<1>7. ASSUME Alone PROVE AloneInv'
  <2>0. ASSUME NEW u PROVE (Changing(u)' <=> Changing(u)) /\ (Going(u)' <=> Going(u))
    BY <1>0, <1>f DEF Changing, Going, Own
  <2>1. \A u \in Tabs : AloneTab(u)'
    BY <1>7, <2>0 DEF IInv, AloneInv, AloneTab
  <2>2. AloneCall(r)'
    <3>1. AloneTab(t)
      BY <1>7 DEF IInv, AloneInv
    <3>2. r.op # "rail" => ~Changing(t)
      BY DEF Changing
    <3> QED BY <1>f, <2>0, <3>1, <3>2 DEF AloneTab, AloneCall
  <2>3. \A c \in calls : AloneCall(c)'
    BY <1>7, <2>0 DEF IInv, AloneInv, AloneCall
  <2> QED BY <1>0, <2>1, <2>2, <2>3 DEF AloneInv
<1> QED BY <1>1, <1>2, <1>3, <1>4, <1>5, <1>6, <1>7 DEF IInv, Alone

LEMMA CancelKeeps == ASSUME IInv, NEW t \in Tabs, CancelPrompt(t) PROVE IInv'
<1> USE DEF server, panel, history
<1>0. login' = [login EXCEPT ![t] = "idle"]
  BY DEF CancelPrompt
<1>1. TypeOK'
  BY ShellAssumption DEF IInv, TypeOK, ShellAssumption, CancelPrompt
<1>2. (cookie <= Len(sessions))' /\ OnBehalf(sessions)' /\ OneOwn'
  BY DEF IInv, OneOwn, OnBehalf, CancelPrompt
<1>3. Counted'
  <2>1. \A u \in Tabs : Due(u)' => Due(u)
    BY <1>0 DEF Due, IInv, TypeOK, CancelPrompt
  <2>2. Dues' \subseteq Dues
    BY <2>1 DEF Dues
  <2>3. Counted /\ Len(sessions) \in Nat /\ ops \in Nat
    BY SessionFacts, ShellAssumption DEF IInv, TypeOK, ShellAssumption
  <2> QED BY <2>2, <2>3, CountedKeeps DEF CancelPrompt
<1>4. \A c \in calls' : Answered(c)' /\ Sets(c)' /\ InPlace(c)'
  BY DEF IInv, Answered, Sets, InPlace, CancelPrompt
<1>5. \A u \in Tabs : TabInv(u)'
  BY <1>0 DEF IInv, TypeOK, TabInv, Own, CancelPrompt
<1>6. (Alone => AloneInv)'
  BY DEF IInv, Alone, AloneInv, AloneCall, AloneTab, Changing, Going, Own, CancelPrompt
<1> QED BY <1>1, <1>2, <1>3, <1>4, <1>5, <1>6 DEF IInv

----------------------------------------------------------------------------
(* What the server does.                                                   *)

(* An answer that opens a session is the last one of what asked for it.    *)
Opens(c, d) ==
  \/ Len(sessions') = Len(sessions)
  \/ Len(sessions') = Len(sessions) + 1 /\ c.op # "rail" /\ Opening(c) /\ ~Opening(d)

Same(c, d) ==
  /\ d.tab = c.tab /\ d.op = c.op /\ d.user = c.user /\ d.as = c.as /\ d.mounted = c.mounted
  /\ d.quiet = c.quiet /\ d.sid = c.sid

LEMMA AnswerKeeps ==
  ASSUME IInv, NEW c \in calls, NEW d \in Call, calls' = (calls \ {c}) \cup {d},
         Same(c, d), OnBehalf(sessions)',
         sessions' \in Seq(Identity),
         \A k \in 1..Len(sessions) : sessions'[k] = sessions[k],
         Opens(c, d),
         Opening(d) => Opening(c),
         live' \in SUBSET DOMAIN sessions', live' \subseteq live \cup {Len(sessions) + 1},
         Answered(d)', Sets(d),
         cookie' \in Nat, cookie' <= Len(sessions'),
         lost' \in BOOLEAN, cut' \in BOOLEAN, shed' \in BOOLEAN, crossed' \in BOOLEAN,
         Alone => AloneInv',
         UNCHANGED <<factor, panel, forms, ops>>
  PROVE  IInv'
<1> USE DEF forms, panel
<1>0. /\ calls' = (calls \ {c}) \cup {d} /\ calls \subseteq Call
      /\ c.tab \in Tabs
      /\ d.tab = c.tab /\ d.op = c.op /\ d.user = c.user /\ d.as = c.as /\ d.mounted = c.mounted /\ d.sid = c.sid
  BY DEF IInv, TypeOK, Call, Same
<1>9. sessions \in Seq(Identity) /\ ops \in Nat /\ Counted
  BY ShellAssumption DEF IInv, TypeOK, ShellAssumption
<1>2. /\ Len(sessions) \in Nat /\ DOMAIN sessions = 1..Len(sessions)
      /\ Len(sessions') \in Nat /\ DOMAIN sessions' = 1..Len(sessions')
      /\ Len(sessions) <= Len(sessions')
  BY <1>9, SessionFacts DEF Opens
<1>1. Counted' /\ Len(sessions') <= ops' + 1
  <2>1. ASSUME NEW u \in Tabs, u # c.tab, Due(u)' PROVE Due(u)
    BY <1>0, <2>1 DEF Due
  <2>2. CASE Len(sessions') = Len(sessions)
    <3>1. Due(c.tab)' => Due(c.tab)
      BY <1>0, <1>2, <2>2 DEF Due
    <3>2. Dues' \subseteq Dues
      BY <2>1, <3>1 DEF Dues
    <3>3. Len(sessions') = Len(sessions) /\ ops' = ops
      BY <1>2, <2>2
    <3> QED BY <1>2, <1>9, <3>2, <3>3, CountedKeeps
  <2>3. CASE Len(sessions') = Len(sessions) + 1 /\ c.op # "rail" /\ Opening(c) /\ ~Opening(d)
    <3>2. Due(c.tab)
      BY <2>3 DEF Due
    <3>3. login[c.tab] # "prompt"
      BY <1>0, <2>3 DEF IInv, TabInv, Own
    <3>4. ~Due(c.tab)'
      BY <1>0, <2>3, <3>3 DEF Due, IInv, OneOwn, Opening
    <3>5. c.tab \in Dues /\ Dues' \subseteq Dues \ {c.tab}
      BY <1>0, <2>1, <3>2, <3>4 DEF Dues
    <3> QED BY <1>2, <1>9, <2>3, <3>5, CountedKeeps
  <2> QED BY <2>2, <2>3 DEF Opens
<1>3. TypeOK'
  <2>1. calls' \subseteq Call
    BY <1>0
  <2>2. sessions' \in Seq(Identity) /\ Len(sessions') <= MaxOps + 1
    BY <1>1, <1>2, ShellAssumption DEF IInv, TypeOK, ShellAssumption
  <2>3. cookie' \in Sids
    BY <1>1, <1>2, ShellAssumption DEF IInv, TypeOK, Sids, ShellAssumption
  <2> QED BY <2>1, <2>2, <2>3 DEF IInv, TypeOK
<1>5. OneOwn'
  BY <1>0 DEF IInv, OneOwn
<1>6. ASSUME NEW e \in calls' PROVE Answered(e)' /\ Sets(e)' /\ InPlace(e)'
  <2>1. CASE e \in calls
    <3>1. Answered(e) /\ Sets(e) /\ InPlace(e) /\ e \in Call
      BY <1>0, <2>1 DEF IInv
    <3>2. /\ e.sid \in Nat /\ e.sid <= Len(sessions)
          /\ e.stage = "ok" => e.got \in 1..Len(sessions)
      BY <1>9, <3>1, CallFacts
    <3>3. /\ e.sid <= Len(sessions')
          /\ e.stage = "ok" => e.got \in DOMAIN sessions' /\ sessions'[e.got] = sessions[e.got]
      BY <1>2, <3>2
    <3>4. e.sid \in live' => e.sid \in live
      BY <1>2, <3>2
    <3>5. Answered(e)'
      BY <3>1, <3>3, <3>4 DEF Answered
    <3> QED BY <3>1, <3>5 DEF Sets, InPlace
  <2>2. CASE e = d
    <3>1. InPlace(d)'
      BY <1>0 DEF IInv, InPlace
    <3>2. Sets(d)'
      BY DEF Sets
    <3> QED BY <2>2, <3>1, <3>2
  <2> QED BY <1>0, <2>1, <2>2
<1>7. ASSUME NEW u \in Tabs PROVE TabInv(u)'
  <2>1. TabInv(u)
    BY DEF IInv
  <2> QED BY <1>0, <2>1 DEF TabInv, Own
<1> QED BY <1>1, <1>3, <1>5, <1>6, <1>7 DEF IInv, Alone

(* Until the headers are there nothing of a tab changes.                   *)
LEMMA ServedKeeps ==
  ASSUME IInv, NEW c \in calls, NEW d \in Call, calls' = (calls \ {c}) \cup {d},
         Same(c, d), ~c.here, ~d.here, OnBehalf(sessions)',
         sessions' \in Seq(Identity),
         \A k \in 1..Len(sessions) : sessions'[k] = sessions[k],
         Opens(c, d),
         Opening(d) => Opening(c),
         live' \in SUBSET DOMAIN sessions', live' \subseteq live \cup {Len(sessions) + 1},
         Answered(d)', Sets(d),
         lost' \in BOOLEAN, lost => lost',
         d.stage = "refused" /\ c.op \in {"me", "logout", "stop"} => lost' \/ (Alone => cut) \/ d.sets = "clear",
         UNCHANGED <<cookie, factor, panel, forms, ops, cut, shed, crossed>>
  PROVE  IInv'
<1> USE DEF forms, panel
<1>0. /\ calls \subseteq Call /\ sessions \in Seq(Identity) /\ cookie \in Nat /\ cookie <= Len(sessions)
      /\ d.tab = c.tab /\ d.op = c.op /\ d.as = c.as /\ d.mounted = c.mounted /\ d.quiet = c.quiet /\ d.sid = c.sid
      /\ cut \in BOOLEAN /\ shed \in BOOLEAN /\ crossed \in BOOLEAN
  BY ShellAssumption DEF IInv, TypeOK, Sids, ShellAssumption, Same
<1>2. /\ Len(sessions) \in Nat /\ DOMAIN sessions = 1..Len(sessions)
      /\ Len(sessions') \in Nat /\ Len(sessions) <= Len(sessions')
  BY <1>0, SessionFacts DEF Opens
<1>3. ASSUME Alone PROVE AloneInv'
  <2>0. ASSUME NEW u PROVE (Changing(u)' <=> Changing(u)) /\ (Going(u)' <=> Going(u))
    BY <1>0 DEF Changing, Going, Own
  <2>1. ASSUME NEW u \in Tabs PROVE AloneTab(u)'
    <3>1. AloneTab(u)
      BY <1>3 DEF IInv, AloneInv
    <3>2. cookie # 0 => sessions'[cookie] = sessions[cookie]
      BY <1>0, <1>2
    <3>3. cookie \in live' => cookie \in live
      BY <1>0, <1>2
    <3> QED BY <2>0, <3>1, <3>2, <3>3 DEF AloneTab
  <2>2. ASSUME NEW e \in calls PROVE e.sid # 0 => e.sid \in 1..Len(sessions) /\ sessions'[e.sid] = sessions[e.sid]
    BY <1>0, CallFacts DEF IInv
  <2>3. ASSUME NEW e \in calls PROVE AloneCall(e)'
    <3>1. AloneCall(e)
      BY <1>3 DEF IInv, AloneInv
    <3> QED BY <2>0, <2>2, <3>1 DEF AloneCall
  <2>4. AloneCall(d)'
    <3>1. AloneCall(c) /\ (c.sid # 0 => sessions'[c.sid] = sessions[c.sid])
      BY <1>3, <2>2 DEF IInv, AloneInv
    <3> QED BY <1>0, <1>3, <2>0, <3>1 DEF AloneCall
  <2> QED BY <2>1, <2>3, <2>4 DEF AloneInv
<1>4. cookie' \in Nat /\ cookie' <= Len(sessions')
  BY <1>0, <1>2
<1> QED BY <1>0, <1>3, <1>4, AnswerKeeps

LEMMA NoSid == 0 \in Sids
BY ShellAssumption DEF Sids, ShellAssumption

Stages == {"ok", "unauthorized", "passkey wanted", "code wanted", "refused"}
Effects == {"keep", "clear", "got"}

Said(c, stage, got, sets) == [c EXCEPT !.stage = stage, !.got = got, !.sets = sets]

LEMMA SaidFacts ==
  ASSUME NEW c \in Call, NEW got \in Sids, NEW sets \in Effects, NEW stage \in Stages
  PROVE  \E d \in Call : /\ d = Said(c, stage, got, sets) /\ Same(c, d) /\ d.here = c.here
                         /\ d.stage = stage /\ d.got = got /\ d.sets = sets
<1>1. PICK d : d = Said(c, stage, got, sets)
  OBVIOUS
<1>2. d \in Call
  BY <1>1 DEF Said, Call, Stages, Effects
<1>3. PICK a : a = [c EXCEPT !.stage = stage]
  OBVIOUS
<1>4. /\ a.tab = c.tab /\ a.op = c.op /\ a.user = c.user /\ a.as = c.as /\ a.mounted = c.mounted
      /\ a.quiet = c.quiet /\ a.sid = c.sid /\ a.here = c.here /\ a.stage = stage /\ a \in Call
  BY <1>3 DEF Call, Stages
<1>5. PICK b : b = [a EXCEPT !.got = got]
  OBVIOUS
<1>6. /\ b.tab = a.tab /\ b.op = a.op /\ b.user = a.user /\ b.as = a.as /\ b.mounted = a.mounted
      /\ b.quiet = a.quiet /\ b.sid = a.sid /\ b.here = a.here /\ b.stage = a.stage /\ b.got = got /\ b \in Call
  BY <1>4, <1>5 DEF Call
<1>7. d = [b EXCEPT !.sets = sets]
  BY <1>1, <1>3, <1>5 DEF Said
<1>8. /\ d.tab = b.tab /\ d.op = b.op /\ d.user = b.user /\ d.as = b.as /\ d.mounted = b.mounted
      /\ d.quiet = b.quiet /\ d.sid = b.sid /\ d.here = b.here /\ d.stage = b.stage /\ d.got = b.got /\ d.sets = sets
  BY <1>6, <1>7 DEF Call
<1> QED BY <1>1, <1>2, <1>4, <1>6, <1>8 DEF Same

LEMMA UnmountFacts ==
  ASSUME NEW d \in Call, NEW b, b = [d EXCEPT !.mounted = FALSE]
  PROVE  /\ b \in Call /\ b.tab = d.tab /\ b.op = d.op /\ b.user = d.user /\ b.as = d.as
         /\ b.sid = d.sid /\ b.stage = d.stage /\ b.got = d.got
         /\ b.sets = d.sets /\ b.here = d.here /\ b.quiet = d.quiet /\ ~b.mounted
<1>1. b \in Call
  BY DEF Call
<1> QED BY <1>1 DEF Call

(* What an answer that opens no session says, and what one that does says. *)
Says(c, stage, got, sets) ==
  /\ got = 0 \/ got = c.sid
  /\ sets \in {"keep", "clear"}
  /\ stage = "ok" => c.op \in {"me", "rail", "logout"} /\ got = c.sid /\ c.sid \in live
  /\ stage = "ok" => (sets = "clear" <=> c.op = "logout")
  /\ stage = "unauthorized" => c.op # "login" /\ c.sid \notin live' /\ (c.sid # 0 => sets = "clear")
  /\ stage \in {"passkey wanted", "code wanted"} => c.op = "login"
  /\ c.op = "login" => sets = "keep"
  /\ lost' \in BOOLEAN /\ (lost => lost')
  /\ stage = "refused" /\ c.op \in {"me", "logout", "stop"} => lost' \/ (Alone => cut) \/ sets = "clear"
Opened(stage, got, sets) ==
  \/ stage = "ok" /\ got = Next1 /\ sets = "got" /\ lost' = lost
  \/ stage = "refused" /\ got = 0 /\ sets = "keep" /\ lost' = TRUE

(* An answer opens no session, or one for somebody else or for oneself.    *)
LEMMA AnswersKeeps ==
  ASSUME IInv, NEW c \in calls, c.stage = "sent",
         NEW stage \in Stages, NEW got, NEW sets, Says(c, stage, got, sets),
         Answer(c, stage, got, sets), sessions' = sessions, live' \subseteq live,
         UNCHANGED <<cookie, factor, panel, forms, ops, cut, shed, crossed>>
  PROVE  IInv'
<1>0. c \in Call /\ Answered(c) /\ sessions \in Seq(Identity) /\ c.sid \in Sids /\ 0 \in Sids
  <2>1. c \in Call /\ Answered(c) /\ sessions \in Seq(Identity)
    BY StateFacts
  <2> QED BY <2>1, NoSid DEF Call
<1>1. ~c.here
  BY <1>0 DEF Answered
<1>a. PICK d \in Call : /\ d = Said(c, stage, got, sets) /\ Same(c, d) /\ d.here = c.here
                       /\ d.stage = stage /\ d.got = got /\ d.sets = sets
  <2>1. got \in Sids
    BY <1>0 DEF Says
  <2>2. sets \in Effects
    BY DEF Says, Effects
  <2> QED BY <1>0, <2>1, <2>2, SaidFacts
<1>2. Same(c, d) /\ d.stage = stage /\ d.got = got /\ d.sets = sets /\ ~d.here /\ ~c.here
  BY <1>1, <1>a
<1>3. calls' = (calls \ {c}) \cup {d} /\ live' \in SUBSET DOMAIN sessions' /\ Len(sessions') = Len(sessions)
  BY <1>a, StateFacts DEF Answer, Said
<1>4. Answered(d)'
  BY <1>0, <1>2, <1>3, StateFacts DEF Answered, Same, Says, Stages
<1>5. Sets(d) /\ (Opening(d) => Opening(c)) /\ Opens(c, d) /\ OnBehalf(sessions)'
  BY <1>2, <1>3, StateFacts DEF Sets, Opening, Opens, Same, OnBehalf, Says, Stages
<1> QED BY <1>0, <1>2, <1>3, <1>4, <1>5, ServedKeeps DEF Says

LEMMA OpenKeeps ==
  ASSUME IInv, NEW c \in calls, c.stage = "sent", c.op \in {"login", "impersonate", "stop"},
         NEW x \in Identity, Open(x), live' \subseteq live \cup {Next1},
         x.by # None => x.user # Operator,
         NEW stage, NEW got, NEW sets, Answer(c, stage, got, sets), Opened(stage, got, sets),
         c.op = "impersonate" => x.user # Operator,
         c.op = "stop" => x.user = Operator,
         UNCHANGED <<cookie, factor, panel, forms, ops, cut, shed, crossed>>
  PROVE  IInv'
<1>0. /\ c \in Call /\ c.tab \in Tabs /\ Answered(c) /\ sessions \in Seq(Identity) /\ Len(sessions) \in Nat
      /\ Next1 = Len(sessions) + 1
  BY StateFacts DEF Next1
<1>1. Len(sessions) + 1 \in Sids /\ 0 \in Sids
  <2>1. PICK D \in SUBSET Tabs : D = Dues
    BY DEF Dues
  <2>2. c.tab \in D
    BY <1>0, <2>1 DEF Dues, Due, Opening
  <2>3. Cardinality(D) \in Nat /\ Cardinality({c.tab}) = 1 /\ Cardinality({c.tab}) <= Cardinality(D)
    BY <2>2, CountFacts, FS_Singleton
  <2>4. Len(sessions) + Cardinality(D) <= ops + 1
    BY <2>1, StateFacts DEF Counted
  <2> QED BY <1>0, <2>3, <2>4, StateFacts, ShellAssumption DEF Sids, ShellAssumption
<1>2. got \in Sids /\ sets \in {"keep", "clear", "got"} /\ ~c.here
  BY <1>0, <1>1 DEF Answered, Opened
<1>a. PICK d \in Call : /\ d = Said(c, stage, got, sets) /\ Same(c, d) /\ d.here = c.here
                       /\ d.stage = stage /\ d.got = got /\ d.sets = sets
  <2>1. sets \in Effects /\ stage \in Stages
    BY DEF Effects, Stages, Opened
  <2> QED BY <1>0, <1>2, <2>1, SaidFacts
<1>3. Same(c, d) /\ d.stage = stage /\ d.got = got /\ d.sets = sets /\ ~d.here /\ ~c.here
  BY <1>2, <1>a
<1>4. calls' = (calls \ {c}) \cup {d}
  BY <1>a DEF Answer, Said
<1>5. /\ sessions' \in Seq(Identity) /\ Len(sessions') = Len(sessions) + 1
      /\ sessions'[Len(sessions) + 1] = x
      /\ \A k \in 1..Len(sessions) : sessions'[k] = sessions[k]
  BY <1>0, OpenFacts DEF Open
<1>6. DOMAIN sessions' = 1..(Len(sessions) + 1)
  BY <1>5, SessionFacts
<1>7. live' \in SUBSET DOMAIN sessions' /\ live' \subseteq live \cup {Len(sessions) + 1}
  BY <1>0, <1>6, StateFacts
<1>8. Answered(d)'
  <2>1. c.sid \in Nat /\ c.sid <= Len(sessions)
    BY <1>0, CallFacts
  <2>2. d.sid <= Len(sessions')
    BY <1>0, <1>3, <1>5, <2>1 DEF Same
  <2>3. stage = "ok" => d.got \in DOMAIN sessions' /\ sessions'[d.got] = x
    BY <1>0, <1>3, <1>5, <1>6 DEF Opened
  <2>4. (c.op = "impersonate" => c.user \in Customers) /\ (c.op = "login" => c.user \in Users)
    BY <1>0 DEF Answered
  <2> QED BY <1>3, <2>2, <2>3, <2>4 DEF Answered, Same, Opened
<1>9. Sets(d) /\ c.op # "rail" /\ Opening(c) /\ ~Opening(d) /\ Opens(c, d)
  BY <1>3, <1>5 DEF Sets, Opening, Opens, Same, Opened
<1>10. OnBehalf(sessions)'
  <2> SUFFICES ASSUME NEW k \in DOMAIN sessions', sessions'[k].by # None PROVE sessions'[k].user # Operator
    BY DEF OnBehalf
  <2> QED BY <1>0, <1>5, <1>6, StateFacts DEF OnBehalf
<1>11. lost' \in BOOLEAN /\ (lost => lost') /\ (stage = "refused" => lost')
  <2>1. lost \in BOOLEAN
    BY StateFacts
  <2>2. CASE stage = "ok" /\ lost' = lost
    BY <2>1, <2>2
  <2>3. CASE stage = "refused" /\ lost' = TRUE
    BY <2>3
  <2> QED BY <2>2, <2>3 DEF Opened
<1> QED BY <1>3, <1>4, <1>5, <1>7, <1>8, <1>9, <1>10, <1>11, ServedKeeps

LEMMA ServeKeeps == ASSUME IInv, NEW c \in calls, Serve(c) PROVE IInv'
<1>0. /\ c \in Call /\ c.stage = "sent" /\ Answered(c) /\ lost \in BOOLEAN /\ c.sid \in Nat
      /\ UNCHANGED <<cookie, factor, panel, forms, ops, cut, shed, crossed>> /\ 0 \notin live
      /\ (c.sid \in live => sessions[c.sid] \in Identity)
      /\ OnBehalf(sessions)
  BY StateFacts, SessionFacts, CallFacts DEF Serve
<1>1. ASSUME ServeLogin(c), lost' = lost PROVE IInv'
  <2>1. CASE Answers(c, "refused", "keep")
    BY <1>0, <1>1, <2>1, AnswersKeeps DEF ServeLogin, Answers, Says, Stages
  <2>2. CASE Wants(c.given) # "nothing" /\ Answers(c, Wants(c.given), "keep")
    <3>1. PICK w : w = Wants(c.given)
      OBVIOUS
    <3>2. w \in {"passkey wanted", "code wanted"}
      <4>1. factor \in {"none", "totp", "passkey", "both"}
        BY ShellAssumption DEF IInv, TypeOK, ShellAssumption
      <4> QED BY <2>2, <3>1, <4>1 DEF Wants
    <3>3. Answer(c, w, 0, "keep") /\ UNCHANGED <<sessions, live>> /\ c.op = "login"
      BY <1>1, <2>2, <3>1 DEF Answers, ServeLogin
    <3> QED BY <1>0, <1>1, <3>2, <3>3, AnswersKeeps DEF Says, Stages
  <2>3. CASE Open([user |-> c.user, by |-> None]) /\ live' = live \cup {Next1} /\ Answer(c, "ok", Next1, "got")
    <3>1. c.user \in Users /\ c.op = "login"
      BY <1>0, <1>1 DEF ServeLogin, Answered
    <3>2. PICK x \in Identity : x = [user |-> c.user, by |-> None]
      BY <3>1 DEF Identity
    <3>3. x.by = None
      BY <3>2
    <3> QED BY <1>0, <1>1, <2>3, <3>1, <3>2, <3>3, OpenKeeps DEF Opened
  <2> QED BY <1>1, <2>1, <2>2, <2>3 DEF ServeLogin
<1>2. ASSUME ServeRead(c), lost' = lost PROVE IInv'
  BY <1>0, <1>2, AnswersKeeps DEF ServeRead, Says, Stages
<1>3. ASSUME ServeLogout(c), lost' = lost PROVE IInv'
  <2>1. live' \subseteq live
    BY <1>3 DEF ServeLogout
  <2> QED BY <1>0, <1>3, <2>1, AnswersKeeps DEF ServeLogout, Says, Stages
<1>4. ASSUME ServeImpersonate(c), lost' = lost PROVE IInv'
  <2>1. CASE Answers(c, "refused", "keep")
    BY <1>0, <1>4, <2>1, AnswersKeeps DEF ServeImpersonate, Answers, Says, Stages
  <2>2. CASE Open([user |-> c.user, by |-> Operator]) /\ live' = live \cup {Next1} /\ Answer(c, "ok", Next1, "got")
    <3>1. c.user \in Customers /\ c.user # Operator /\ c.op = "impersonate"
      BY <1>0, <1>4, ShellAssumption DEF ServeImpersonate, Answered, ShellAssumption
    <3>2. PICK x \in Identity : x = [user |-> c.user, by |-> Operator]
      BY <3>1 DEF Identity, Users
    <3>3. x.user # Operator
      BY <3>1, <3>2
    <3> QED BY <1>0, <1>4, <2>2, <3>1, <3>2, <3>3, OpenKeeps DEF Opened
  <2> QED BY <1>4, <2>1, <2>2 DEF ServeImpersonate
<1>5. ASSUME c.sid \in live, sessions[c.sid].by # None
      PROVE  \E x \in Identity : /\ x = [user |-> sessions[c.sid].by, by |-> None]
                                 /\ x.by = None /\ x.user = Operator
  <2>1. sessions[c.sid].by = Operator
    BY <1>0, <1>5 DEF Identity
  <2>2. PICK x \in Identity : x = [user |-> sessions[c.sid].by, by |-> None]
    BY <2>1 DEF Identity, Users
  <2> QED BY <2>1, <2>2
<1>6. ASSUME ServeStop(c), lost' = lost PROVE IInv'
  <2>0. c.op = "stop" /\ c.sid \in live
    BY <1>6 DEF ServeStop
  <2>1. CASE sessions[c.sid].by = None /\ Answers(c, "refused", "keep")
    <3>1. Alone => cut
      BY <1>0, <2>0, <2>1 DEF IInv, AloneInv, AloneCall
    <3> QED BY <1>0, <1>6, <2>0, <2>1, <3>1, AnswersKeeps DEF Answers, Says, Stages
  <2>2. CASE /\ sessions[c.sid].by # None
             /\ Open([user |-> sessions[c.sid].by, by |-> None])
             /\ live' = (live \ {c.sid}) \cup {Next1}
             /\ Answer(c, "ok", Next1, "got")
    <3>1. PICK x \in Identity : x = [user |-> sessions[c.sid].by, by |-> None] /\ x.by = None /\ x.user = Operator
      BY <1>5, <2>0, <2>2
    <3>2. live' \subseteq live \cup {Next1}
      BY <2>2
    <3> QED BY <1>0, <1>6, <2>0, <2>2, <3>1, <3>2, OpenKeeps DEF Opened
  <2>3. CASE /\ live' = live \ {c.sid} /\ UNCHANGED sessions
             /\ Answer(c, "unauthorized", 0, "clear")
    BY <1>0, <1>6, <2>0, <2>3, AnswersKeeps DEF Says, Stages
  <2> QED BY <1>6, <2>1, <2>2, <2>3 DEF ServeStop
<1>7. ASSUME ServeNobody(c), lost' = lost PROVE IInv'
  <2>1. PICK sets \in {"keep", "clear"} : Answer(c, "unauthorized", 0, sets) /\ (c.sid # 0 => sets = "clear")
    BY <1>7 DEF ServeNobody
  <2> QED BY <1>0, <1>7, <2>1, AnswersKeeps DEF ServeNobody, Says, Stages
<1>8. ASSUME ServeSuspended(c), lost' = lost PROVE IInv'
  <2>1. live' \subseteq live
    BY <1>8 DEF ServeSuspended
  <2> QED BY <1>0, <1>8, <2>1, AnswersKeeps DEF ServeSuspended, Says, Stages
<1>9. ASSUME ServeFault(c), lost' = lost PROVE IInv'
  BY <1>0, <1>9, AnswersKeeps DEF ServeFault, Answers, Says, Stages
<1>10. ASSUME StopFails(c), lost' = TRUE PROVE IInv'
  <2>0. c.op = "stop" /\ c.sid \in live /\ Answer(c, "refused", 0, "keep")
    BY <1>10 DEF StopFails
  <2>1. CASE UNCHANGED <<sessions, live>>
    BY <1>0, <1>10, <2>0, <2>1, AnswersKeeps DEF Says, Stages
  <2>2. CASE /\ sessions[c.sid].by # None
             /\ Open([user |-> sessions[c.sid].by, by |-> None])
             /\ live' = live \cup {Next1}
    <3>1. PICK x \in Identity : x = [user |-> sessions[c.sid].by, by |-> None] /\ x.by = None /\ x.user = Operator
      BY <1>5, <2>0, <2>2
    <3> QED BY <1>0, <1>10, <2>0, <2>2, <3>1, OpenKeeps DEF Opened
  <2> QED BY <1>10, <2>1, <2>2 DEF StopFails
<1> QED BY <1>1, <1>2, <1>3, <1>4, <1>6, <1>7, <1>8, <1>9, <1>10 DEF Serve

(* The headers of an answer change the cookie and nothing of the page.     *)
LEMMA ArriveKeeps == ASSUME IInv, NEW c \in calls, Arrive(c) PROVE IInv'
<1> USE DEF server, panel, forms
<1>0. /\ c \in Call /\ c.tab \in Tabs /\ c.stage # "sent" /\ ~c.here /\ Answered(c) /\ Sets(c) /\ InPlace(c)
      /\ UNCHANGED <<sessions, live, factor, me, screen, rail, heard, forms, ops, lost, cut>>
  BY StateFacts DEF Arrive
<1>1. PICK d \in Call : d = [c EXCEPT !.here = TRUE]
  BY <1>0 DEF Call
<1>2. Same(c, d) /\ d.stage = c.stage /\ d.got = c.got /\ d.sets = c.sets /\ d.here
  BY <1>0, <1>1 DEF Call, Same
<1>3. calls' = (calls \ {c}) \cup {d}
  BY <1>1 DEF Arrive
<1>4. /\ d.tab = c.tab /\ d.op = c.op /\ d.as = c.as /\ d.mounted = c.mounted /\ d.quiet = c.quiet /\ d.sid = c.sid
      /\ c.stage = "ok" => c.got \in 1..Len(sessions)
  BY <1>0, <1>2, CallFacts, StateFacts DEF Same
<1>5. /\ c.sets = "got" => cookie' = c.got
      /\ c.sets = "clear" => cookie' = 0
      /\ c.sets = "keep" => cookie' = cookie
      /\ c.sets \in {"keep", "clear", "got"}
      /\ shed' \in BOOLEAN /\ (shed => shed') /\ (c.sets = "clear" /\ c.stage = "refused" => shed')
      /\ crossed' \in BOOLEAN /\ (crossed => crossed')
  BY <1>0, StateFacts DEF Arrive, Call
<1>6. cookie' \in Nat /\ cookie' <= Len(sessions')
  BY <1>0, <1>4, <1>5, StateFacts DEF Sets
<1>7. Answered(d)' /\ Sets(d) /\ OnBehalf(sessions)'
  <2>1. Answered(d)'
    BY <1>0, <1>2, <1>4, StateFacts DEF Answered, Same
  <2> QED BY <1>0, <1>2, <1>4, <2>1, StateFacts DEF Sets, OnBehalf
<1>8. ASSUME Alone PROVE AloneInv'
  <2>0. ASSUME NEW u PROVE /\ Going(u) => Going(u)'
                           /\ Changing(u) => Changing(u)'
                           /\ c.sets # "got" => (Changing(u)' => Changing(u))
    BY <1>0, <1>2, <1>3, <1>4 DEF Going, Changing, Own
  <2>1. /\ c.sets = "got" => Changing(c.tab)' /\ c.op # "rail"
        /\ c.sets = "clear" /\ c.stage # "refused" => Going(c.tab)'
    <3>1. c.sets = "got" => c.op # "rail"
      BY <1>0 DEF Sets
    <3>2. c.sets = "clear" /\ c.stage # "refused" => c.stage = "unauthorized" \/ c.op = "logout"
      BY <1>0 DEF Sets, Answered, Call
    <3> QED BY <1>2, <1>3, <1>4, <3>1, <3>2 DEF Changing, Going, Own
  <2>2. ASSUME NEW u \in Tabs PROVE AloneTab(u)'
    <3>1. u = c.tab /\ AloneTab(u)
      BY <1>0, <1>8, <2>2, AloneIsOne DEF IInv, AloneInv
    <3>2. CASE c.sets = "got"
      <4>1. cookie' # 0
        BY <1>0, <1>4, <1>5, <3>2, StateFacts DEF Sets
      <4> QED BY <1>0, <2>1, <3>1, <3>2, <4>1 DEF AloneTab
    <3>3. CASE c.sets = "clear"
      <4>1. shed' \/ Going(u)'
        BY <1>5, <2>1, <3>1, <3>3
      <4>2. cookie' = 0 /\ cookie' \notin live'
        BY <1>0, <1>5, <3>3, StateFacts
      <4> QED BY <1>0, <2>0, <3>1, <3>3, <4>1, <4>2 DEF AloneTab
    <3>4. CASE c.sets = "keep"
      BY <1>0, <1>5, <2>0, <3>1, <3>4 DEF AloneTab
    <3> QED BY <1>5, <3>2, <3>3, <3>4
  <2>3. ASSUME NEW e \in calls, e # c PROVE AloneCall(e)'
    <3>1. AloneCall(e) /\ e.tab = c.tab /\ InPlace(e) /\ Sets(e)
      BY <1>0, <1>8, <2>3, AloneIsOne, StateFacts DEF IInv, AloneInv
    <3>2. e.op = "rail" \/ c.op = "rail"
      BY <2>3, <3>1 DEF IInv, OneOwn
    <3>3. e.op = "me" => FALSE
      BY <1>0, <3>1, <3>2 DEF InPlace
    <3>4. e.here /\ e.sets = "got" => cookie' \in {0, e.got} /\ (cookie' = e.got \/ shed' \/ crossed' \/ Going(e.tab)')
      <4>1. e.here /\ e.sets = "got" => c.op = "rail" /\ c.sets # "got"
        BY <1>0, <3>1, <3>2 DEF Sets
      <4> QED BY <1>5, <2>0, <2>1, <3>1, <4>1 DEF AloneCall
    <3>5. e.op # "rail" /\ e.here /\ e.sets = "clear" => cookie' = 0
      <4>1. e.op # "rail" => c.sets # "got"
        BY <1>0, <3>2 DEF Sets
      <4> QED BY <1>5, <3>1, <4>1 DEF AloneCall
    <3> QED BY <1>0, <2>0, <3>1, <3>3, <3>4, <3>5 DEF AloneCall
  <2>4. AloneCall(d)'
    <3>1. AloneCall(c)
      BY <1>8 DEF IInv, AloneInv
    <3>2. c.op = "me" => cookie' = c.sid \/ c.sets = "clear"
      BY <1>0, <1>5, <3>1 DEF AloneCall, Sets
    <3>3. c.sets = "got" => cookie' = c.got
      BY <1>5
    <3> QED BY <1>0, <1>2, <1>4, <1>5, <2>0, <3>1, <3>2, <3>3 DEF AloneCall
  <2> QED BY <1>3, <2>2, <2>3, <2>4 DEF AloneInv
<1>9. Opens(c, d) /\ (Opening(d) => Opening(c))
  BY <1>0, <1>2, <1>4 DEF Opens, Opening
<1>10. live' \in SUBSET DOMAIN sessions' /\ live' \subseteq live \cup {Len(sessions) + 1} /\ sessions' \in Seq(Identity)
  BY <1>0, StateFacts
<1> QED BY <1>0, <1>2, <1>3, <1>5, <1>6, <1>7, <1>8, <1>9, <1>10, StateFacts, AnswerKeeps

LEMMA LoseKeeps == ASSUME IInv, NEW c \in calls, Lose(c) PROVE IInv'
<1> USE DEF server, panel, forms
<1>0. /\ c \in Call /\ c.tab \in Tabs /\ Answered(c) /\ Sets(c) /\ InPlace(c)
      /\ (c.stage = "refused" => c.sets = "clear" /\ ~c.here) /\ ~(c.here /\ c.stage = "unauthorized")
      /\ UNCHANGED <<sessions, live, cookie, factor, me, screen, rail, heard, forms, ops, shed, crossed>>
      /\ 0 \in Sids
  BY StateFacts, ShellAssumption DEF Lose, Sids, ShellAssumption
<1>1. PICK d \in Call : d = [c EXCEPT !.stage = "refused", !.got = 0, !.sets = "keep", !.here = TRUE]
  BY <1>0 DEF Call
<1>2. Same(c, d) /\ d.stage = "refused" /\ d.got = 0 /\ d.sets = "keep" /\ d.here
  BY <1>0, <1>1 DEF Call, Same
<1>3. calls' = (calls \ {c}) \cup {d}
  BY <1>1 DEF Lose
<1>4. /\ d.tab = c.tab /\ d.op = c.op /\ d.as = c.as /\ d.mounted = c.mounted /\ d.quiet = c.quiet /\ d.sid = c.sid
  BY <1>2 DEF Same
<1>5. /\ lost' \in BOOLEAN /\ (lost => lost') /\ (c.op \in {"me", "logout", "stop"} => lost')
      /\ cut' \in BOOLEAN /\ (cut => cut') /\ (c.here /\ c.sets = "got" => cut')
  BY <1>0, StateFacts DEF Lose, Call
<1>7. Answered(d)' /\ Sets(d) /\ OnBehalf(sessions)'
  <2>1. Answered(d)'
    BY <1>0, <1>2, <1>4, StateFacts DEF Answered, Same
  <2> QED BY <1>0, <1>2, <1>4, <2>1, StateFacts DEF Sets, OnBehalf
<1>8. ASSUME Alone PROVE AloneInv'
  <2>0. ASSUME NEW u PROVE /\ Going(u) => Going(u)'
                           /\ ~cut' => (Changing(u)' <=> Changing(u))
                           /\ Changing(u)' => Changing(u)
    BY <1>0, <1>2, <1>3, <1>4, <1>5 DEF Going, Changing, Own
  <2>1. ASSUME NEW u \in Tabs PROVE AloneTab(u)'
    <3>1. AloneTab(u)
      BY <1>8, <2>1 DEF IInv, AloneInv
    <3> QED BY <1>0, <1>5, <2>0, <3>1 DEF AloneTab
  <2>2. ASSUME NEW e \in calls PROVE AloneCall(e)'
    <3>1. AloneCall(e)
      BY <1>8, <2>2 DEF IInv, AloneInv
    <3> QED BY <1>0, <1>5, <2>0, <3>1 DEF AloneCall
  <2>3. AloneCall(d)'
    <3>1. AloneCall(c)
      BY <1>8 DEF IInv, AloneInv
    <3>2. c.op = "me" => cookie' = c.sid
      BY <1>0, <3>1 DEF AloneCall, Sets, Answered, Call
    <3> QED BY <1>0, <1>2, <1>4, <1>5, <2>0, <3>1, <3>2 DEF AloneCall
  <2> QED BY <1>3, <2>1, <2>2, <2>3 DEF AloneInv
<1>9. Opens(c, d) /\ (Opening(d) => Opening(c))
  BY <1>0, <1>2, <1>4 DEF Opens, Opening
<1>10. live' \in SUBSET DOMAIN sessions' /\ live' \subseteq live \cup {Len(sessions) + 1} /\ sessions' \in Seq(Identity)
  BY <1>0, StateFacts
<1>11. cookie' \in Nat /\ cookie' <= Len(sessions') /\ shed' \in BOOLEAN /\ crossed' \in BOOLEAN
  BY <1>0, StateFacts
<1> QED BY <1>0, <1>2, <1>3, <1>5, <1>7, <1>8, <1>9, <1>10, <1>11, AnswerKeeps

----------------------------------------------------------------------------
(* What the page does with an answer.                                      *)

(* A tab becomes somebody else, or nobody, and is alone with the cookie    *)
(* that says so.                                                           *)
LEMMA BecomeKeeps ==
  ASSUME IInv, NEW c \in calls, NEW t \in Tabs, t = c.tab, NEW x \in Identity \cup {Nobody}, Become(t, c, x),
         x.by # None => x.user # Operator,
         c.op = "rail" => x = Nobody,
         \A d \in calls : d.tab = t /\ d.op = "rail" /\ d.mounted /\ d # c => Unmounts(t, x),
         crossed' \in BOOLEAN, crossed => crossed',
         Alone /\ x # Nobody =>
           /\ cut \/ cookie = 0 \/ sessions[cookie] = x
           /\ \/ cookie # 0 \/ shed \/ crossed
              \/ \E d \in calls \ {c} : d.tab = t /\ d.here /\ (d.stage = "unauthorized" \/ d.op = "logout"),
         Alone /\ x = Nobody /\ ~lost /\ ~cut /\ ~crossed' => cookie \notin live,
         Alone /\ c.op = "rail" /\ Changing(t) => crossed',
         UNCHANGED <<server, cookie, ops, lost, cut, shed>>
  PROVE  IInv'
<1> USE DEF server
<1> DEFINE f(d) == IF d.tab = t /\ Unmounts(t, x) THEN [d EXCEPT !.mounted = FALSE] ELSE d
<1>0. /\ sessions \in Seq(Identity) /\ Len(sessions) \in Nat /\ ops \in Nat /\ Counted
      /\ calls \subseteq Call /\ sessions' = sessions
  BY SessionFacts, ShellAssumption DEF IInv, TypeOK, ShellAssumption
<1>1. calls' = {f(d) : d \in calls \ {c}}
  BY DEF Become
<1>2. ASSUME NEW d \in Call
      PROVE  /\ f(d) \in Call /\ f(d).tab = d.tab /\ f(d).op = d.op /\ f(d).user = d.user /\ f(d).as = d.as
             /\ f(d).sid = d.sid /\ f(d).stage = d.stage /\ f(d).got = d.got
             /\ f(d).sets = d.sets /\ f(d).here = d.here /\ f(d).quiet = d.quiet
             /\ f(d).mounted => d.mounted /\ ~(d.tab = t /\ Unmounts(t, x))
  <2>1. PICK b : b = [d EXCEPT !.mounted = FALSE]
    OBVIOUS
  <2>2. /\ b \in Call /\ b.tab = d.tab /\ b.op = d.op /\ b.user = d.user /\ b.as = d.as
        /\ b.sid = d.sid /\ b.stage = d.stage /\ b.got = d.got
        /\ b.sets = d.sets /\ b.here = d.here /\ b.quiet = d.quiet /\ ~b.mounted
    BY <2>1, UnmountFacts
  <2>3. CASE d.tab = t /\ Unmounts(t, x)
    <3>1. f(d) = b
      BY <2>1, <2>3
    <3> QED BY <2>2, <3>1
  <2>4. CASE ~(d.tab = t /\ Unmounts(t, x))
    <3>1. f(d) = d
      BY <2>4
    <3> QED BY <2>4, <3>1
  <2> QED BY <2>3, <2>4
<1>3. ASSUME NEW e \in calls' PROVE \E d \in calls \ {c} : d \in Call /\ e = f(d)
  BY <1>0, <1>1
<1> HIDE DEF f
<1>4. /\ me' = [me EXCEPT ![t] = x]
      /\ screen' = [screen EXCEPT ![t] = IF x = Nobody THEN "login" ELSE "panel"]
      /\ heard' = [heard EXCEPT ![t] = FALSE]
      /\ login' = [login EXCEPT ![t] = IF x = Nobody /\ screen[t] = "login" THEN @ ELSE "idle"]
      /\ needsCode' = [needsCode EXCEPT ![t] = @ /\ x = Nobody /\ screen[t] = "login"]
      /\ rail' = [rail EXCEPT ![t] = IF x = Nobody THEN None ELSE @]
  BY DEF Become
<1>5. \A d \in calls : d.tab = t => d = c \/ d.op = "rail" \/ c.op = "rail"
  BY DEF IInv, OneOwn
<1>6. TypeOK'
  <2>1. calls' \subseteq Call
    BY <1>2, <1>3
  <2>2. needsCode' \in [Tabs -> BOOLEAN]
    BY <1>4, ZenonT(30) DEF IInv, TypeOK
  <2>3. /\ me' \in [Tabs -> Identity \cup {Nobody}]
        /\ screen' \in [Tabs -> {"loading", "login", "panel"}]
        /\ login' \in [Tabs -> {"idle", "busy", "prompt"}] /\ heard' \in [Tabs -> BOOLEAN]
        /\ rail' \in [Tabs -> Users \cup {None}]
    BY <1>4 DEF IInv, TypeOK
  <2> QED BY <2>1, <2>2, <2>3 DEF IInv, TypeOK
<1>7. Counted'
  <2>1. ASSUME NEW u \in Tabs, Due(u)' PROVE Due(u)
    <3>1. login'[u] = "prompt" => login[u] = "prompt"
      BY <1>4 DEF IInv, TypeOK
    <3>2. ASSUME NEW e \in calls', e.tab = u, Opening(e) PROVE Due(u)
      <4>1. PICK d \in calls \ {c} : d \in Call /\ e = f(d)
        BY <1>3
      <4>2. e.tab = d.tab /\ e.op = d.op /\ e.stage = d.stage
        BY <1>2, <4>1
      <4> QED BY <3>2, <4>1, <4>2 DEF Due, Opening
    <3> QED BY <2>1, <3>1, <3>2 DEF Due
  <2>2. Dues' \subseteq Dues
    BY <2>1 DEF Dues
  <2> QED BY <1>0, <2>2, CountedKeeps
<1>8. OneOwn'
  <2> SUFFICES ASSUME NEW a \in calls', NEW b \in calls', a.tab = b.tab, a.op # "rail", b.op # "rail" PROVE a = b
    BY DEF OneOwn
  <2>1. PICK d \in calls \ {c} : d \in Call /\ a = f(d)
    BY <1>3
  <2>2. PICK e \in calls \ {c} : e \in Call /\ b = f(e)
    BY <1>3
  <2>3. d = e
    BY <1>2, <2>1, <2>2 DEF IInv, OneOwn
  <2> QED BY <2>1, <2>2, <2>3
<1>9. ASSUME NEW e \in calls' PROVE Answered(e)' /\ Sets(e)' /\ InPlace(e)'
  <2>1. PICK d \in calls \ {c} : d \in Call /\ e = f(d)
    BY <1>3
  <2>2. Answered(d) /\ Sets(d) /\ InPlace(d) /\ InPlace(c)
    BY <2>1 DEF IInv
  <2>7. /\ e.op = d.op /\ e.user = d.user /\ e.sid = d.sid /\ e.stage = d.stage /\ e.got = d.got
        /\ e.sets = d.sets /\ e.here = d.here
    BY <1>2, <2>1
  <2>8. Answered(e)'
    BY <1>0, <2>2, <2>7 DEF Answered
  <2>3. Answered(e)' /\ Sets(e)'
    BY <2>2, <2>7, <2>8 DEF Sets
  <2>4. CASE d.tab # t
    <3>1. e = d /\ me'[d.tab] = me[d.tab] /\ screen'[d.tab] = screen[d.tab]
      BY <1>4, <2>1, <2>4 DEF f, IInv, TypeOK, Call
    <3> QED BY <2>2, <2>3, <3>1 DEF InPlace
  <2>5. CASE d.tab = t
    <3>1. me'[t] = x /\ screen'[t] = IF x = Nobody THEN "login" ELSE "panel"
      BY <1>4 DEF IInv, TypeOK
    <3>2. d.op # "rail" => c.op = "rail" /\ x = Nobody
      BY <1>5, <2>1, <2>5
    <3>3. d.op # "me"
      BY <2>2, <2>5, <3>2 DEF InPlace
    <3>4. e.op = "rail" /\ e.mounted => screen'[t] = "panel" /\ e.as.user = x.user
      BY <1>2, <2>1, <2>2, <2>5, <3>1 DEF InPlace, Unmounts
    <3> QED BY <1>2, <2>1, <2>3, <2>5, <3>1, <3>2, <3>3, <3>4 DEF InPlace
  <2> QED BY <2>4, <2>5
<1>10. ASSUME NEW u \in Tabs PROVE TabInv(u)'
  <2>1. TabInv(u)
    BY DEF IInv
  <2>2. Own(u) = {} => Own(u)' = {}
    BY <1>2, <1>3 DEF Own
  <2>3. x # Nobody => (IF x = Nobody THEN "login" ELSE "panel") = "panel"
    OBVIOUS
  <2>4. CASE u = t
    BY <1>4, <2>1, <2>2, <2>4 DEF IInv, TypeOK, TabInv
  <2>5. CASE u # t
    BY <1>4, <2>1, <2>2, <2>5 DEF IInv, TypeOK, TabInv
  <2> QED BY <2>4, <2>5
<1>11. ASSUME Alone PROVE AloneInv'
  <2>0. \A u \in Tabs : u = t
    BY <1>11, AloneIsOne
  <2>1. /\ screen'[t] = IF x = Nobody THEN "login" ELSE "panel"
        /\ me'[t] = x /\ ~heard'[t]
    BY <1>4 DEF IInv, TypeOK
  <2>2. ASSUME NEW d \in calls \ {c}, d \in Call, d.tab = t, d.here,
               d.stage = "unauthorized" \/ d.op = "logout"
        PROVE  Going(t)'
    <3>1. f(d) \in calls'
      BY <1>1, <2>2 DEF f
    <3> QED BY <1>2, <2>2, <3>1 DEF Going
  <2>3. Changing(t)' => Changing(t) /\ (x # Nobody => FALSE)
    <3> SUFFICES ASSUME NEW e \in calls', e.tab = t, e.op # "rail", e.here, e.sets = "got"
                 PROVE  Changing(t) /\ (x # Nobody => FALSE)
      BY DEF Changing, Own
    <3>1. PICK d \in calls \ {c} : d \in Call /\ e = f(d)
      BY <1>3
    <3>2. d.tab = t /\ d.op # "rail" /\ d.here /\ d.sets = "got"
      BY <1>2, <3>1
    <3>3. Changing(t)
      BY <3>1, <3>2 DEF Changing, Own
    <3>4. c.op = "rail"
      BY <1>5, <3>1, <3>2
    <3> QED BY <3>3, <3>4
  <2>4. ASSUME NEW u \in Tabs PROVE AloneTab(u)'
    <3>1. u = t
      BY <2>0
    <3>2. x # Nobody => cookie # 0 \/ shed \/ crossed \/ Going(t)'
      BY <1>0, <1>11, <2>2
    <3> QED BY <1>11, <2>1, <2>3, <3>1, <3>2 DEF AloneTab
  <2>5. ASSUME NEW e \in calls' PROVE AloneCall(e)'
    <3>1. PICK d \in calls \ {c} : d \in Call /\ e = f(d)
      BY <1>3
    <3>2. AloneCall(d) /\ InPlace(d) /\ InPlace(c) /\ Sets(d) /\ d.tab = t
      BY <1>11, <2>0, <3>1 DEF IInv, AloneInv, Call
    <3>3. d.op # "me"
      BY <1>5, <3>1, <3>2 DEF InPlace
    <3>4. d.op = "rail" => ~e.mounted
      BY <1>2, <3>1, <3>2
    <3>5. d.here /\ d.sets = "got" => crossed'
      BY <1>5, <1>11, <3>1, <3>2 DEF Sets, Changing, Own
    <3>6. /\ e.op = d.op /\ e.here = d.here /\ e.sets = d.sets /\ e.quiet = d.quiet /\ e.as = d.as
          /\ e.sid = d.sid /\ e.got = d.got /\ e.stage = d.stage /\ e.tab = d.tab
      BY <1>2, <3>1
    <3> QED BY <1>0, <3>2, <3>3, <3>4, <3>5, <3>6 DEF AloneCall
  <2> QED BY <2>4, <2>5 DEF AloneInv
<1>12. (cookie <= Len(sessions))' /\ OnBehalf(sessions)'
  BY DEF IInv, OnBehalf
<1> QED BY <1>0, <1>12, <1>6, <1>7, <1>8, <1>9, <1>10, <1>11 DEF IInv, Alone

LEMMA TakeIdentityKeeps == ASSUME IInv, NEW c \in calls, TakeIdentity(c) PROVE IInv'
<1>0. /\ c \in Call /\ c.tab \in Tabs /\ Answered(c) /\ Sets(c) /\ InPlace(c) /\ c.here
      /\ c.stage = "ok" /\ (c.op = "me" \/ c.op = "login" \/ c.op = "impersonate" \/ c.op = "stop")
      /\ sessions \in Seq(Identity)
  BY StateFacts DEF TakeIdentity
<1>1. c.got \in 1..Len(sessions) /\ sessions[c.got] \in Identity /\ sessions[c.got] # Nobody
  BY <1>0, CallFacts, SessionFacts
<1>2. PICK x \in Identity : x = sessions[c.got]
  BY <1>1
<1>3. Become(c.tab, c, x) /\ UNCHANGED <<server, cookie, ops, lost, cut, shed, crossed>>
  BY <1>2 DEF TakeIdentity, history
<1>4. ASSUME NEW d \in calls, d.tab = c.tab, d.op = "rail", d.mounted PROVE Unmounts(c.tab, x)
  <2>1. screen[c.tab] = "panel" /\ me[c.tab] # Nobody
    BY <1>0, <1>4 DEF IInv, InPlace, TabInv
  <2>2. c.op # "me" /\ c.op # "login"
    BY <1>0, <2>1 DEF InPlace
  <2>3. c.op = "impersonate" => me[c.tab].user = Operator /\ x.user # Operator
    BY <1>0, <1>2, <2>1 DEF InPlace, Answered
  <2>4. c.op = "stop" => me[c.tab].user # Operator /\ x.user = Operator
    BY <1>0, <1>2, <2>1 DEF InPlace, Answered
  <2>5. c.op = "impersonate" \/ c.op = "stop"
    BY <1>0, <2>2
  <2>6. Staff(x) # Staff(me[c.tab])
    BY <2>3, <2>4, <2>5 DEF Staff
  <2> QED BY <2>6 DEF Unmounts
<1>5. ASSUME Alone
      PROVE  /\ cookie = 0 \/ sessions[cookie] = x
             /\ \/ cookie # 0 \/ shed \/ crossed
                \/ \E d \in calls \ {c} : d.tab = c.tab /\ d.here /\ (d.stage = "unauthorized" \/ d.op = "logout")
  <2>1. AloneCall(c)
    BY <1>5 DEF IInv, AloneInv
  <2>2. CASE c.op = "me"
    <3>1. c.got = cookie
      BY <1>0, <2>1, <2>2 DEF AloneCall, Answered, Sets
    <3> QED BY <1>1, <1>2, <3>1
  <2>3. CASE c.op # "me"
    <3>1. c.sets = "got"
      BY <1>0, <2>3 DEF Sets
    <3> QED BY <1>0, <1>1, <1>2, <2>1, <3>1 DEF AloneCall, Going
  <2> QED BY <2>2, <2>3
<1>6. x.by # None => x.user # Operator
  BY <1>1, <1>2, StateFacts DEF OnBehalf
<1>7. x # Nobody /\ c.op # "rail" /\ crossed' = crossed /\ crossed \in BOOLEAN
  BY <1>0, <1>1, <1>2, <1>3, StateFacts
<1> QED BY <1>0, <1>3, <1>4, <1>5, <1>6, <1>7, BecomeKeeps

LEMMA NobodyFacts == ASSUME NEW t PROVE Unmounts(t, Nobody) /\ Nobody.by = None
BY DEF Unmounts, Nobody

LEMMA SignOutKeeps == ASSUME IInv, NEW c \in calls, SignOut(c) PROVE IInv'
<1>0. /\ c \in Call /\ c.tab \in Tabs /\ Sets(c) /\ crossed \in BOOLEAN
      /\ c.op # "rail" /\ Become(c.tab, c, Nobody) /\ UNCHANGED <<server, cookie, ops, lost, cut, shed, crossed>>
  BY StateFacts DEF SignOut, history
<1>1. ASSUME Alone, ~lost, ~cut PROVE cookie \notin live
  <2>1. c.here /\ c.sets = "clear"
    BY <1>1 DEF SignOut, IInv, AloneInv, AloneCall, Sets
  <2>2. cookie = 0
    BY <1>0, <1>1, <2>1 DEF IInv, AloneInv, AloneCall
  <2> QED BY <2>2, StateFacts
<1> QED BY <1>0, <1>1, NobodyFacts, BecomeKeeps

LEMMA UnauthorizedKeeps == ASSUME IInv, NEW c \in calls, Unauthorized(c) PROVE IInv'
<1>0. /\ c \in Call /\ c.tab \in Tabs /\ Answered(c) /\ c.stage = "unauthorized" /\ 0 \notin live
      /\ Become(c.tab, c, Nobody) /\ UNCHANGED <<server, cookie, ops, lost, cut, shed>>
  BY StateFacts DEF Unauthorized
<1>1. /\ crossed' \in BOOLEAN /\ (crossed => crossed') /\ (Changing(c.tab) => crossed')
      /\ ~crossed' => cookie \in {0, c.sid}
  BY StateFacts DEF Unauthorized
<1>2. ~crossed' => cookie \notin live
  BY <1>0, <1>1 DEF Answered
<1> QED BY <1>0, <1>1, <1>2, NobodyFacts, BecomeKeeps

(* An answer that leaves the tab who it is.                                *)
LEMMA DropKeeps ==
  ASSUME IInv, NEW c \in calls, calls' = calls \ {c}, c.sets # "got", c.stage # "unauthorized", c.op # "logout",
         rail' \in [Tabs -> Users \cup {None}], login' \in [Tabs -> {"idle", "busy", "prompt"}],
         needsCode' \in [Tabs -> BOOLEAN], heard' \in [Tabs -> BOOLEAN],
         \A t \in Tabs : login'[t] = "prompt" => \/ login[t] = "prompt"
                                                 \/ t = c.tab /\ c.op = "login" /\ Opening(c),
         \A t \in Tabs : Alone /\ heard'[t] /\ ~cut /\ ~Changing(t) => rail'[t] \in {None, me[t].user},
         UNCHANGED <<server, cookie, me, screen, ops, history>>
  PROVE  IInv'
<1> USE DEF server, history
<1>1. TypeOK' /\ (cookie <= Len(sessions))' /\ OnBehalf(sessions)' /\ OneOwn'
  BY DEF IInv, TypeOK, OneOwn, OnBehalf
<1>2. Counted'
  <2>1. \A t \in Tabs : Due(t)' => Due(t)
    BY DEF Due
  <2>2. Dues' \subseteq Dues
    BY <2>1 DEF Dues
  <2>3. Counted /\ Len(sessions) \in Nat /\ ops \in Nat
    BY StateFacts
  <2> QED BY <2>2, <2>3, CountedKeeps
<1>3. \A e \in calls' : Answered(e)' /\ Sets(e)' /\ InPlace(e)'
  BY DEF IInv, Answered, Sets, InPlace
<1>4. ASSUME NEW t \in Tabs PROVE TabInv(t)'
  <2>1. TabInv(t) /\ InPlace(c)
    BY DEF IInv
  <2>2. c.tab = t /\ c.op = "login" => screen[t] = "login" /\ Own(t)' = {}
    BY <2>1 DEF InPlace, Own, IInv, OneOwn
  <2>3. Own(t) = {} => Own(t)' = {}
    BY DEF Own
  <2> QED BY <2>1, <2>2, <2>3 DEF TabInv
<1>5. ASSUME Alone PROVE AloneInv'
  <2>0. ASSUME NEW u PROVE (Changing(u)' <=> Changing(u)) /\ (Going(u)' <=> Going(u))
    BY DEF Changing, Going, Own
  <2>1. \A u \in Tabs : AloneTab(u)'
    BY <1>5, <2>0 DEF IInv, AloneInv, AloneTab
  <2>2. \A e \in calls' : AloneCall(e)'
    BY <1>5, <2>0 DEF IInv, AloneInv, AloneCall
  <2> QED BY <2>1, <2>2 DEF AloneInv
<1> QED BY <1>1, <1>2, <1>3, <1>4, <1>5 DEF IInv, Alone

LEMMA TakeRailKeeps == ASSUME IInv, NEW c \in calls, TakeRail(c) PROVE IInv'
<1> USE DEF forms
<1>1. /\ c \in Call /\ c.tab \in Tabs /\ sessions \in Seq(Identity) /\ Answered(c) /\ Sets(c) /\ InPlace(c)
      /\ c.op = "rail" /\ (c.stage = "ok" \/ c.stage = "refused")
  BY StateFacts DEF TakeRail
<1>2. c.stage = "ok" => c.got \in 1..Len(sessions) /\ sessions[c.got] \in Identity
  BY <1>1, CallFacts, SessionFacts
<1>3. c.stage = "ok" => sessions[c.got].user \in Users
  BY <1>2 DEF Identity
<1>4. rail' \in [Tabs -> Users \cup {None}] /\ heard' \in [Tabs -> BOOLEAN]
  BY <1>1, <1>3 DEF TakeRail, IInv, TypeOK
<1>5. UNCHANGED <<server, cookie, me, screen, login, needsCode, ops, history>> /\ calls' = calls \ {c}
  BY DEF TakeRail
<1>6. ASSUME NEW t \in Tabs, Alone, heard'[t], ~cut, ~Changing(t) PROVE rail'[t] \in {None, me[t].user}
  <2>1. t = c.tab /\ AloneTab(t) /\ AloneCall(c)
    BY <1>1, <1>6, AloneIsOne DEF IInv, AloneInv
  <2>2. CASE c.mounted /\ ~Staff(me[c.tab])
    <3>1. c.quiet /\ c.as.user = me[t].user
      BY <1>1, <1>6, <2>1, <2>2 DEF AloneCall, InPlace
    <3>2. c.stage = "ok" => sessions[c.got] = c.as
      BY <1>1, <1>2, <1>6, <2>1, <3>1 DEF AloneCall, Answered
    <3>3. rail'[t] = IF c.stage = "ok" THEN sessions[c.got].user ELSE None
      BY <1>1, <2>1, <2>2 DEF TakeRail, IInv, TypeOK
    <3> QED BY <3>1, <3>2, <3>3
  <2>3. CASE ~(c.mounted /\ ~Staff(me[c.tab]))
    BY <1>6, <2>1, <2>3 DEF TakeRail, AloneTab
  <2> QED BY <2>2, <2>3
<1>7. c.sets # "got" /\ c.stage # "unauthorized" /\ c.op # "logout"
  BY <1>1 DEF Sets
<1>8. login' \in [Tabs -> {"idle", "busy", "prompt"}] /\ needsCode' \in [Tabs -> BOOLEAN]
  BY <1>5 DEF IInv, TypeOK
<1>9. \A t \in Tabs : login'[t] = "prompt" => login[t] = "prompt"
  BY <1>5
<1> QED BY <1>4, <1>5, <1>6, <1>7, <1>8, <1>9, DropKeeps

LEMMA TakeNoKeeps == ASSUME IInv, NEW c \in calls, TakeNo(c) PROVE IInv'
<1>1. /\ c \in Call /\ c.tab \in Tabs /\ Answered(c) /\ Sets(c)
      /\ c.sets # "got" /\ c.stage # "unauthorized" /\ c.op # "logout"
  BY StateFacts DEF TakeNo, Sets
<1>2. /\ calls' = calls \ {c} /\ UNCHANGED <<server, cookie, me, screen, rail, heard, ops, history>>
      /\ login' = [login EXCEPT ![c.tab] = IF c.stage = "passkey wanted" /\ Supported /\ c.given # "passkey" THEN "prompt" ELSE "idle"]
      /\ needsCode' = [needsCode EXCEPT ![c.tab] = @ \/ (c.stage = "code wanted" /\ c.given # "passkey")]
  BY DEF TakeNo, Stays, panel
<1>3. /\ rail' \in [Tabs -> Users \cup {None}] /\ login' \in [Tabs -> {"idle", "busy", "prompt"}]
      /\ needsCode' \in [Tabs -> BOOLEAN] /\ heard' \in [Tabs -> BOOLEAN]
  BY <1>1, <1>2 DEF IInv, TypeOK
<1>4. c.stage = "passkey wanted" => c.op = "login" /\ Opening(c)
  BY <1>1 DEF Answered, Opening
<1>5. \A t \in Tabs : login'[t] = "prompt" => login[t] = "prompt" \/ (t = c.tab /\ c.stage = "passkey wanted")
  BY <1>1, <1>2 DEF IInv, TypeOK
<1>6. \A t \in Tabs : Alone /\ heard'[t] /\ ~cut /\ ~Changing(t) => rail'[t] \in {None, me[t].user}
  BY <1>2 DEF IInv, AloneInv, AloneTab
<1> QED BY <1>1, <1>2, <1>3, <1>4, <1>5, <1>6, DropKeeps

----------------------------------------------------------------------------
(* The invariant.                                                          *)

LEMMA PlainFacts ==
  ASSUME IInv, NEW t \in Tabs, NEW op \in {"me", "login", "logout", "impersonate", "stop", "rail"}
  PROVE  Plain(t, op) \in Call /\ Plain(t, op).op = op /\ Fresh(Plain(t, op), t)
<1>1. 0 \in Sids /\ me[t] \in Identity \cup {Nobody} /\ cookie \in Sids
  BY ShellAssumption DEF IInv, TypeOK, Sids, ShellAssumption
<1>2. PICK q \in BOOLEAN : q = ~Changing(t)
  BY DEF Changing
<1>3. Plain(t, op) = Sent(t, op, q)
  BY <1>2 DEF Plain
<1>4. PICK r : r = Sent(t, op, q)
  OBVIOUS
<1>5. r \in Call
  BY <1>1, <1>4 DEF Sent, Call
<1>6. /\ r.tab = t /\ r.op = op /\ r.stage = "sent" /\ r.here = FALSE /\ r.sets = "keep" /\ r.sid = cookie
      /\ r.as = me[t] /\ r.quiet = q
  BY <1>4 DEF Sent
<1> QED BY <1>2, <1>3, <1>4, <1>5, <1>6 DEF Fresh

LEMMA UserKeeps ==
  ASSUME IInv, NEW t \in Tabs,
         \/ \E u \in Users : Submit(t, u) \/ LogInAs(t, u)
         \/ BackToMyAccount(t) \/ Logout(t) \/ Tick(t) \/ PromptEnds(t)
  PROVE  IInv'
<1> USE DEF forms
<1>1. ASSUME NEW u \in Users, NEW given, given \in {"none", "code", "passkey"},
             Send([Plain(t, "login") EXCEPT !.user = u, !.given = given])
      PROVE  \E r \in Call : Send(r) /\ Fresh(r, t) /\ r.op = "login" /\ r.user = u
  <2>1. PICK q \in Call : q = Plain(t, "login") /\ q.op = "login" /\ Fresh(q, t)
    BY <1>1, PlainFacts
  <2>2. PICK p \in Call : p = [q EXCEPT !.user = u]
    BY DEF Call
  <2>3. Fresh(p, t) /\ p.op = "login" /\ p.user = u
    BY <2>1, <2>2 DEF Call, Fresh
  <2>4. PICK r \in Call : r = [p EXCEPT !.given = given]
    BY <1>1 DEF Call
  <2>5. Fresh(r, t) /\ r.op = "login" /\ r.user = u
    BY <2>3, <2>4 DEF Call, Fresh
  <2>6. Send(r)
    BY <1>1, <2>1, <2>2, <2>4
  <2> QED BY <2>5, <2>6
<1>2. ASSUME NEW u \in Users, Submit(t, u) PROVE IInv'
  <2>1. PICK given \in {"none", "code", "passkey"} : Send([Plain(t, "login") EXCEPT !.user = u, !.given = given])
    BY <1>2 DEF Submit
  <2>2. PICK r \in Call : Send(r) /\ Fresh(r, t) /\ r.op = "login" /\ r.user = u
    BY <1>1, <2>1
  <2> QED BY <1>2, <2>2, SendKeeps DEF Submit, Begin
<1>3. ASSUME NEW u \in Users, LogInAs(t, u) PROVE IInv'
  <2>1. PICK q \in Call : q = Plain(t, "impersonate") /\ q.op = "impersonate" /\ Fresh(q, t)
    BY PlainFacts
  <2>2. PICK r \in Call : r = [q EXCEPT !.user = u]
    BY DEF Call
  <2>3. Fresh(r, t) /\ r.op = "impersonate" /\ r.user = u
    BY <2>1, <2>2 DEF Call, Fresh
  <2>4. Send(r)
    BY <1>3, <2>1, <2>2 DEF LogInAs
  <2> QED BY <1>3, <2>3, <2>4, SendKeeps DEF LogInAs, Begin
<1>4. CASE BackToMyAccount(t)
  <2>1. PICK r \in Call : r = Plain(t, "stop") /\ r.op = "stop" /\ Fresh(r, t)
    BY PlainFacts
  <2> QED BY <1>4, <2>1, SendKeeps DEF BackToMyAccount, Begin
<1>5. CASE Logout(t)
  <2>1. PICK r \in Call : r = Plain(t, "logout") /\ r.op = "logout" /\ Fresh(r, t)
    BY PlainFacts
  <2> QED BY <1>5, <2>1, SendKeeps DEF Logout, Begin
<1>6. CASE Tick(t)
  <2>1. PICK r \in Call : r = Plain(t, "rail") /\ r.op = "rail" /\ Fresh(r, t)
    BY PlainFacts
  <2> QED BY <1>6, <2>1, SendKeeps DEF Tick
<1>7. ASSUME NEW u \in Users, Assert(t, u) PROVE IInv'
  <2>1. PICK r \in Call : Send(r) /\ Fresh(r, t) /\ r.op = "login" /\ r.user = u
    BY <1>1, <1>7 DEF Assert
  <2>2. t \in Dues /\ screen[t] = "login" /\ Own(t) = {}
    BY <1>7 DEF Assert, Dues, Due, IInv, TabInv
  <2> QED BY <1>7, <2>1, <2>2, SendKeeps DEF Assert
<1>8. CASE PromptEnds(t)
  BY <1>7, <1>8, CancelKeeps DEF PromptEnds
<1> QED BY <1>2, <1>3, <1>4, <1>5, <1>6, <1>7, <1>8

LEMMA NextKeeps == ASSUME IInv, [Next]_vars PROVE IInv'
<1>1. CASE UNCHANGED vars
  <2> USE DEF vars, server, forms, panel, history
  <2>1. TypeOK' /\ (cookie <= Len(sessions))' /\ OnBehalf(sessions)' /\ OneOwn'
    BY <1>1 DEF IInv, TypeOK, OneOwn, OnBehalf
  <2>2. Dues' = Dues /\ Counted'
    BY <1>1 DEF Dues, Due, Counted, IInv
  <2>3. \A c \in calls' : Answered(c)' /\ Sets(c)' /\ InPlace(c)'
    BY <1>1 DEF IInv, Answered, Sets, InPlace
  <2>4. \A u \in Tabs : TabInv(u)'
    BY <1>1 DEF IInv, TabInv, Own
  <2>5. (Alone => AloneInv)'
    BY <1>1 DEF IInv, Alone, AloneInv, AloneCall, AloneTab, Changing, Going, Own
  <2> QED BY <2>1, <2>2, <2>3, <2>4, <2>5 DEF IInv
<1>2. CASE Next
  BY <1>2, UserKeeps, ServeKeeps, ArriveKeeps, LoseKeeps, TakeIdentityKeeps, SignOutKeeps, UnauthorizedKeeps,
     TakeRailKeeps, TakeNoKeeps DEF Next, Arrives, Take
<1> QED BY <1>1, <1>2

LEMMA InitIInv == Init => IInv
<1> SUFFICES ASSUME Init PROVE IInv
  OBVIOUS
<1>1. [user |-> Operator, by |-> None] \in Identity
  BY DEF Identity, Users
<1>2. /\ sessions \in Seq(Identity) /\ (Len(sessions) = 0 \/ Len(sessions) = 1) /\ cookie = Len(sessions)
      /\ live = DOMAIN sessions /\ cookie \in Sids
  <2>1. CASE sessions = <<>>
    BY <2>1, ShellAssumption DEF Init, Sids, ShellAssumption
  <2>2. CASE sessions = <<[user |-> Operator, by |-> None]>>
    <3>1. PICK y \in Identity : y = [user |-> Operator, by |-> None]
      BY <1>1
    <3>2. sessions = <<y>>
      BY <2>2, <3>1
    <3>3. sessions \in Seq(Identity) /\ Len(sessions) = 1
      BY <3>2
    <3>4. 1 \in Sids
      BY ShellAssumption DEF Sids, ShellAssumption
    <3> QED BY <3>3, <3>4 DEF Init
  <2> QED BY <2>1, <2>2 DEF Init
<1>3. /\ me = [t \in Tabs |-> Nobody] /\ screen = [t \in Tabs |-> "loading"] /\ login = [t \in Tabs |-> "idle"]
      /\ needsCode = [t \in Tabs |-> FALSE] /\ rail = [t \in Tabs |-> None] /\ heard = [t \in Tabs |-> FALSE]
      /\ ops = 0 /\ lost = FALSE /\ cut = FALSE /\ shed = FALSE /\ crossed = FALSE /\ factor \in Factors
  BY DEF Init
<1>4. ASSUME NEW c \in calls
      PROVE  /\ c \in Call /\ c.tab \in Tabs /\ c = Sent(c.tab, "me", TRUE)
             /\ c.op = "me" /\ c.stage = "sent" /\ ~c.here /\ c.sets = "keep" /\ c.sid = cookie
  <2>1. PICK t \in Tabs : c = Sent(t, "me", TRUE)
    BY DEF Init
  <2>2. 0 \in Sids
    BY ShellAssumption DEF Sids, ShellAssumption
  <2> QED BY <1>2, <1>3, <2>1, <2>2 DEF Sent, Call
<1>5. TypeOK
  <2>1. Len(sessions) <= MaxOps + 1 /\ ops \in 0..MaxOps
    BY <1>2, <1>3, ShellAssumption DEF ShellAssumption
  <2> QED BY <1>2, <1>3, <1>4, <2>1 DEF TypeOK
<1>6. Counted
  <2>1. Dues = {}
    BY <1>3, <1>4 DEF Dues, Due, Opening
  <2>2. Cardinality(Dues) = 0
    BY <2>1, FS_EmptySet
  <2> QED BY <1>2, <1>3, <2>2 DEF Counted
<1>7. OneOwn
  BY <1>4 DEF OneOwn
<1>8. \A c \in calls : Answered(c) /\ Sets(c) /\ InPlace(c)
  <2> SUFFICES ASSUME NEW c \in calls PROVE Answered(c) /\ Sets(c) /\ InPlace(c)
    OBVIOUS
  <2>0. c.sid = cookie /\ c.op = "me" /\ c.stage = "sent" /\ ~c.here /\ c.sets = "keep" /\ c.tab \in Tabs
    BY <1>4
  <2>1. c.sid <= Len(sessions) /\ c.op = "me" /\ c.stage = "sent" /\ ~c.here /\ c.sets = "keep" /\ c.tab \in Tabs
    BY <1>2, <2>0
  <2>2. screen[c.tab] = "loading"
    BY <1>3, <2>1
  <2>3. Answered(c)
    BY <2>1 DEF Answered
  <2> QED BY <2>1, <2>2, <2>3 DEF Sets, InPlace
<1>9. \A t \in Tabs : TabInv(t)
  BY <1>3 DEF TabInv, Nobody
<1>10. AloneInv
  BY <1>3, <1>4 DEF AloneInv, AloneCall, AloneTab
<1>11. OnBehalf(sessions)
  BY <1>2 DEF OnBehalf, Init
<1> QED BY <1>2, <1>5, <1>6, <1>7, <1>8, <1>9, <1>10, <1>11 DEF IInv

LEMMA Invariance == Spec => []IInv
<1>1. IInv /\ [Next]_vars => IInv'
  BY NextKeeps
<1> QED BY <1>1, InitIInv, PTL DEF Spec

----------------------------------------------------------------------------
(* Results.                                                                *)

(* A call of a tab that is alone is carried out as the account the tab     *)
(* showed when it was sent, whatever is lost before its headers, refused   *)
(* or comes late (App.jsx, api.js, auth_handlers.go), unless an answer     *)
(* that changes the account was being read then, or was cut off once.      *)
THEOREM ActsAsItShows == Spec => []ShellInv
<1>1. ASSUME IInv PROVE ShellInv
  <2>1. ASSUME Alone, ~cut, NEW c \in calls, c.op = "rail", c.stage = "ok", c.quiet PROVE sessions[c.got] = c.as
    <3>1. AloneCall(c) /\ Answered(c) /\ c.got # 0
      BY <1>1, <2>1, CallFacts, StateFacts DEF IInv, AloneInv
    <3> QED BY <2>1, <3>1 DEF AloneCall, Answered
  <2> QED BY <1>1, <2>1 DEF ShellInv, ActsAsShown, IInv
<1> QED BY <1>1, Invariance, PTL

(* A tab that is alone and has nothing left to take up shows the account   *)
(* of the session its cookie names, or a panel whose cookie a 403 or a 500 *)
(* took away, or the login form when the server honours no such session    *)
(* (App.jsx, Login.jsx, api.js, middleware.go), if no answer that decides  *)
(* it was lost, cut off or crossed by a 401.                               *)
THEOREM QuietTabKnows == Spec => []KnowsWhoItIs
<1>1. ASSUME IInv PROVE KnowsWhoItIs
  <2> SUFFICES ASSUME Alone, ~lost, ~cut, ~crossed, NEW t \in Tabs, Settled(t)
               PROVE  /\ screen[t] = "panel" => (cookie # 0 /\ sessions[cookie] = me[t]) \/ (cookie = 0 /\ shed)
                      /\ screen[t] = "login" => cookie \notin live
    BY DEF KnowsWhoItIs
  <2>1. ~Changing(t) /\ ~Going(t)
    BY DEF Settled, Changing, Going, Own, Rails
  <2> QED BY <1>1, <2>1 DEF IInv, AloneInv, AloneTab
<1> QED BY <1>1, Invariance, PTL

(* A rail that heard since the account came shows that account's figures   *)
(* or none (StatusRail.jsx): the effects that start over when the account  *)
(* changes drop what was asked for the one before, and what is asked while *)
(* the cookie is ahead of the page is dropped with the change.             *)
THEOREM RailShowsMe == Spec => []RailIsOfMe
<1>1. ASSUME IInv PROVE RailIsOfMe
  <2>1. ASSUME Alone, ~cut, NEW t \in Tabs, heard[t], Own(t) = {} PROVE rail[t] \in {None, me[t].user}
    <3>1. ~Changing(t)
      BY <2>1 DEF Changing
    <3> QED BY <1>1, <2>1, <3>1 DEF IInv, AloneInv, AloneTab
  <2> QED BY <2>1 DEF RailIsOfMe
<1> QED BY <1>1, Invariance, PTL
=============================================================================
