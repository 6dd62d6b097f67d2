--------------------------- MODULE SessionsProofs ---------------------------
(***************************************************************************)
(* What Sessions guarantees for every set of accounts, handlers, passwords *)
(* and codes, however many requests run at the same time and wherever they *)
(* are given up: proofs let in once, staff are one step from whom they     *)
(* sign in as, nobody who returns is left without a session, and what a    *)
(* password or a suspension was to end has ended.                          *)
(*                                                                         *)
(* One invariant carries all four.  A request knows which operation it is  *)
(* in and has a session that was once opened (InStep); what it has learned   *)
(* of that session is still so (ByOperator, WearsSession, HasReplacement), *)
(* because a row of the table never changes but for its end (Grows); a     *)
(* code or a challenge that may still be taken has let nobody in (Fresh);  *)
(* and what a new password found signed in is of the account (Marked).     *)
(***************************************************************************)
EXTENDS Sessions, FiniteSetTheorems, WellFoundedInduction, TLAPS

(* Whoever is about to sign in as a customer is staff, in a session of     *)
(* their own.                                                              *)
ByOperator(q, pc) ==
  q.op = "impersonate" /\ pc \in {"target", "mint"} =>
    sessions[q.sess].user \in Staff /\ sessions[q.sess].imp = Nobody

(* Whoever is about to return is impersonating,                            *)
WearsSession(q, pc) ==
  q.op = "stop" /\ pc \in {"operator", "replace", "close"} => sessions[q.sess].imp # Nobody

(* and the session that is about to end has its replacement.               *)
HasReplacement(q, pc) ==
  q.op = "stop" /\ pc = "close" =>
    \E j \in q.sess + 1 .. MaxSessions :
      Used(j) /\ sessions[j].user = sessions[q.sess].imp /\ sessions[j].by = "return"

(* Which requests may be at step pc, and what they have at hand.           *)
InStep(q, pc) ==
  /\ q.op \in AllOps
  /\ pc \in {"verify", "rehash", "factor", "redeem"} => q.op = "login"
  /\ pc = "redeem" => q.factor \in Codes
  /\ pc = "take" => q.op \in {"login", "finish"} /\ q.factor \in ChallengeIds
  /\ pc = "mint" => q.op \in {"login", "impersonate"}
  /\ pc \in {"session", "user"} => q.op # "login"
  /\ pc \in {"worn", "operator", "replace"} => q.op = "stop"
  /\ pc = "close" => q.op \in {"logout", "stop"}
  /\ pc = "target" => q.op = "impersonate"
  /\ q.op = "finish" => q.factor \in ChallengeIds
  /\ q.op = "impersonate" /\ pc = "mint" => q.who \notin Staff
  /\ q.op # "login" => q.sess \in SessionIds /\ Used(q.sess)
  /\ ByOperator(q, pc) /\ WearsSession(q, pc) /\ HasReplacement(q, pc)

(* What is to be ended is of the account until it is, and has ended when   *)
(* the request is answered.                                                *)
Marked(h) ==
  /\ At(h, "revoke") => req[h].mark \subseteq SessionsOf(req[h].who)
  /\ At(h, "done") => \A i \in req[h].mark : Used(i) /\ ~ Open(i)
  /\ ~ (At(h, "revoke") \/ At(h, "done")) => req[h].mark = {}

Fits(h) == (Resting(h) \/ InStep(req[h], req[h].pc)) /\ Marked(h)

Requests == req \in [Handlers -> Request] /\ \A h \in Handlers : Fits(h)

(* A code that is there and a ceremony that is pending have let nobody in. *)
Fresh ==
  /\ \A u \in Users, c \in Codes : c \in codes[u] => used[u][c] = 0
  /\ \A c \in ChallengeIds : challenges[c].purpose # "none" => challenges[c].used = 0

Records ==
  /\ users \in [Users -> Account]
  /\ chosen \in [Users -> Passwords]
  /\ codes \in [Users -> SUBSET Codes] /\ used \in [Users -> [Codes -> 0 .. 2]]
  /\ keys \subseteq Users
  /\ challenges \in [ChallengeIds -> Challenge]
  /\ begun \in 0 .. MaxRequests
  /\ OneTimeProofsOnce /\ Fresh

(* What TypeOK says of the sessions table, and what is never undone in it. *)
Table ==
  /\ sessions \in [SessionIds -> Session \cup {NoSession}]
  /\ \A i, j \in SessionIds : i < j /\ Used(j) => Used(i)
  /\ \A i \in SessionIds : Used(i) => (sessions[i].imp # Nobody <=> sessions[i].by = "staff")

TableInv == Table /\ NoSecondHop /\ OperatorComesBack

IInv == Records /\ TableInv /\ Requests

-----------------------------------------------------------------------------
(* The sessions table. *)

(* A step of the table: rows are added, and none changes but to end.       *)
Grows ==
  \A i \in SessionIds : Used(i) =>
    /\ Used(i)'
    /\ sessions'[i].user = sessions[i].user
    /\ sessions'[i].imp = sessions[i].imp
    /\ sessions'[i].by = sessions[i].by
    /\ ~ Open(i) => ~ Open(i)'

(* Places are used in order, so the number of those used says which is     *)
(* next.                                                                   *)
LEMMA NextPlace ==
  ASSUME Table, Free # {}
  PROVE  /\ Cardinality(SessionIds \ Free) + 1 \in Free
         /\ \A j \in SessionIds : Used(j) <=> j < Cardinality(SessionIds \ Free) + 1
<1>1. Free \subseteq Nat /\ Free \subseteq SessionIds
  BY DEF Free, SessionIds
<1>2. PICK m \in Free : \A y \in Free : ~ (<<y, m>> \in OpToRel(<, Nat))
  BY <1>1, WFMin, NatLessThanWellFounded
<1>3. \A y \in Free : ~ (y < m)
  BY <1>1, <1>2 DEF OpToRel
<1>4. SessionIds \ Free = 1 .. m - 1
  <2>1. ASSUME NEW j \in SessionIds, j \notin Free PROVE j < m
    BY <2>1, <1>1 DEF Table, Free, SessionIds
  <2>2. QED
    BY <2>1, <1>1, <1>3, BoundAssumption DEF SessionIds
<1>5. Cardinality(1 .. m - 1) = m - 1
  BY <1>1, FS_Interval DEF SessionIds
<1>6. Cardinality(SessionIds \ Free) + 1 = m
  <2>1. m \in Nat /\ (m - 1) + 1 = m
    BY <1>1
  <2>2. Cardinality(SessionIds \ Free) = m - 1
    BY <1>4, <1>5
  <2>3. QED
    BY <2>1, <2>2
<1>7. QED
  BY <1>1, <1>4, <1>6, BoundAssumption DEF Free, SessionIds

(* Ending sessions keeps what the table says, as long as one that is       *)
(* returned from has its replacement.                                      *)
LEMMA EndedKeeps ==
  ASSUME TableInv, NEW S, NEW why \in {"closed", "returned"}, sessions' = Ended(S, why),
         why = "returned" => \A i \in S \cap SessionIds : Open(i) =>
           \E j \in i + 1 .. MaxSessions :
             Used(j) /\ sessions[j].user = sessions[i].imp /\ sessions[j].by = "return"
  PROVE  /\ TableInv' /\ Grows
         /\ \A i \in S \cap SessionIds : ~ Open(i)'
<1>1. \A i \in SessionIds : Used(i) => sessions[i] \in Session
  BY DEF Used, TableInv, Table
<1>2. \A i \in SessionIds : sessions'[i] = IF i \in S /\ Open(i)
                                           THEN [sessions[i] EXCEPT !.end = why] ELSE sessions[i]
  BY DEF Ended
<1>3. \A i \in SessionIds : Open(i) => [sessions[i] EXCEPT !.end = why] \in Session
  BY <1>1 DEF Open, Session
<1>4. \A i \in SessionIds : /\ Used(i)' <=> Used(i)
                            /\ Used(i) => /\ sessions'[i].user = sessions[i].user
                                          /\ sessions'[i].imp = sessions[i].imp
                                          /\ sessions'[i].by = sessions[i].by
                                          /\ \/ sessions'[i].end = sessions[i].end
                                             \/ /\ i \in S /\ Open(i)
                                                /\ sessions'[i].end = why
  <2> SUFFICES ASSUME NEW i \in SessionIds
               PROVE  /\ Used(i)' <=> Used(i)
                      /\ Used(i) => /\ sessions'[i].user = sessions[i].user
                                    /\ sessions'[i].imp = sessions[i].imp
                                    /\ sessions'[i].by = sessions[i].by
                                    /\ \/ sessions'[i].end = sessions[i].end
                                       \/ /\ i \in S /\ Open(i)
                                          /\ sessions'[i].end = why
    OBVIOUS
  <2>1. CASE i \in S /\ Open(i)
    <3>1. Used(i) /\ sessions[i] \in Session /\ sessions'[i] = [sessions[i] EXCEPT !.end = why]
      BY <1>1, <1>2, <2>1 DEF Open
    <3>2. /\ sessions'[i].user = sessions[i].user /\ sessions'[i].imp = sessions[i].imp
          /\ sessions'[i].by = sessions[i].by /\ sessions'[i].end = why
      BY <3>1 DEF Session
    <3>3. Used(i)'
      BY <1>3, <2>1, <3>1, NoSessionAssumption DEF Used
    <3>4. QED
      BY <2>1, <3>1, <3>2, <3>3
  <2>2. CASE ~ (i \in S /\ Open(i))
    BY <1>2, <2>2 DEF Used
  <2>3. QED
    BY <2>1, <2>2
<1>5. \A i \in SessionIds : i \in S => ~ Open(i)'
  BY <1>1, <1>2, <1>3 DEF Open, Used, Session
<1>6. Grows
  BY <1>4 DEF Grows, Open
<1>7. Table'
  <2>1. sessions' \in [SessionIds -> Session \cup {NoSession}]
    BY <1>1, <1>3 DEF Ended, TableInv, Table
  <2>2. QED
    BY <2>1, <1>4 DEF TableInv, Table
<1>8. NoSecondHop'
  <2> SUFFICES ASSUME NEW i \in SessionIds, Used(i)', sessions'[i].imp # Nobody
               PROVE  /\ sessions'[i].user \notin Staff
                      /\ sessions'[i].imp \in Staff
                      /\ \E j \in 1 .. i - 1 : sessions'[j].user = sessions'[i].imp
                                               /\ sessions'[j].imp = Nobody
    BY DEF NoSecondHop
  <2>1. Used(i) /\ sessions[i].imp # Nobody
    BY <1>4
  <2>2. PICK j \in 1 .. i - 1 : sessions[j].user = sessions[i].imp /\ sessions[j].imp = Nobody
    BY <2>1 DEF TableInv, NoSecondHop
  <2>3. j \in SessionIds /\ j < i
    BY BoundAssumption DEF SessionIds
  <2>4. Used(j)
    BY <2>1, <2>3 DEF TableInv, Table
  <2>5. QED
    BY <1>4, <2>1, <2>2, <2>3, <2>4 DEF TableInv, NoSecondHop
<1>9. OperatorComesBack'
  <2> SUFFICES ASSUME NEW i \in SessionIds, Used(i)', sessions'[i].end = "returned"
               PROVE  \E j \in i + 1 .. MaxSessions :
                        Used(j)' /\ sessions'[j].user = sessions'[i].imp /\ sessions'[j].by = "return"
    BY DEF OperatorComesBack
  <2>1. Used(i)
    BY <1>4
  <2>2. sessions[i].end = "returned" \/ (why = "returned" /\ i \in S /\ Open(i))
    BY <1>4, <2>1
  <2>3. PICK j \in i + 1 .. MaxSessions :
          Used(j) /\ sessions[j].user = sessions[i].imp /\ sessions[j].by = "return"
    BY <2>1, <2>2 DEF TableInv, OperatorComesBack
  <2>4. j \in SessionIds
    BY BoundAssumption DEF SessionIds
  <2>5. QED
    BY <1>4, <2>1, <2>3, <2>4
<1>10. QED
  BY <1>5, <1>6, <1>7, <1>8, <1>9 DEF TableInv

(* Opening a session takes a place after all that were ever used.          *)
LEMMA MintedKeeps ==
  ASSUME TableInv, Free # {},
         NEW u \in Users, NEW imp \in Users \cup {Nobody}, NEW by \in {"login", "staff", "return"},
         sessions' = Minted(u, imp, by),
         imp # Nobody <=> by = "staff",
         imp # Nobody => /\ u \notin Staff /\ imp \in Staff
                         /\ \E j \in SessionIds :
                              Used(j) /\ sessions[j].user = imp /\ sessions[j].imp = Nobody
  PROVE  /\ TableInv' /\ Grows
         /\ \E i \in SessionIds : /\ Used(i)' /\ \A j \in SessionIds : Used(j) => j < i
                                  /\ sessions'[i].user = u /\ sessions'[i].by = by
<1> DEFINE s == [user |-> u, imp |-> imp, by |-> by, end |-> "open"]
<1>1. PICK n \in SessionIds : /\ n = Cardinality(SessionIds \ Free) + 1
                              /\ ~ Used(n) /\ \A j \in SessionIds : Used(j) <=> j < n
  BY NextPlace DEF TableInv, Free
<1>2. s \in Session /\ s # NoSession
  BY NoSessionAssumption DEF Session
<1>3. sessions' = [sessions EXCEPT ![n] = s]
  BY <1>1 DEF Minted
<1>4. sessions'[n] = s /\ \A i \in SessionIds : i # n => sessions'[i] = sessions[i]
  BY <1>1, <1>3 DEF TableInv, Table
<1>5. Used(n)' /\ \A i \in SessionIds : i # n => (Used(i)' <=> Used(i))
  BY <1>2, <1>4 DEF Used
<1>6. Grows
  BY <1>1, <1>4, <1>5 DEF Grows, Open
<1>7. Table'
  <2>1. sessions' \in [SessionIds -> Session \cup {NoSession}]
    BY <1>2, <1>3 DEF TableInv, Table
  <2>2. ASSUME NEW i \in SessionIds, NEW j \in SessionIds, i < j, Used(j)' PROVE Used(i)'
    <3>1. j <= n
      BY <1>1, <1>5, <2>2 DEF SessionIds
    <3>2. QED
      BY <1>1, <1>5, <2>2, <3>1 DEF SessionIds
  <2>3. ASSUME NEW i \in SessionIds, Used(i)'
        PROVE  sessions'[i].imp # Nobody <=> sessions'[i].by = "staff"
    BY <1>4, <1>5, <2>3 DEF TableInv, Table
  <2>4. QED
    BY <2>1, <2>2, <2>3 DEF Table
<1>8. NoSecondHop'
  <2> SUFFICES ASSUME NEW i \in SessionIds, Used(i)', sessions'[i].imp # Nobody
               PROVE  /\ sessions'[i].user \notin Staff
                      /\ sessions'[i].imp \in Staff
                      /\ \E j \in 1 .. i - 1 : sessions'[j].user = sessions'[i].imp
                                               /\ sessions'[j].imp = Nobody
    BY DEF NoSecondHop
  <2>1. CASE i = n
    <3>1. PICK j \in SessionIds : Used(j) /\ sessions[j].user = imp /\ sessions[j].imp = Nobody
      BY <1>4, <2>1
    <3>2. j < n
      BY <1>1, <3>1
    <3>3. j \in 1 .. n - 1 /\ j # n
      BY <3>2 DEF SessionIds
    <3>4. QED
      BY <1>4, <2>1, <3>1, <3>3
  <2>2. CASE i # n
    <3>1. Used(i) /\ i < n /\ sessions[i].imp # Nobody
      BY <1>1, <1>4, <1>5, <2>2
    <3>2. PICK j \in 1 .. i - 1 : sessions[j].user = sessions[i].imp /\ sessions[j].imp = Nobody
      BY <3>1 DEF TableInv, NoSecondHop
    <3>3. j \in SessionIds /\ j # n
      BY <1>1, <3>1, BoundAssumption DEF SessionIds
    <3>4. QED
      BY <1>4, <2>2, <3>1, <3>2, <3>3 DEF TableInv, NoSecondHop
  <2>3. QED
    BY <2>1, <2>2
<1>9. OperatorComesBack'
  <2> SUFFICES ASSUME NEW i \in SessionIds, Used(i)', sessions'[i].end = "returned"
               PROVE  \E j \in i + 1 .. MaxSessions :
                        Used(j)' /\ sessions'[j].user = sessions'[i].imp /\ sessions'[j].by = "return"
    BY DEF OperatorComesBack
  <2>1. i # n
    BY <1>4
  <2>2. Used(i) /\ sessions[i].end = "returned"
    BY <1>4, <1>5, <2>1
  <2>3. PICK j \in i + 1 .. MaxSessions :
          Used(j) /\ sessions[j].user = sessions[i].imp /\ sessions[j].by = "return"
    BY <2>2 DEF TableInv, OperatorComesBack
  <2>4. j \in SessionIds /\ j # n
    BY <1>1, <2>3, BoundAssumption DEF SessionIds
  <2>5. QED
    BY <1>4, <1>5, <2>1, <2>3, <2>4
<1>10. /\ Used(n)' /\ \A j \in SessionIds : Used(j) => j < n
       /\ sessions'[n].user = u /\ sessions'[n].by = by
  BY <1>1, <1>4, <1>5
<1>11. QED
  BY <1>6, <1>7, <1>8, <1>9, <1>10 DEF TableInv

-----------------------------------------------------------------------------
(* The requests. *)

(* What a request has learned of its session stays so while the table      *)
(* grows.                                                                  *)
LEMMA InStepKept ==
  ASSUME Grows, NEW q \in Request, NEW pc, InStep(q, pc)
  PROVE  InStep(q, pc)'
<1>1. q.op # "login" => q.sess \in SessionIds /\ Used(q.sess) /\ Used(q.sess)'
                        /\ sessions'[q.sess].user = sessions[q.sess].user
                        /\ sessions'[q.sess].imp = sessions[q.sess].imp
  BY DEF InStep, Grows
<1>2. ByOperator(q, pc)' /\ WearsSession(q, pc)'
  BY <1>1 DEF InStep, ByOperator, WearsSession
<1>3. HasReplacement(q, pc)'
  <2> SUFFICES ASSUME q.op = "stop", pc = "close"
               PROVE  \E j \in q.sess + 1 .. MaxSessions :
                        Used(j)' /\ sessions'[j].user = sessions'[q.sess].imp /\ sessions'[j].by = "return"
    BY DEF HasReplacement
  <2>1. PICK j \in q.sess + 1 .. MaxSessions :
          Used(j) /\ sessions[j].user = sessions[q.sess].imp /\ sessions[j].by = "return"
    BY DEF InStep, HasReplacement
  <2>2. j \in SessionIds
    BY <1>1, BoundAssumption DEF SessionIds
  <2>3. QED
    BY <1>1, <2>1, <2>2 DEF Grows
<1>4. QED
  BY <1>1, <1>2, <1>3 DEF InStep

(* A step of one handler leaves the others in step.                        *)
LEMMA OthersFit ==
  ASSUME Requests, Grows, NEW h \in Handlers, req' \in [Handlers -> Request],
         \A g \in Handlers : g # h => req'[g] = req[g],
         Fits(h)'
  PROVE  Requests'
<1> SUFFICES ASSUME NEW g \in Handlers, g # h PROVE Fits(g)'
  BY DEF Requests
<1>1. req'[g] = req[g] /\ req[g] \in Request /\ Fits(g)
  BY DEF Requests
<1>2. Resting(g)' \/ InStep(req[g], req[g].pc)'
  <2>1. CASE Resting(g)
    BY <1>1, <2>1 DEF Resting, At
  <2>2. CASE InStep(req[g], req[g].pc)
    <3>1. PICK q \in Request : q = req[g]
      BY <1>1
    <3>2. InStep(q, q.pc)'
      BY <2>2, <3>1, InStepKept
    <3>3. QED
      BY <1>1, <3>1, <3>2
  <2>3. QED
    BY <1>1, <2>1, <2>2 DEF Fits
<1>3. Marked(g)'
  BY <1>1 DEF Fits, Marked, At, Grows, SessionsOf, Request
<1>4. QED
  BY <1>1, <1>2, <1>3 DEF Fits

(* Nobody asks for anything while resting.                                 *)
LEMMA NoRequestFits ==
  ASSUME NEW h \in Handlers, req'[h] = NoRequest
  PROVE  Fits(h)'
BY DEF NoRequest, Fits, Resting, At, Marked

LEMMA NoRequestTyped == NoRequest \in Request
<1>1. FirstUsers[FirstSignedIn].pw \in Passwords /\ FirstSignedIn \in Users
  BY PeopleAssumption, FirstAssumption DEF Account
<1>2. QED
  BY <1>1 DEF NoRequest, Request, Steps, Factors

(* A request that goes on to pc fits if pc is a step of its operation, and *)
(* one that is answered if what it marked has ended.                       *)
LEMMA GotoFits ==
  ASSUME Requests, Grows, NEW h \in Handlers, ~ Resting(h), NEW q \in Request, req[h] = q,
         NEW pc \in (Steps \ {"idle", "revoke"}) \cup {"failed"}, Goto(h, pc),
         pc \notin {"failed", "done"} => ~ At(h, "revoke") /\ InStep(q, pc)',
         pc = "done" /\ At(h, "revoke") => \A i \in SessionsOf(req[h].who) : ~ Open(i)'
  PROVE  Requests'
<1>1. req[h] \in Request /\ Fits(h) /\ NoRequest \in Request
  BY NoRequestTyped DEF Requests
<1>2. "failed" \notin Steps
  BY DEF Steps
<1>3. /\ \A g \in Handlers : g # h => req'[g] = req[g]
      /\ req' \in [Handlers -> Request]
      /\ pc = "failed" => req'[h] = NoRequest
      /\ pc = "done" => req'[h] = [NoRequest EXCEPT !.pc = "done", !.mark = req[h].mark]
      /\ pc \notin {"failed", "done"} => req'[h] = [req[h] EXCEPT !.pc = pc]
  BY <1>1, <1>2 DEF Goto, Requests, Request
<1>4. Fits(h)'
  <2>1. CASE pc = "failed"
    BY <1>3, <2>1, NoRequestFits
  <2>2. CASE pc = "done"
    <3>1. At(h, "done")' /\ req'[h].mark = req[h].mark
      BY <1>1, <1>3, <2>2 DEF At, NoRequest
    <3>2. \A i \in req[h].mark : i \in SessionIds /\ Used(i)' /\ ~ Open(i)'
      BY <1>1, <2>2 DEF Fits, Marked, Grows, SessionsOf, Resting
    <3>3. QED
      BY <3>1, <3>2 DEF Fits, Resting, Marked, At
  <2>3. CASE pc \notin {"failed", "done"}
    <3>2. InStep(q, pc)' /\ ~ At(h, "revoke")
      BY <2>3
    <3>3. q.mark = {}
      BY <1>1, <3>2 DEF Fits, Marked, Resting
    <3>4. /\ req'[h].pc = pc /\ req'[h].op = q.op /\ req'[h].factor = q.factor
          /\ req'[h].who = q.who /\ req'[h].sess = q.sess /\ req'[h].mark = {}
      BY <1>3, <2>3, <3>3 DEF Request
    <3>5. InStep(req[h], req[h].pc)'
      BY <3>2, <3>4 DEF InStep, ByOperator, WearsSession, HasReplacement
    <3>6. QED
      BY <2>3, <3>4, <3>5 DEF Fits, Marked, At
  <2>4. QED
    BY <2>1, <2>2, <2>3
<1>5. QED
  BY <1>3, <1>4, OthersFit

-----------------------------------------------------------------------------
(* The steps. *)

(* A request at a step that is not a rest is in it.                        *)
LEMMA InStepNow ==
  ASSUME Requests, NEW h \in Handlers, ~ Resting(h)
  PROVE  \E q \in Request : q = req[h] /\ InStep(q, q.pc)
<1>1. PICK q \in Request : q = req[h]
  BY DEF Requests
<1>2. InStep(req[h], req[h].pc)
  BY DEF Requests, Fits
<1>3. QED
  BY <1>1, <1>2

(* A table that is left alone.                                             *)
LEMMA TableStays ==
  ASSUME TableInv, UNCHANGED sessions
  PROVE  TableInv' /\ Grows
BY DEF TableInv, Table, NoSecondHop, OperatorComesBack, Grows, Used, Open

LEMMA RecordsStay ==
  ASSUME Records, UNCHANGED <<users, chosen, codes, used, keys, challenges>>, begun' \in 0 .. MaxRequests
  PROVE  Records'
BY DEF Records, OneTimeProofsOnce, Fresh

(* A request that begins fits, if it is of its operation and has a session.*)
LEMMA BegunFits ==
  ASSUME IInv, NEW h \in Handlers, NEW r \in Request, Begin(h, r),
         r.op \in AllOps, r.mark = {}, r.op = "finish" => r.factor \in ChallengeIds,
         \/ r.op = "login" /\ r.pc = "verify"
         \/ /\ r.op # "login" /\ r.pc = "session" /\ r.sess \in SessionIds /\ Used(r.sess)
  PROVE  IInv'
<1>1. /\ req' = [req EXCEPT ![h] = r] /\ UNCHANGED tables
      /\ begun \in 0 .. MaxRequests /\ begun < MaxRequests /\ begun' = begun + 1
  BY DEF Begin, IInv, Records
<1>2. begun' \in 0 .. MaxRequests
  BY <1>1, BoundAssumption
<1>3. Records' /\ TableInv' /\ Grows
  BY <1>1, <1>2, TableStays, RecordsStay DEF IInv, tables
<1>4. InStep(r, r.pc)
  BY DEF InStep, ByOperator, WearsSession, HasReplacement, StaffOps
<1>5. InStep(r, r.pc)'
  BY <1>3, <1>4, InStepKept
<1>6. req' \in [Handlers -> Request] /\ req'[h] = r /\ \A g \in Handlers : g # h => req'[g] = req[g]
  BY <1>1 DEF IInv, Requests
<1>7. Marked(h)'
  BY <1>6 DEF Marked, At
<1>8. Fits(h)'
  BY <1>5, <1>6, <1>7 DEF Fits
<1>9. QED
  BY <1>3, <1>6, <1>8, OthersFit DEF IInv

(* Beginning: a form, or a request that carries a session.                 *)
LEMMA BeginKeeps ==
  ASSUME IInv, NEW h \in Handlers, BeginLogin(h) \/ BeginWith(h)
  PROVE  IInv'
<1>1. CASE BeginLogin(h)
  <2>1. PICK u \in Users, p \in Passwords, f \in Factors :
          Begin(h, [NoRequest EXCEPT !.op = "login", !.pc = "verify", !.who = u,
                                     !.typed = p, !.factor = f])
    BY <1>1 DEF BeginLogin
  <2> DEFINE r == [NoRequest EXCEPT !.op = "login", !.pc = "verify", !.who = u,
                                    !.typed = p, !.factor = f]
  <2>2. r \in Request /\ r.pc = "verify" /\ r.op = "login" /\ r.mark = {}
    BY NoRequestTyped DEF NoRequest, Request, AllOps, Steps
  <2>3. QED
    BY <2>1, <2>2, BegunFits DEF AllOps
<1>2. CASE BeginWith(h)
  <2>1. PICK i \in SessionIds \ Free :
          LET base == [NoRequest EXCEPT !.pc = "session", !.sess = i, !.who = sessions[i].user] IN
          \/ \E op \in {"use", "logout", "stop", "setup", "enable", "register", "unkey"} :
               Begin(h, [base EXCEPT !.op = op])
          \/ \E c \in ChallengeIds : Begin(h, [base EXCEPT !.op = "finish", !.factor = c])
          \/ \E p, n \in Passwords : Begin(h, [base EXCEPT !.op = "password", !.typed = p, !.new = n])
          \/ \E p \in Passwords : Begin(h, [base EXCEPT !.op = "disable", !.typed = p])
          \/ \E t \in Users :
               \/ \E op \in {"suspend", "restore", "impersonate"} :
                    Begin(h, [base EXCEPT !.op = op, !.who = t])
               \/ \E n \in Passwords : Begin(h, [base EXCEPT !.op = "reset", !.who = t, !.new = n])
    BY <1>2 DEF BeginWith
  <2> DEFINE base == [NoRequest EXCEPT !.pc = "session", !.sess = i, !.who = sessions[i].user]
  <2>2. Used(i) /\ i \in SessionIds /\ sessions[i].user \in Users
    BY DEF Free, Used, IInv, TableInv, Table, Session
  <2>3. base \in Request /\ base.pc = "session" /\ base.sess = i /\ base.mark = {}
    BY <2>2, NoRequestTyped DEF NoRequest, Request, Steps
  <2> HIDE DEF base
  <2>4. ASSUME NEW op \in {"use", "logout", "stop", "setup", "enable", "register", "unkey"},
               Begin(h, [base EXCEPT !.op = op])
        PROVE  IInv'
    <3> DEFINE r == [base EXCEPT !.op = op]
    <3>1. r \in Request /\ r.op = op /\ r.pc = "session" /\ r.sess = i /\ r.mark = {}
      BY <2>3 DEF Request, AllOps, OwnOps
    <3> HIDE DEF r
    <3>2. Begin(h, r)
      BY <2>4 DEF r
    <3>3. QED
      BY <2>2, <3>1, <3>2, BegunFits DEF AllOps, OwnOps, StaffOps
  <2>5. ASSUME NEW c \in ChallengeIds, Begin(h, [base EXCEPT !.op = "finish", !.factor = c])
        PROVE  IInv'
    <3> DEFINE r == [base EXCEPT !.op = "finish", !.factor = c]
    <3>1. /\ r \in Request /\ r.op = "finish" /\ r.pc = "session" /\ r.sess = i /\ r.mark = {}
          /\ r.factor = c
      BY <2>3 DEF Request, AllOps, OwnOps, Factors
    <3> HIDE DEF r
    <3>2. Begin(h, r)
      BY <2>5 DEF r
    <3>3. QED
      BY <2>2, <3>1, <3>2, BegunFits DEF AllOps, OwnOps, StaffOps
  <2>6. ASSUME NEW p \in Passwords, NEW n \in Passwords,
               Begin(h, [base EXCEPT !.op = "password", !.typed = p, !.new = n])
        PROVE  IInv'
    <3> DEFINE r == [base EXCEPT !.op = "password", !.typed = p, !.new = n]
    <3>1. r \in Request /\ r.op = "password" /\ r.pc = "session" /\ r.sess = i /\ r.mark = {}
      BY <2>3 DEF Request, AllOps, OwnOps
    <3> HIDE DEF r
    <3>2. Begin(h, r)
      BY <2>6 DEF r
    <3>3. QED
      BY <2>2, <3>1, <3>2, BegunFits DEF AllOps, OwnOps, StaffOps
  <2>7. ASSUME NEW p \in Passwords, Begin(h, [base EXCEPT !.op = "disable", !.typed = p])
        PROVE  IInv'
    <3> DEFINE r == [base EXCEPT !.op = "disable", !.typed = p]
    <3>1. r \in Request /\ r.op = "disable" /\ r.pc = "session" /\ r.sess = i /\ r.mark = {}
      BY <2>3 DEF Request, AllOps, OwnOps
    <3> HIDE DEF r
    <3>2. Begin(h, r)
      BY <2>7 DEF r
    <3>3. QED
      BY <2>2, <3>1, <3>2, BegunFits DEF AllOps, OwnOps, StaffOps
  <2>8. ASSUME NEW t \in Users, NEW op \in {"suspend", "restore", "impersonate"},
               Begin(h, [base EXCEPT !.op = op, !.who = t])
        PROVE  IInv'
    <3> DEFINE r == [base EXCEPT !.op = op, !.who = t]
    <3>1. r \in Request /\ r.op = op /\ r.who = t /\ r.pc = "session" /\ r.sess = i /\ r.mark = {}
      BY <2>3 DEF Request, AllOps, StaffOps
    <3> HIDE DEF r
    <3>2. Begin(h, r)
      BY <2>8 DEF r
    <3>3. QED
      BY <2>2, <3>1, <3>2, BegunFits DEF AllOps, StaffOps
  <2>9. ASSUME NEW t \in Users, NEW n \in Passwords,
               Begin(h, [base EXCEPT !.op = "reset", !.who = t, !.new = n])
        PROVE  IInv'
    <3> DEFINE r == [base EXCEPT !.op = "reset", !.who = t, !.new = n]
    <3>1. r \in Request /\ r.op = "reset" /\ r.who = t /\ r.pc = "session" /\ r.sess = i /\ r.mark = {}
      BY <2>3 DEF Request, AllOps, StaffOps
    <3> HIDE DEF r
    <3>2. Begin(h, r)
      BY <2>9 DEF r
    <3>3. QED
      BY <2>2, <3>1, <3>2, BegunFits DEF AllOps, StaffOps
  <2>10. QED
    BY <2>1, <2>4, <2>5, <2>6, <2>7, <2>8, <2>9 DEF base
<1>3. QED
  BY <1>1, <1>2

(* A step that leaves the sessions alone moves its request to a step it    *)
(* may be at; so does one that changes no table.                           *)
LEMMA TablesGotoKeeps ==
  ASSUME IInv, NEW h \in Handlers, ~ Resting(h), ~ At(h, "revoke"),
         NEW q \in Request, req[h] = q,
         NEW pc \in (Steps \ {"idle", "revoke"}) \cup {"failed"}, Goto(h, pc),
         pc \notin {"failed", "done"} => InStep(q, pc),
         Records', UNCHANGED sessions
  PROVE  IInv'
<1>1. TableInv' /\ Grows
  BY TableStays DEF IInv
<1>2. pc \notin {"failed", "done"} => InStep(q, pc)'
  BY <1>1, InStepKept
<1>3. Requests'
  BY <1>1, <1>2, GotoFits DEF IInv
<1>4. QED
  BY <1>1, <1>3 DEF IInv

LEMMA GotoKeeps ==
  ASSUME IInv, NEW h \in Handlers, ~ Resting(h), ~ At(h, "revoke"),
         NEW q \in Request, req[h] = q,
         NEW pc \in (Steps \ {"idle", "revoke"}) \cup {"failed"}, Goto(h, pc),
         pc \notin {"failed", "done"} => InStep(q, pc),
         UNCHANGED <<tables, begun>>
  PROVE  IInv'
BY TablesGotoKeeps, RecordsStay DEF IInv, tables, Records

(* The client goes away.                                                   *)
LEMMA CancelKeeps ==
  ASSUME IInv, NEW h \in Handlers, Cancel(h)
  PROVE  IInv'
<1>1. Records' /\ TableInv' /\ Grows
  BY TableStays, RecordsStay DEF Cancel, IInv, tables, Records
<1>2. \E q \in Request : q = req[h]
  BY DEF IInv, Requests
<1>3. Requests'
  BY <1>1, <1>2, GotoFits DEF IInv, Cancel
<1>4. QED
  BY <1>1, <1>3 DEF IInv

(* VerifyCredentials remembers what the row asks for.                      *)
LEMMA VerifyKeeps ==
  ASSUME IInv, NEW h \in Handlers, Verify(h)
  PROVE  IInv'
<1>1. ~ Resting(h) /\ ~ At(h, "revoke") /\ UNCHANGED <<tables, begun>>
  BY DEF Verify, At, Resting
<1>2. PICK q \in Request : q = req[h] /\ InStep(q, "verify")
  BY <1>1, InStepNow DEF IInv, Verify, At
<1>3. CASE Goto(h, "failed")
  BY <1>1, <1>2, <1>3, GotoKeeps
<1>4. CASE /\ q.op = "login"
           /\ req' = [req EXCEPT ![h].totp = users[q.who].totp,
                                 ![h].pc = IF users[q.who].weak THEN "rehash" ELSE "factor"]
  <2>1. Records' /\ TableInv' /\ Grows
    BY <1>1, TableStays, RecordsStay DEF IInv, tables, Records
  <2>2. req[h] \in Request /\ Fits(h) /\ users[q.who] \in Account /\ q.who \in Users
    BY <1>2 DEF IInv, Requests, Records, Request
  <2>3. PICK t \in {"off", "pending", "on"} : t = users[q.who].totp
    BY <2>2 DEF Account
  <2>4. PICK pc \in {"rehash", "factor"} : pc = IF users[q.who].weak THEN "rehash" ELSE "factor"
    OBVIOUS
  <2>5. req' = [req EXCEPT ![h] = [q EXCEPT !.totp = t, !.pc = pc]]
    BY <1>2, <1>4, <2>3, <2>4 DEF IInv, Requests, Request
  <2>6. [q EXCEPT !.totp = t, !.pc = pc] \in Request
    BY DEF Request, Steps
  <2>10. /\ req' \in [Handlers -> Request] /\ \A g \in Handlers : g # h => req'[g] = req[g]
         /\ req'[h] = [q EXCEPT !.totp = t, !.pc = pc]
    BY <2>5, <2>6 DEF IInv, Requests
  <2>11. req'[h].pc = pc /\ req'[h].op = "login" /\ req'[h].mark = q.mark
    BY <1>4, <2>10, ZenonT(60) DEF Request
  <2>7. q.mark = {}
    BY <1>1, <1>2, <2>2 DEF Fits, Marked, Resting
  <2>8. Fits(h)'
    BY <2>4, <2>7, <2>11 DEF Fits, InStep, Marked, At, ByOperator, WearsSession, HasReplacement,
                       AllOps, StaffOps
  <2>9. QED
    BY <2>1, <2>8, <2>10, OthersFit DEF IInv
<1>5. QED
  BY <1>2, <1>3, <1>4 DEF Verify, InStep

LEMMA SecondFactorKeeps ==
  ASSUME IInv, NEW h \in Handlers, SecondFactor(h)
  PROVE  IInv'
<1>1. ~ Resting(h) /\ ~ At(h, "revoke") /\ UNCHANGED <<tables, begun>>
  BY DEF SecondFactor, At, Resting
<1>2. PICK q \in Request : q = req[h] /\ InStep(q, "factor")
  BY <1>1, InStepNow DEF IInv, SecondFactor, At
<1>3. PICK pc : /\ pc = AfterPassword(q.totp, q.who \in keys, q.factor)
                /\ pc \in {"mint", "redeem", "failed", "take", "challenge"}
                /\ pc = "redeem" => q.factor \in Codes
                /\ pc = "take" => q.factor \in ChallengeIds
  BY DEF AfterPassword
<1>4. Goto(h, pc)
  BY <1>2, <1>3 DEF SecondFactor
<1>5. InStep(q, pc)
  BY <1>2, <1>3 DEF InStep, ByOperator, WearsSession, HasReplacement, AllOps, StaffOps
<1>6. QED
  BY <1>1, <1>2, <1>3, <1>4, <1>5, GotoKeeps DEF Steps

(* The session's account decides what becomes of a request.                *)
LEMMA LoadUserKeeps ==
  ASSUME IInv, NEW h \in Handlers, LoadUser(h)
  PROVE  IInv'
<1>1. ~ Resting(h) /\ ~ At(h, "revoke") /\ UNCHANGED <<tables, begun>>
  BY DEF LoadUser, At, Resting
<1>2. PICK q \in Request : q = req[h] /\ InStep(q, "user")
  BY <1>1, InStepNow DEF IInv, LoadUser, At
<1>3. q.op # "login" /\ q.op \in AllOps
  BY <1>2 DEF InStep
<1> DEFINE s == sessions[q.sess]
           row == users[s.user]
<1>4. PICK pc : pc = IF row.suspended THEN "evict" ELSE AfterAuth(q, s, row)
  OBVIOUS
<1>5. Goto(h, pc)
  BY <1>2, <1>4 DEF LoadUser
<1>6. /\ pc \in {"evict", "done", "close", "worn", "failed", "target", "hash", "flag",
                 "disable", "secret", "enable", "challenge", "take", "unkey"}
      /\ pc = "close" => q.op = "logout"
      /\ pc = "worn" => q.op = "stop"
      /\ pc = "target" => q.op = "impersonate" /\ s.user \in Staff /\ s.imp = Nobody
      /\ pc = "take" => q.op = "finish"
  BY <1>3, <1>4 DEF AfterAuth, AllOps, OwnOps, StaffOps
<1>7. InStep(q, pc) \/ pc \in {"failed", "done"}
  BY <1>2, <1>6 DEF InStep, ByOperator, WearsSession, HasReplacement
<1>8. QED
  BY <1>1, <1>2, <1>5, <1>6, <1>7, GotoKeeps DEF Steps

(* The customer's row and the worn session are read.                       *)
LEMMA ReadsKeep ==
  ASSUME IInv, NEW h \in Handlers, LoadTarget(h) \/ LookUpWorn(h)
  PROVE  IInv'
<1>1. ~ Resting(h) /\ ~ At(h, "revoke") /\ UNCHANGED <<tables, begun>>
  BY DEF LoadTarget, LookUpWorn, At, Resting
<1>2. PICK q \in Request : q = req[h] /\ InStep(q, q.pc)
  BY <1>1, InStepNow DEF IInv
<1>3. CASE LoadTarget(h)
  <2>1. q.pc = "target" /\ (Goto(h, "failed") \/ (Goto(h, "mint") /\ q.who \notin Staff))
    BY <1>2, <1>3 DEF LoadTarget, At
  <2>2. q.who \notin Staff => InStep(q, "mint")
    BY <1>2, <2>1 DEF InStep, ByOperator, WearsSession, HasReplacement
  <2>3. QED
    BY <1>1, <1>2, <2>1, <2>2, GotoKeeps DEF Steps
<1>4. CASE LookUpWorn(h)
  <2>1. q.pc = "worn" /\ (Goto(h, "failed") \/ (Goto(h, "operator") /\ sessions[q.sess].imp # Nobody))
    BY <1>2, <1>4 DEF LookUpWorn, At
  <2>2. sessions[q.sess].imp # Nobody => InStep(q, "operator")
    BY <1>2, <2>1 DEF InStep, ByOperator, WearsSession, HasReplacement
  <2>3. QED
    BY <1>1, <1>2, <2>1, <2>2, GotoKeeps DEF Steps
<1>5. QED
  BY <1>3, <1>4

(* Rows of the users table, and recovery codes.                            *)
LEMMA UserStepsKeep ==
  ASSUME IInv, NEW h \in Handlers,
         Rehash(h) \/ SetTOTP(h) \/ ReplaceRecoveryCodes(h) \/ RedeemRecoveryCode(h)
  PROVE  IInv'
<1>1. ~ Resting(h) /\ ~ At(h, "revoke") /\ UNCHANGED sessions
  BY DEF Rehash, SetTOTP, ReplaceRecoveryCodes, RedeemRecoveryCode, At, Resting
<1>2. PICK q \in Request : q = req[h] /\ InStep(q, q.pc)
  BY <1>1, InStepNow DEF IInv
<1>3. q.who \in Users /\ q.typed \in Passwords /\ users[q.who] \in Account
  BY DEF Request, IInv, Records
<1>4. CASE Rehash(h)
  <2>1. [users[q.who] EXCEPT !.pw = q.typed, !.weak = FALSE] \in Account
    BY <1>3 DEF Account
  <2>2. users' = [users EXCEPT ![q.who] = [users[q.who] EXCEPT !.pw = q.typed, !.weak = FALSE]]
    BY <1>2, <1>3, <1>4 DEF Rehash, IInv, Records
  <2>3. users' \in [Users -> Account]
    BY <2>1, <2>2 DEF IInv, Records
  <2>4. Records'
    BY <1>4, <2>3 DEF Rehash, IInv, Records, OneTimeProofsOnce, Fresh
  <2>5. q.pc = "rehash" /\ Goto(h, "factor")
    BY <1>2, <1>4 DEF Rehash, At
  <2>6. InStep(q, "factor")
    BY <1>2, <2>5 DEF InStep, ByOperator, WearsSession, HasReplacement
  <2>7. QED
    BY <1>1, <1>2, <2>4, <2>5, <2>6, TablesGotoKeeps DEF Steps
<1>5. CASE SetTOTP(h)
  <2>1. PICK t \in {"off", "pending", "on"} : users' = [users EXCEPT ![q.who].totp = t]
    BY <1>2, <1>5 DEF SetTOTP, At
  <2>2. [users[q.who] EXCEPT !.totp = t] \in Account
    BY <1>3 DEF Account
  <2>3. users' \in [Users -> Account]
    BY <1>3, <2>1, <2>2 DEF IInv, Records
  <2>4. Records'
    BY <1>5, <2>3 DEF SetTOTP, IInv, Records, OneTimeProofsOnce, Fresh
  <2>5. q.pc \in {"secret", "enable", "disable"} /\ (Goto(h, "done") \/ Goto(h, "codes"))
    BY <1>2, <1>5 DEF SetTOTP, At
  <2>6. InStep(q, "codes")
    BY <1>2, <2>5 DEF InStep, ByOperator, WearsSession, HasReplacement
  <2>7. QED
    BY <1>1, <1>2, <2>4, <2>5, <2>6, TablesGotoKeeps DEF Steps
<1>6. CASE ReplaceRecoveryCodes(h)
  <2>1. PICK S \in SUBSET Codes : codes' = [codes EXCEPT ![q.who] = S]
    BY <1>2, <1>6 DEF ReplaceRecoveryCodes
  <2>2. used' = [used EXCEPT ![q.who] = [c \in Codes |-> 0]]
    BY <1>2, <1>6 DEF ReplaceRecoveryCodes
  <2>3. codes' \in [Users -> SUBSET Codes] /\ used' \in [Users -> [Codes -> 0 .. 2]]
    BY <1>3, <2>1, <2>2 DEF IInv, Records
  <2>4. \A u \in Users : \/ codes'[u] = codes[u] /\ used'[u] = used[u]
                         \/ \A c \in Codes : used'[u][c] = 0
    BY <2>1, <2>2 DEF IInv, Records
  <2>5. Records'
    BY <1>6, <2>3, <2>4 DEF ReplaceRecoveryCodes, IInv, Records, OneTimeProofsOnce, Fresh
  <2>6. QED
    BY <1>1, <1>2, <1>6, <2>5, TablesGotoKeeps DEF ReplaceRecoveryCodes, Steps
<1>7. CASE RedeemRecoveryCode(h)
  <2>1. q.pc = "redeem" /\ q.factor \in Codes
    BY <1>2, <1>7 DEF RedeemRecoveryCode, At, InStep
  <2>2. CASE q.factor \in codes[q.who]
    <3>1. /\ codes' = [codes EXCEPT ![q.who] = @ \ {q.factor}]
          /\ used' = [used EXCEPT ![q.who][q.factor] = @ + 1]
          /\ Goto(h, "mint")
      BY <1>2, <1>7, <2>2 DEF RedeemRecoveryCode
    <3>2. used[q.who][q.factor] = 0
      BY <1>3, <2>1, <2>2 DEF IInv, Records, Fresh
    <3> DEFINE row == [used[q.who] EXCEPT ![q.factor] = 1]
    <3>8. used' = [used EXCEPT ![q.who] = row]
      BY <3>1, <3>2
    <3>9. row \in [Codes -> 0 .. 2] /\ row[q.factor] = 1 /\ \A c \in Codes : c # q.factor => row[c] = used[q.who][c]
      BY <1>3, <2>1 DEF IInv, Records
    <3> HIDE DEF row
    <3>3. codes' \in [Users -> SUBSET Codes] /\ used' \in [Users -> [Codes -> 0 .. 2]]
      <4>1. codes[q.who] \ {q.factor} \in SUBSET Codes
        BY <1>3 DEF IInv, Records
      <4>2. codes' \in [Users -> SUBSET Codes]
        BY <1>3, <3>1, <4>1 DEF IInv, Records
      <4>3. QED
        BY <1>3, <3>8, <3>9, <4>2 DEF IInv, Records
    <3>4. \A u \in Users, c \in Codes :
            \/ used'[u][c] = used[u][c] /\ (c \in codes'[u] => c \in codes[u])
            \/ used'[u][c] = 1 /\ c \notin codes'[u]
      BY <1>3, <2>1, <3>1, <3>8, <3>9 DEF IInv, Records
    <3>5. Records'
      <4>1. /\ UNCHANGED <<users, chosen, keys, challenges, begun>>
            /\ \A u \in Users, c \in Codes : used[u][c] <= 1 /\ (c \in codes[u] => used[u][c] = 0)
        BY <1>7 DEF RedeemRecoveryCode, IInv, Records, OneTimeProofsOnce, Fresh
      <4>2. \A u \in Users, c \in Codes : used'[u][c] <= 1 /\ (c \in codes'[u] => used'[u][c] = 0)
        BY <3>4, <4>1
      <4>3. QED
        BY <3>3, <4>1, <4>2 DEF IInv, Records, OneTimeProofsOnce, Fresh
    <3>6. InStep(q, "mint")
      BY <1>2, <2>1 DEF InStep, ByOperator, WearsSession, HasReplacement
    <3>7. QED
      BY <1>1, <1>2, <3>1, <3>5, <3>6, TablesGotoKeeps DEF Steps
  <2>3. CASE q.factor \notin codes[q.who]
    <3>1. Goto(h, "failed") /\ UNCHANGED <<tables, begun>>
      BY <1>2, <1>7, <2>3 DEF RedeemRecoveryCode, tables
    <3>2. QED
      BY <1>1, <1>2, <3>1, GotoKeeps
  <2>4. QED
    BY <2>2, <2>3
<1>8. QED
  BY <1>4, <1>5, <1>6, <1>7

(* A ceremony that is taken is one more login, and pending no more.        *)
LEMMA Taken ==
  ASSUME NEW d \in Challenge, NEW n \in 0 .. 2
  PROVE  LET e == [d EXCEPT !.purpose = "none", !.used = n] IN
         e \in Challenge /\ e.used = n /\ e.purpose = "none"
BY DEF Challenge

(* Passkey ceremonies and passkeys.                                        *)
LEMMA KeyStepsKeep ==
  ASSUME IInv, NEW h \in Handlers,
         StoreChallenge(h) \/ TakeChallenge(h) \/ CreatePasskey(h) \/ DeletePasskey(h)
  PROVE  IInv'
<1>1. ~ Resting(h) /\ ~ At(h, "revoke") /\ UNCHANGED sessions
  BY DEF StoreChallenge, TakeChallenge, CreatePasskey, DeletePasskey, At, Resting
<1>2. PICK q \in Request : q = req[h] /\ InStep(q, q.pc)
  BY <1>1, InStepNow DEF IInv
<1>3. q.who \in Users
  BY DEF Request
<1>4. \A c \in ChallengeIds : challenges[c] \in Challenge
  BY DEF IInv, Records
<1>5. CASE StoreChallenge(h)
  <2>1. PICK c \in ChallengeIds, p \in {"login", "register"} :
          /\ challenges[c].purpose = "none" /\ challenges[c].used = 0
          /\ challenges' = [challenges EXCEPT ![c].user = q.who, ![c].purpose = p]
    BY <1>2, <1>5 DEF StoreChallenge
  <2>2. /\ [challenges[c] EXCEPT !.user = q.who, !.purpose = p] \in Challenge
        /\ [challenges[c] EXCEPT !.user = q.who, !.purpose = p].used = 0
    BY <1>3, <1>4, <2>1 DEF Challenge
  <2>3. challenges' = [challenges EXCEPT ![c] = [challenges[c] EXCEPT !.user = q.who, !.purpose = p]]
    BY <1>4, <2>1 DEF IInv, Records
  <2>4. Records'
    BY <1>5, <2>2, <2>3 DEF StoreChallenge, IInv, Records, OneTimeProofsOnce, Fresh
  <2>5. Goto(h, "failed") \/ Goto(h, "done")
    BY <1>5 DEF StoreChallenge
  <2>6. QED
    BY <1>1, <1>2, <2>4, <2>5, TablesGotoKeeps DEF Steps
<1>6. CASE TakeChallenge(h)
  <2>1. q.pc = "take" /\ q.factor \in ChallengeIds /\ q.op \in {"login", "finish"}
    BY <1>2, <1>6 DEF TakeChallenge, At, InStep
  <2>2. CASE UNCHANGED challenges /\ Goto(h, "failed")
    <3>1. UNCHANGED <<tables, begun>>
      BY <1>6, <2>2 DEF TakeChallenge, tables
    <3>2. QED
      BY <1>1, <1>2, <2>2, <3>1, GotoKeeps
  <2>3. CASE /\ challenges[q.factor].purpose # "none"
             /\ challenges' = [challenges EXCEPT ![q.factor].purpose = "none", ![q.factor].used = @ + 1]
             /\ \E pc \in {"mint", "key", "failed"} : Goto(h, pc) /\ (pc = "mint" => q.op = "login")
    <3>1. challenges[q.factor].used = 0 /\ challenges[q.factor] \in Challenge
      BY <1>4, <2>1, <2>3 DEF IInv, Records, Fresh
    <3>2. PICK n \in 0 .. 2 : n = 1 /\ n = challenges[q.factor].used + 1
      BY <3>1
    <3>3. PICK d \in Challenge :
            /\ d.used = n /\ d.purpose = "none"
            /\ challenges' = [challenges EXCEPT ![q.factor] = d]
      <4>1. challenges' = [challenges EXCEPT ![q.factor] =
                             [challenges[q.factor] EXCEPT !.purpose = "none", !.used = n]]
        <5>1. challenges \in [ChallengeIds -> Challenge] /\ n = challenges[q.factor].used + 1
          BY <3>2 DEF IInv, Records
        <5>2. QED
          BY <2>1, <2>3, <5>1
      <4>2. QED
        BY <3>1, <4>1, Taken
    <3>4. Records'
      <4>1. /\ UNCHANGED <<users, chosen, codes, used, keys, begun>>
            /\ challenges' \in [ChallengeIds -> Challenge]
        BY <1>6, <2>1, <3>3 DEF TakeChallenge, IInv, Records
      <4>2. \A c \in ChallengeIds :
              challenges'[c] = challenges[c] \/ (challenges'[c].used = 1 /\ challenges'[c].purpose = "none")
        BY <2>1, <3>2, <3>3 DEF IInv, Records
      <4>3. QED
        BY <4>1, <4>2 DEF IInv, Records, OneTimeProofsOnce, Fresh
    <3>5. q.op = "login" => InStep(q, "mint")
      BY <1>2, <2>1 DEF InStep, ByOperator, WearsSession, HasReplacement
    <3>6. InStep(q, "key")
      BY <1>2, <2>1 DEF InStep, ByOperator, WearsSession, HasReplacement
    <3>7. QED
      BY <1>1, <1>2, <2>3, <3>4, <3>5, <3>6, TablesGotoKeeps DEF Steps
  <2>4. QED
    BY <1>2, <1>6, <2>1, <2>2, <2>3 DEF TakeChallenge
<1>7. CASE CreatePasskey(h) \/ DeletePasskey(h)
  <2>1. Records'
    BY <1>2, <1>3, <1>7 DEF CreatePasskey, DeletePasskey, IInv, Records, OneTimeProofsOnce, Fresh
  <2>2. Goto(h, "done")
    BY <1>7 DEF CreatePasskey, DeletePasskey
  <2>3. QED
    BY <1>1, <1>2, <2>1, <2>2, TablesGotoKeeps DEF Steps
<1>8. QED
  BY <1>5, <1>6, <1>7

(* Sessions that are opened: at a login, an impersonation, a return.       *)
LEMMA OpeningKeeps ==
  ASSUME IInv, NEW h \in Handlers, StartSession(h) \/ OpenReplacement(h)
  PROVE  IInv'
<1>1. ~ Resting(h) /\ ~ At(h, "revoke") /\ Free # {}
  BY DEF StartSession, OpenReplacement, At, Resting
<1>2. PICK q \in Request : q = req[h] /\ InStep(q, q.pc)
  BY <1>1, InStepNow DEF IInv
<1>3. Records'
  BY RecordsStay DEF StartSession, OpenReplacement, IInv, Records
<1>4. q.who \in Users
  BY DEF Request
<1>5. \A i \in SessionIds : Used(i) => sessions[i] \in Session
  BY DEF IInv, TableInv, Table, Used
<1>6. CASE StartSession(h)
  <2>1. q.pc = "mint" /\ Goto(h, "done") /\ q.op \in {"login", "impersonate"}
    BY <1>2, <1>6 DEF StartSession, At, InStep
  <2>2. TableInv' /\ Grows
    <3>1. CASE q.op = "impersonate"
      <4>1. /\ q.sess \in SessionIds /\ Used(q.sess) /\ q.who \notin Staff
            /\ sessions[q.sess].user \in Staff /\ sessions[q.sess].imp = Nobody
        BY <1>2, <2>1, <3>1 DEF InStep, ByOperator, StaffOps
      <4>2. sessions' = Minted(q.who, sessions[q.sess].user, "staff")
        BY <1>2, <1>6, <3>1 DEF StartSession
      <4>3. sessions[q.sess].user \in Users /\ sessions[q.sess].user # Nobody
        BY <1>5, <4>1, PeopleAssumption DEF Session
      <4>4. QED
        BY <1>1, <1>4, <4>1, <4>2, <4>3, MintedKeeps DEF IInv
    <3>2. CASE q.op # "impersonate"
      <4>1. sessions' = Minted(q.who, Nobody, "login")
        BY <1>2, <1>6, <3>2 DEF StartSession
      <4>2. QED
        BY <1>1, <1>4, <4>1, MintedKeeps DEF IInv
    <3>3. QED
      BY <3>1, <3>2
  <2>3. Requests'
    BY <1>1, <1>2, <2>1, <2>2, GotoFits DEF IInv, Steps
  <2>4. QED
    BY <1>3, <2>2, <2>3 DEF IInv
<1>7. CASE OpenReplacement(h)
  <2>1. /\ q.pc = "replace" /\ q.op = "stop" /\ Goto(h, "close")
        /\ q.sess \in SessionIds /\ Used(q.sess) /\ sessions[q.sess].imp # Nobody
    BY <1>2, <1>7 DEF OpenReplacement, At, InStep, WearsSession
  <2>2. PICK u \in Users : u = sessions[q.sess].imp
    BY <1>5, <2>1 DEF Session
  <2>3. sessions' = Minted(u, Nobody, "return")
    BY <1>2, <1>7, <2>2 DEF OpenReplacement
  <2>4. /\ TableInv' /\ Grows
        /\ \E i \in SessionIds : /\ Used(i)' /\ \A j \in SessionIds : Used(j) => j < i
                                 /\ sessions'[i].user = u /\ sessions'[i].by = "return"
    BY <1>1, <2>3, MintedKeeps DEF IInv
  <2>5. sessions'[q.sess].imp = u /\ Used(q.sess)'
    BY <2>1, <2>2, <2>4 DEF Grows
  <2>6. PICK i \in SessionIds : /\ Used(i)' /\ q.sess < i
                                /\ sessions'[i].user = u /\ sessions'[i].by = "return"
    BY <2>1, <2>4
  <2>7. i \in q.sess + 1 .. MaxSessions
    BY <2>1, <2>6, BoundAssumption DEF SessionIds
  <2>8. HasReplacement(q, "close")'
    BY <2>5, <2>6, <2>7 DEF HasReplacement
  <2>9. InStep(q, "close")'
    <3>1. q.op \in AllOps /\ ~ (q.op \in StaffOps)
      BY <2>1 DEF AllOps, StaffOps
    <3>2. sessions'[q.sess].imp # Nobody
      BY <2>2, <2>5, PeopleAssumption
    <3>3. QED
      BY <2>1, <2>5, <2>8, <3>1, <3>2 DEF InStep, ByOperator, WearsSession
  <2>10. Requests'
    BY <1>1, <1>2, <2>1, <2>4, <2>9, GotoFits DEF IInv, Steps
  <2>11. QED
    BY <1>3, <2>4, <2>10 DEF IInv
<1>8. QED
  BY <1>6, <1>7

(* Sessions that end: looked up too late, of a suspended account, worn by  *)
(* an operator who may sign in no more, signed out of, revoked.            *)
LEMMA ClosingKeeps ==
  ASSUME IInv, NEW h \in Handlers,
         LookUpSession(h) \/ Evict(h) \/ LoadOperator(h) \/ CloseSession(h) \/ DeleteUserSessions(h)
  PROVE  IInv'
<1>1. ~ Resting(h)
  BY DEF LookUpSession, Evict, LoadOperator, CloseSession, DeleteUserSessions, At, Resting
<1>2. PICK q \in Request : q = req[h] /\ InStep(q, q.pc)
  BY <1>1, InStepNow DEF IInv
<1>3. Records'
  BY RecordsStay DEF LookUpSession, Evict, LoadOperator, CloseSession, DeleteUserSessions, IInv, Records
<1>4. ASSUME NEW S, sessions' = Ended(S, "closed") PROVE TableInv' /\ Grows /\ \A i \in S \cap SessionIds : ~ Open(i)'
  BY <1>4, EndedKeeps DEF IInv
<1>5. CASE LookUpSession(h)
  <2>1. q.pc = "session" /\ ~ At(h, "revoke")
    BY <1>2, <1>5 DEF LookUpSession, At
  <2>2. CASE Goto(h, "user") /\ UNCHANGED sessions
    <3>1. TableInv' /\ Grows
      BY <2>2, TableStays DEF IInv
    <3>2. InStep(q, "user")
      BY <1>2, <2>1 DEF InStep, ByOperator, WearsSession, HasReplacement
    <3>3. QED
      BY <1>1, <1>2, <1>3, <2>1, <2>2, <3>1, <3>2, TablesGotoKeeps DEF Steps
  <2>3. CASE Goto(h, "failed") /\ sessions' = Ended({req[h].sess}, "closed")
    <3>1. TableInv' /\ Grows
      BY <1>4, <2>3
    <3>2. Requests'
      BY <1>1, <1>2, <2>3, <3>1, GotoFits DEF IInv
    <3>3. QED
      BY <1>3, <3>1, <3>2 DEF IInv
  <2>4. QED
    BY <1>5, <2>2, <2>3 DEF LookUpSession
<1>6. CASE Evict(h)
  <2>1. TableInv' /\ Grows
    BY <1>4, <1>6 DEF Evict
  <2>2. Requests'
    BY <1>1, <1>2, <1>6, <2>1, GotoFits DEF IInv, Evict
  <2>3. QED
    BY <1>3, <2>1, <2>2 DEF IInv
<1>7. CASE LoadOperator(h)
  <2>1. q.pc = "operator" /\ ~ At(h, "revoke")
    BY <1>2, <1>7 DEF LoadOperator, At
  <2>2. CASE Goto(h, "replace") /\ UNCHANGED sessions
    <3>1. InStep(q, "replace")
      BY <1>2, <2>1 DEF InStep, ByOperator, WearsSession, HasReplacement
    <3>2. QED
      BY <1>1, <1>2, <1>3, <2>1, <2>2, <3>1, TablesGotoKeeps DEF Steps
  <2>3. CASE Goto(h, "failed") /\ sessions' = Ended({req[h].sess}, "closed")
    <3>1. TableInv' /\ Grows
      BY <1>4, <2>3
    <3>2. Requests'
      BY <1>1, <1>2, <2>3, <3>1, GotoFits DEF IInv
    <3>3. QED
      BY <1>3, <3>1, <3>2 DEF IInv
  <2>4. QED
    BY <1>7, <2>2, <2>3 DEF LoadOperator
<1>8. CASE CloseSession(h)
  <2>1. q.pc = "close" /\ ~ At(h, "revoke") /\ Goto(h, "done")
    BY <1>2, <1>8 DEF CloseSession, At
  <2>2. TableInv' /\ Grows
    <3>1. CASE q.op = "stop"
      <4>1. sessions' = Ended({q.sess}, "returned")
        BY <1>2, <1>8, <3>1 DEF CloseSession
      <4>2. HasReplacement(q, "close")
        BY <1>2, <2>1 DEF InStep
      <4>3. QED
        BY <3>1, <4>1, <4>2, EndedKeeps DEF IInv, HasReplacement
    <3>2. CASE q.op # "stop"
      BY <1>2, <1>4, <1>8, <3>2 DEF CloseSession
    <3>3. QED
      BY <3>1, <3>2
  <2>3. Requests'
    BY <1>1, <1>2, <2>1, <2>2, GotoFits DEF IInv, Steps
  <2>4. QED
    BY <1>3, <2>2, <2>3 DEF IInv
<1>9. CASE DeleteUserSessions(h)
  <2>1. Goto(h, "done") /\ sessions' = Ended(SessionsOf(q.who), "closed")
    BY <1>2, <1>9 DEF DeleteUserSessions
  <2>2. TableInv' /\ Grows /\ \A i \in SessionsOf(q.who) : ~ Open(i)'
    BY <1>4, <2>1 DEF SessionsOf
  <2>3. \A i \in SessionsOf(req[h].who) : ~ Open(i)'
    BY <1>2, <2>2
  <2>4. Requests'
    BY <1>1, <1>2, <2>1, <2>2, <2>3, GotoFits DEF IInv, Steps
  <2>5. QED
    BY <1>3, <2>2, <2>4 DEF IInv
<1>10. QED
  BY <1>5, <1>6, <1>7, <1>8, <1>9

(* A new password and a suspension mark what is signed in.                 *)
LEMMA MarkingKeeps ==
  ASSUME IInv, NEW h \in Handlers, SetPasswordHash(h) \/ SetUserSuspended(h)
  PROVE  IInv'
<1>1. ~ Resting(h) /\ ~ At(h, "revoke") /\ UNCHANGED <<sessions, codes, used, keys, challenges, begun>>
  BY DEF SetPasswordHash, SetUserSuspended, At, Resting
<1>2. PICK q \in Request : q = req[h] /\ InStep(q, q.pc)
  BY <1>1, InStepNow DEF IInv
<1>3. q.who \in Users /\ q.new \in Passwords /\ users[q.who] \in Account
  BY DEF Request, IInv, Records
<1>4. TableInv' /\ Grows
  BY <1>1, TableStays DEF IInv
<1>5. Records'
  <2>1. PICK u \in Account : users' = [users EXCEPT ![q.who] = u]
    <3>1. CASE SetPasswordHash(h)
      <4>1. [users[q.who] EXCEPT !.pw = q.new, !.weak = FALSE] \in Account
        BY <1>3 DEF Account
      <4>2. QED
        BY <1>2, <1>3, <3>1, <4>1 DEF SetPasswordHash, IInv, Records
    <3>2. CASE SetUserSuspended(h)
      <4>1. PICK b \in BOOLEAN : users' = [users EXCEPT ![q.who].suspended = b]
        BY <1>2, <3>2 DEF SetUserSuspended
      <4>2. [users[q.who] EXCEPT !.suspended = b] \in Account
        BY <1>3 DEF Account
      <4>3. QED
        BY <1>3, <4>1, <4>2 DEF IInv, Records
    <3>3. QED
      BY <3>1, <3>2
  <2>2. chosen' \in [Users -> Passwords]
    BY <1>2, <1>3 DEF SetPasswordHash, SetUserSuspended, IInv, Records
  <2>3. QED
    BY <1>1, <2>1, <2>2 DEF IInv, Records, OneTimeProofsOnce, Fresh
<1>6. CASE req' = [req EXCEPT ![h] = NoRequest]
  <2>1. /\ req' \in [Handlers -> Request] /\ req'[h] = NoRequest
        /\ \A g \in Handlers : g # h => req'[g] = req[g]
    BY <1>6, NoRequestTyped DEF IInv, Requests
  <2>2. QED
    BY <1>4, <1>5, <2>1, NoRequestFits, OthersFit DEF IInv
<1>7. CASE req' = [req EXCEPT ![h].mark = SessionsOf(q.who), ![h].pc = "revoke"]
  <2>1. PICK m \in SUBSET SessionIds : m = SessionsOf(q.who)
    BY DEF SessionsOf
  <2>2. [q EXCEPT !.mark = m, !.pc = "revoke"] \in Request
    BY DEF Request, Steps
  <2>3. req' = [req EXCEPT ![h] = [q EXCEPT !.mark = m, !.pc = "revoke"]]
    BY <1>2, <1>7, <2>1 DEF IInv, Requests
  <2>4. /\ req' \in [Handlers -> Request] /\ \A g \in Handlers : g # h => req'[g] = req[g]
        /\ req'[h] = [q EXCEPT !.mark = m, !.pc = "revoke"]
    BY <2>2, <2>3 DEF IInv, Requests
  <2>5. /\ req'[h].pc = "revoke" /\ req'[h].mark = m /\ req'[h].who = q.who
        /\ req'[h].op = q.op /\ req'[h].sess = q.sess /\ req'[h].factor = q.factor
    BY <2>4 DEF Request
  <2>6. m \subseteq SessionsOf(q.who)'
    BY <1>1, <2>1 DEF SessionsOf, Used
  <2>7. Marked(h)'
    BY <2>5, <2>6 DEF Marked, At, SessionsOf
  <2>8. InStep(q, "revoke")
    BY <1>2 DEF InStep, ByOperator, WearsSession, HasReplacement
  <2>9. InStep(q, "revoke")'
    BY <1>4, <2>8, InStepKept
  <2>10. InStep(req[h], req[h].pc)'
    BY <2>5, <2>9 DEF InStep, ByOperator, WearsSession, HasReplacement
  <2>11. QED
    BY <1>4, <1>5, <2>4, <2>7, <2>10, OthersFit DEF IInv, Fits
<1>8. QED
  BY <1>2, <1>6, <1>7 DEF SetPasswordHash, SetUserSuspended

(* Time passes.                                                            *)
LEMMA TimeKeeps ==
  ASSUME IInv, PurgeExpiredSessions \/ ChallengeExpires
  PROVE  IInv'
<1>1. UNCHANGED <<users, chosen, codes, used, keys, req, begun>>
  BY DEF PurgeExpiredSessions, ChallengeExpires
<1>2. TableInv' /\ Grows
  <2>1. CASE PurgeExpiredSessions
    <3>1. PICK i \in SessionIds : sessions' = Ended({i}, "closed")
      BY <2>1 DEF PurgeExpiredSessions
    <3>2. QED
      BY <3>1, EndedKeeps DEF IInv
  <2>2. CASE ChallengeExpires
    BY <2>2, TableStays DEF ChallengeExpires, IInv
  <2>3. QED
    BY <2>1, <2>2
<1>3. Records'
  <2>1. CASE PurgeExpiredSessions
    BY <2>1, RecordsStay DEF PurgeExpiredSessions, IInv, Records
  <2>2. CASE ChallengeExpires
    <3>1. PICK c \in ChallengeIds : challenges' = [challenges EXCEPT ![c].purpose = "none"]
      BY <2>2 DEF ChallengeExpires
    <3>2. /\ [challenges[c] EXCEPT !.purpose = "none"] \in Challenge
          /\ [challenges[c] EXCEPT !.purpose = "none"].used = challenges[c].used
          /\ [challenges[c] EXCEPT !.purpose = "none"].purpose = "none"
      BY DEF IInv, Records, Challenge
    <3>3. QED
      BY <1>1, <3>1, <3>2 DEF IInv, Records, OneTimeProofsOnce, Fresh
  <2>3. QED
    BY <2>1, <2>2
<1>4. Requests'
  <2> SUFFICES ASSUME NEW h \in Handlers PROVE Fits(h)'
    BY <1>1 DEF IInv, Requests
  <2>1. /\ req'[h] = req[h] /\ req[h] \in Request /\ Fits(h)
        /\ req' \in [Handlers -> Request]
    BY <1>1 DEF IInv, Requests
  <2>2. PICK q \in Request : q = req[h]
    BY <2>1
  <2>3. InStep(q, q.pc) => InStep(q, q.pc)'
    BY <1>2, InStepKept
  <2>4. Resting(h)' \/ InStep(req[h], req[h].pc)'
    BY <2>1, <2>2, <2>3 DEF Fits, Resting, At
  <2>5. Marked(h)'
    BY <1>2, <2>1 DEF Fits, Marked, At, Grows, SessionsOf, Request
  <2>6. QED
    BY <2>4, <2>5 DEF Fits
<1>5. QED
  BY <1>2, <1>3, <1>4 DEF IInv

-----------------------------------------------------------------------------
LEMMA InitIInv == Init => IInv
<1> SUFFICES ASSUME Init PROVE IInv
  OBVIOUS
<1>1. Records
  BY FirstAssumption, PeopleAssumption, BoundAssumption
     DEF Init, Records, Account, Challenge, OneTimeProofsOnce, Fresh
<1> DEFINE s == [user |-> FirstSignedIn, imp |-> Nobody, by |-> "login", end |-> "open"]
<1>2. s \in Session /\ s # NoSession /\ s.imp = Nobody /\ s.by = "login" /\ s.end = "open"
  BY PeopleAssumption, NoSessionAssumption DEF Session
<1>3. \A i \in SessionIds : sessions[i] = IF i > 1 THEN NoSession ELSE s
  BY DEF Init
<1> HIDE DEF s
<1>4. \A i \in SessionIds : Used(i) => i = 1 /\ sessions[i] = s
  BY <1>3, BoundAssumption DEF Used, SessionIds
<1>5. TableInv
  <2>1. sessions \in [SessionIds -> Session \cup {NoSession}]
    BY <1>2 DEF Init, s
  <2>2. \A i, j \in SessionIds : i < j /\ Used(j) => Used(i)
    BY <1>4, BoundAssumption DEF SessionIds
  <2>3. QED
    BY <1>2, <1>4, <2>1, <2>2 DEF TableInv, Table, NoSecondHop, OperatorComesBack
<1>6. Requests
  <2>1. \A h \in Handlers : req[h] = NoRequest /\ req \in [Handlers -> Request]
    BY NoRequestTyped DEF Init
  <2>2. req \in [Handlers -> Request]
    BY NoRequestTyped DEF Init
  <2>3. QED
    BY <2>1, <2>2 DEF Requests, Fits, Resting, At, Marked, NoRequest
<1>7. QED
  BY <1>1, <1>5, <1>6 DEF IInv

LEMMA NextIInv == IInv /\ [Next]_vars => IInv'
<1> SUFFICES ASSUME IInv, [Next]_vars PROVE IInv'
  OBVIOUS
<1>1. ASSUME NEW h \in Handlers, BeginLogin(h) \/ BeginWith(h) PROVE IInv'
  BY <1>1, BeginKeeps
<1>2. ASSUME NEW h \in Handlers, Handle(h) PROVE IInv'
  BY <1>2, VerifyKeeps, SecondFactorKeeps, LoadUserKeeps, ReadsKeep, UserStepsKeep, KeyStepsKeep,
     OpeningKeeps, ClosingKeeps, MarkingKeeps
     DEF Handle
<1>3. ASSUME NEW h \in Handlers, Cancel(h) PROVE IInv'
  BY <1>3, CancelKeeps
<1>4. CASE PurgeExpiredSessions \/ ChallengeExpires
  BY <1>4, TimeKeeps
<1>5. CASE UNCHANGED vars
  BY <1>5 DEF vars, IInv, Records, OneTimeProofsOnce, Fresh, TableInv, Table, NoSecondHop,
              OperatorComesBack, Used, Open, Requests, Fits, InStep, ByOperator, WearsSession,
              HasReplacement, Marked, SessionsOf, At, Resting
<1>6. QED
  BY <1>1, <1>2, <1>3, <1>4, <1>5 DEF Next

LEMMA Invariance == Spec => []IInv
BY InitIInv, NextIInv, PTL DEF Spec

(* Types, proofs that let in once, and staff who are one step from whom    *)
(* they sign in as: in every state, whatever runs at the same time.        *)
THEOREM ProofsOnceAndNoSecondHop == Spec => []SessionsInv
<1>1. IInv => SessionsInv
  BY DEF IInv, Records, TableInv, Table, Requests, SessionsInv, TypeOK
<1>2. QED
  BY <1>1, Invariance, PTL

(* Whatever interrupts a return to one's own account, the operator has a   *)
(* session for the one that was given up.                                  *)
THEOREM OperatorsComeBack == Spec => []OperatorComesBack
<1>1. IInv => OperatorComesBack
  BY DEF IInv, TableInv
<1>2. QED
  BY <1>1, Invariance, PTL

(* A password change or a suspension that was answered has ended every     *)
(* session it was to end, and none of them opens again.                    *)
THEOREM RevocationsAreComplete == Spec => []RevocationIsComplete
<1>1. IInv => RevocationIsComplete
  BY DEF IInv, Requests, Fits, Marked, RevocationIsComplete
<1>2. QED
  BY <1>1, Invariance, PTL
=============================================================================
