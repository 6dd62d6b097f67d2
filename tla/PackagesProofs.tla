--------------------------- MODULE PackagesProofs ---------------------------
(***************************************************************************)
(* What Packages guarantees for every set of customers, resellers and      *)
(* packages, however many requests and jobs run at the same time and       *)
(* wherever they fail: limits follow packages, and nobody hands out more   *)
(* than they may.                                                          *)
(*                                                                         *)
(* The invariant says three things.  A request is at a step of its         *)
(* operation (InStep).  What it read is still so unless it was overtaken   *)
(* (Knows): every step that writes a table marks the others.  And an       *)
(* account whose limit is not that of its package is somebody's to see to  *)
(* or has been given up (Settled).                                         *)
(***************************************************************************)
EXTENDS Packages, FiniteSetTheorems, WellFoundedInduction, TLAPS

(* Which requests may be at a step, and what they have at hand.            *)
InStep(h, q) ==
  /\ h \in Jobs => q.op \in {"none", "reapply"}
  /\ q.op = "reapply" => h \in Jobs /\ q.pc \in {"next", "read", "set"}
  /\ q.todo # {} => q.op = "reapply"
  /\ q.pc = "next" => q.op = "reapply"
  /\ q.pc \in {"allow", "assign"} => q.op \in {"create", "assign"}
  /\ q.pc = "before" => q.op = "assign"
  /\ q.pc = "insert" => q.op = "create"
  /\ q.pc = "plan" => q.op \in {"create", "assign", "update", "delete"}
  /\ q.op \in {"new", "update", "delete"} => q.plan \in PlanIds
  /\ q.pc \in {"may", "add"} => q.op = "new"
  /\ q.pc \in {"write", "list"} => q.op = "update"
  /\ q.pc = "drop" => q.op = "delete"
  /\ q.pc = "limits" => q.to \in Resellers
  /\ q.op = "assign" \/ q.pc = "assign" => users[q.who].made

(* What an administrator may always do, and a reseller has room for.       *)
Room(q) ==
  q.by \in Resellers =>
    /\ q.pc = "insert" => RoomForAccount(q.by) /\ RoomFor(q.by, q.size)
    /\ q.pc = "assign" /\ q.op = "create" => RoomFor(q.by, q.size)
    /\ q.pc = "assign" /\ q.op = "assign" =>
         q.size <= q.before \/ RoomFor(q.by, q.size - q.before)

(* What a request that was not overtaken has read is still so.             *)
Knows(q) ==
  ~ q.overtaken =>
    /\ q.pc = "set" => q.limit = SizeOf(users[q.who].plan)
    /\ q.pc = "write" => q.before = SizeOf(q.plan)
    /\ q.pc \in {"plan", "allow", "assign"} /\ q.op = "assign" =>
         q.before \in {0, SizeOf(users[q.who].plan)}
    /\ q.pc = "assign" /\ q.op = "create" => users[q.who].plan = NoPlan
    /\ q.pc \in {"allow", "insert", "assign"} => q.size = SizeOf(q.plan)
    /\ Room(q)

(* The accounts whose limit a request is about to set.                     *)
Owing(q) ==
  (IF q.pc \in {"read", "set"} THEN {q.who} ELSE {})
    \cup (IF q.pc = "list" THEN OnPlan(q.plan) ELSE q.todo)

Settled(u) ==
  \/ u \in owed
  \/ quota[u] = SizeOf(users[u].plan)
  \/ \E h \in Actors : u \in Owing(req[h])

IInv ==
  /\ TypeOK
  /\ \A h \in Actors : InStep(h, req[h]) /\ Knows(req[h])
  /\ \A u \in Customers : Settled(u)

-----------------------------------------------------------------------------
(* Sums.  Adding up a function over a finite set does not depend on the    *)
(* order, so what one account is given changes the sum by just that.       *)

Some(S) == CHOOSE x \in S : TRUE

(* What the fold of the community module computes, as a fact about a       *)
(* function of the subsets of S.                                           *)
Adds(w, S, g) ==
  g = [T \in SUBSET S |-> IF T = {} THEN 0 ELSE w[Some(T)] + g[T \ {Some(T)}]]

Sum(w, S) == (CHOOSE g : Adds(w, S, g))[S]

LEMMA Least ==
  ASSUME NEW N \in SUBSET Nat, N # {}
  PROVE  \E n \in N : \A k \in N : n <= k
<1>1. PICK n \in N : \A k \in N : ~ (<<k, n>> \in OpToRel(<, Nat))
  BY WFMin, NatLessThanWellFounded
<1>2. \A k \in N : ~ (k < n)
  BY <1>1 DEF OpToRel
<1>3. QED
  BY <1>2

(* A set of sets that is not empty has one of the smallest.                *)
LEMMA Smallest ==
  ASSUME NEW S, IsFiniteSet(S), NEW Z \in SUBSET SUBSET S, Z # {}
  PROVE  \E T \in Z : \A U \in Z : U \subseteq T => U = T
<1>1. \A T \in Z : IsFiniteSet(T) /\ Cardinality(T) \in Nat
  BY FS_Subset, FS_CardinalityType
<1>2. PICK Ns : Ns = {Cardinality(T) : T \in Z}
  OBVIOUS
<1>3. Ns \subseteq Nat /\ Ns # {}
  BY <1>1, <1>2
<1>4. PICK n \in Ns : \A k \in Ns : n <= k
  BY <1>3, Least
<1>5. PICK T \in Z : Cardinality(T) = n
  BY <1>2, <1>4
<1>6. ASSUME NEW U \in Z, U \subseteq T PROVE U = T
  <2>1. Cardinality(U) <= Cardinality(T) /\ Cardinality(T) <= Cardinality(U)
    BY <1>1, <1>2, <1>4, <1>5, <1>6, FS_Subset
  <2>2. Cardinality(U) = Cardinality(T)
    BY <2>1, <1>1
  <2>3. QED
    BY <2>2, <1>1, <1>6, FS_Subset
<1>7. QED
  BY <1>6

(* There is such a function: extend one of the smaller sets' by one size.  *)
LEMMA AddsExists ==
  ASSUME NEW S, IsFiniteSet(S), NEW w \in [S -> Nat]
  PROVE  \E g : Adds(w, S, g)
<1> DEFINE Upto(n) == {T \in SUBSET S : Cardinality(T) <= n}
           Fits(g, n) == g = [T \in Upto(n) |-> IF T = {} THEN 0 ELSE w[Some(T)] + g[T \ {Some(T)}]]
           Bad == {n \in Nat : ~ \E g : Fits(g, n)}
<1>1. \A T \in SUBSET S : IsFiniteSet(T) /\ Cardinality(T) \in Nat /\ Cardinality(T) <= Cardinality(S)
  BY FS_Subset, FS_CardinalityType
<1>2. \A T \in SUBSET S : T # {} => /\ Some(T) \in T
                                    /\ T \ {Some(T)} \in SUBSET S
                                    /\ Cardinality(T \ {Some(T)}) = Cardinality(T) - 1
  BY <1>1, FS_RemoveElement DEF Some
<1>3. ASSUME Bad # {} PROVE FALSE
  <2>1. PICK n \in Bad : \A k \in Bad : n <= k
    <3> HIDE DEF Bad
    <3>1. Bad \in SUBSET Nat
      BY DEF Bad
    <3>2. QED
      BY <3>1, <1>3, Least
  <2>2. n \in Nat /\ \A k \in Bad : n <= k
    BY <2>1
  <2>3. CASE n = 0
    <3>1. \A T \in Upto(0) : T = {}
      BY <1>1, FS_EmptySet
    <3>2. PICK g : g = [T \in Upto(0) |-> 0]
      OBVIOUS
    <3>3. Fits(g, 0)
      BY <3>1, <3>2
    <3>4. QED
      BY <2>1, <2>3, <3>3
  <2>4. CASE n # 0
    <3>1. n - 1 \in Nat /\ n - 1 \notin Bad
      <4> HIDE DEF Bad
      <4>1. n - 1 \in Nat /\ ~ (n <= n - 1)
        BY <2>2, <2>4
      <4>2. QED
        BY <4>1, <2>2
    <3>2. PICK f : Fits(f, n - 1)
      BY <3>1
    <3>3. PICK g : g = [T \in Upto(n) |-> IF T = {} THEN 0 ELSE w[Some(T)] + f[T \ {Some(T)}]]
      OBVIOUS
    <3>4. \A T \in Upto(n) : T # {} => T \ {Some(T)} \in Upto(n - 1)
      BY <1>1, <1>2, <2>2
    <3>5. \A T \in Upto(n - 1) : T \in Upto(n) /\ g[T] = f[T]
      <4>1. SUFFICES ASSUME NEW T \in Upto(n - 1) PROVE T \in Upto(n) /\ g[T] = f[T]
        OBVIOUS
      <4>2. T \in Upto(n)
        BY <1>1, <2>2
      <4>3. f[T] = IF T = {} THEN 0 ELSE w[Some(T)] + f[T \ {Some(T)}]
        BY <3>2
      <4>4. QED
        BY <3>3, <4>2, <4>3
    <3>6. Fits(g, n)
      BY <3>3, <3>4, <3>5
    <3>7. QED
      BY <2>1, <3>6
  <2>5. QED
    BY <2>3, <2>4
<1>4. Cardinality(S) \in Nat
  BY FS_CardinalityType
<1>5. PICK g : Fits(g, Cardinality(S))
  BY <1>3, <1>4
<1>6. Upto(Cardinality(S)) = SUBSET S
  BY <1>1
<1>7. QED
  BY <1>5, <1>6 DEF Adds

(* Any such function takes any one element out, and is a number.           *)
LEMMA AddsAnyOrder ==
  ASSUME NEW S, IsFiniteSet(S), NEW w \in [S -> Nat], NEW g, Adds(w, S, g)
  PROVE  \A T \in SUBSET S : g[T] \in Nat /\ \A x \in T : g[T] = w[x] + g[T \ {x}]
<1> DEFINE Good(T) == g[T] \in Nat /\ \A x \in T : g[T] = w[x] + g[T \ {x}]
           Bad == {T \in SUBSET S : ~ Good(T)}
<1>1. \A T \in SUBSET S : g[T] = IF T = {} THEN 0 ELSE w[Some(T)] + g[T \ {Some(T)}]
  BY DEF Adds
<1>2. ASSUME Bad # {} PROVE FALSE
  <2>1. PICK T \in Bad : \A U \in Bad : U \subseteq T => U = T
    <3> HIDE DEF Bad
    <3>1. Bad \in SUBSET SUBSET S
      BY DEF Bad
    <3>2. QED
      BY <3>1, <1>2, Smallest
  <2>2. T \in SUBSET S /\ T # {}
    <3>1. {} \in SUBSET S /\ g[{}] = 0
      BY <1>1
    <3>2. Good({})
      BY <3>1
    <3>3. QED
      BY <2>1, <3>2
  <2>3. \A y \in T : T \ {y} \in SUBSET S /\ Good(T \ {y})
    BY <2>1, <2>2
  <2>4. PICK y : y = Some(T) /\ y \in T
    BY <2>2 DEF Some
  <2>5. g[T] = w[y] + g[T \ {y}] /\ w[y] \in Nat
    BY <1>1, <2>2, <2>4
  <2>6. g[T] \in Nat
    BY <2>3, <2>4, <2>5
  <2>7. ASSUME NEW x \in T, x # y PROVE g[T] = w[x] + g[T \ {x}]
    <3>1. PICK U : U = (T \ {y}) \ {x} /\ U = (T \ {x}) \ {y}
      OBVIOUS
    <3>2. g[T \ {y}] = w[x] + g[U] /\ g[T \ {x}] = w[y] + g[U]
      BY <2>3, <2>4, <2>7, <3>1
    <3>3. g[U] \in Nat /\ w[x] \in Nat
      <4>1. U \in SUBSET S /\ U \subseteq T /\ U # T /\ x \in S
        BY <2>2, <2>4, <3>1
      <4>2. Good(U)
        BY <4>1, <2>1
      <4>3. QED
        BY <4>1, <4>2
    <3>4. QED
      <4> HIDE DEF Good
      <4>1. g[T] = w[y] + (w[x] + g[U])
        BY <2>5, <3>2
      <4>2. QED
        BY <4>1, <2>5, <3>2, <3>3
  <2>8. QED
    BY <2>1, <2>5, <2>6, <2>7
<1>3. QED
  BY <1>2

(* It says of a subset what it would say of it alone, and looks at the     *)
(* elements only.                                                          *)
LEMMA AddsAgree ==
  ASSUME NEW S, IsFiniteSet(S), NEW B \in SUBSET S, NEW w, NEW v,
         \A x \in B : w[x] = v[x],
         NEW f, Adds(w, B, f), NEW g, Adds(v, S, g)
  PROVE  \A T \in SUBSET B : f[T] = g[T]
<1> DEFINE Bad == {T \in SUBSET B : f[T] # g[T]}
<1>1. /\ \A T \in SUBSET B : f[T] = IF T = {} THEN 0 ELSE w[Some(T)] + f[T \ {Some(T)}]
      /\ \A T \in SUBSET S : g[T] = IF T = {} THEN 0 ELSE v[Some(T)] + g[T \ {Some(T)}]
  BY DEF Adds
<1>2. ASSUME Bad # {} PROVE FALSE
  <2>1. IsFiniteSet(B)
    BY FS_Subset
  <2>2. PICK T \in Bad : \A U \in Bad : U \subseteq T => U = T
    <3> HIDE DEF Bad
    <3>1. Bad \in SUBSET SUBSET B
      BY DEF Bad
    <3>2. QED
      BY <3>1, <1>2, <2>1, Smallest
  <2>3. T \in SUBSET B /\ T \in SUBSET S /\ T # {}
    BY <1>1, <2>2
  <2>4. Some(T) \in T /\ T \ {Some(T)} \in SUBSET B
    BY <2>3 DEF Some
  <2>5. f[T \ {Some(T)}] = g[T \ {Some(T)}]
    BY <2>2, <2>4
  <2>6. f[T] = g[T]
    BY <1>1, <2>3, <2>4, <2>5
  <2>7. QED
    BY <2>2, <2>6
<1>3. QED
  BY <1>2

LEMMA SumAlone ==
  ASSUME NEW S, IsFiniteSet(S), NEW B \in SUBSET S, NEW w, NEW v \in [S -> Nat],
         \A x \in B : w[x] = v[x], NEW g, Adds(v, S, g)
  PROVE  Sum(w, B) = g[B]
<1>1. PICK b : b = [x \in B |-> v[x]]
  OBVIOUS
<1>2. b \in [B -> Nat] /\ IsFiniteSet(B)
  BY <1>1, FS_Subset
<1>3. PICK f : Adds(b, B, f)
  BY <1>2, AddsExists
<1>4. Adds(w, B, f)
  BY <1>1, <1>3, ZenonT(60) DEF Adds, Some
<1>5. PICK c : c = (CHOOSE e : Adds(w, B, e)) /\ Adds(w, B, c)
  BY <1>4
<1>6. \A T \in SUBSET B : c[T] = g[T]
  BY <1>5, AddsAgree
<1>7. QED
  BY <1>5, <1>6 DEF Sum

(* Sums are numbers,                                                       *)
LEMMA SumType ==
  ASSUME NEW S, IsFiniteSet(S), NEW w \in [S -> Nat], NEW B \in SUBSET S
  PROVE  Sum(w, B) \in Nat
<1>1. PICK g : Adds(w, S, g)
  BY AddsExists
<1>2. Sum(w, B) = g[B]
  BY <1>1, SumAlone
<1>3. g[B] \in Nat
  BY <1>1, AddsAnyOrder
<1>4. QED
  BY <1>2, <1>3

(* an element adds its own,                                                *)
LEMMA SumTakeOut ==
  ASSUME NEW S, IsFiniteSet(S), NEW w \in [S -> Nat], NEW B \in SUBSET S, NEW x \in B
  PROVE  Sum(w, B) = w[x] + Sum(w, B \ {x})
<1>1. PICK g : Adds(w, S, g)
  BY AddsExists
<1>2. Sum(w, B) = g[B] /\ Sum(w, B \ {x}) = g[B \ {x}]
  BY <1>1, SumAlone
<1>3. g[B] = w[x] + g[B \ {x}]
  BY <1>1, AddsAnyOrder
<1>4. QED
  BY <1>2, <1>3

(* and what is not in the set does not count.                              *)
LEMMA SumSame ==
  ASSUME NEW S, IsFiniteSet(S), NEW w \in [S -> Nat], NEW v \in [S -> Nat],
         NEW B \in SUBSET S, \A x \in B : w[x] = v[x]
  PROVE  Sum(w, B) = Sum(v, B)
<1>1. PICK g : Adds(v, S, g)
  BY AddsExists
<1>2. Sum(w, B) = g[B] /\ Sum(v, B) = g[B]
  BY <1>1, SumAlone, ZenonT(60)
<1>3. QED
  BY <1>2

(* What is promised to a reseller's customers is such a sum.               *)
Weights == [u \in Customers |-> SizeOf(users[u].plan)]

LEMMA AllocatedIsSum == \A r : Allocated(r) = Sum(Weights, CustomersOf(r))
<1>1. TAKE r
<1>2. \A g : Adds(Weights, CustomersOf(r), g)
        <=> g = [T \in SUBSET CustomersOf(r) |-> IF T = {} THEN 0 ELSE SizeOf(users[Some(T)].plan) + g[T \ {Some(T)}]]
  <2>1. \A T \in SUBSET CustomersOf(r) : T # {} => Weights[Some(T)] = SizeOf(users[Some(T)].plan)
    BY DEF Weights, Some, CustomersOf
  <2>2. QED
    BY <2>1 DEF Adds
<1>3. (CHOOSE g : Adds(Weights, CustomersOf(r), g))
        = CHOOSE g : g = [T \in SUBSET CustomersOf(r) |-> IF T = {} THEN 0 ELSE SizeOf(users[Some(T)].plan) + g[T \ {Some(T)}]]
  BY <1>2
<1>4. QED
  BY <1>3 DEF Allocated, Sum, MapThenSumSet, MapThenFoldSet, Some

LEMMA AllocatedIsSumNext == \A r : Allocated(r)' = Sum(Weights', CustomersOf(r)')
<1>1. (\A r : Allocated(r) = Sum(Weights, CustomersOf(r)))'
  BY AllocatedIsSum, PTL
<1>2. QED
  BY <1>1

-----------------------------------------------------------------------------
(* Tables and requests. *)

LEMMA SizesOfPlans ==
  ASSUME TypeOK, NEW p \in PlanIds \cup {NoPlan}
  PROVE  SizeOf(p) \in Sizes
<1>1. CASE Exists(p)
  <2>1. p \in PlanIds /\ plans[p] \in Plan
    BY <1>1 DEF Exists, TypeOK
  <2>2. QED
    BY <2>1, <1>1 DEF SizeOf, Plan
<1>2. CASE ~ Exists(p)
  BY <1>2, SizesAssumption DEF SizeOf
<1>3. QED
  BY <1>1, <1>2

LEMMA NoRequestTyped == NoRequest \in Request
<1>1. (CHOOSE u \in Customers : TRUE) \in Customers
  BY CustomersAssumption
<1>2. QED
  BY <1>1, SizesAssumption DEF NoRequest, Request, Steps, Owners

(* An answered request is at nothing.                                      *)
LEMMA NoRequestFits ==
  ASSUME NEW h \in Actors
  PROVE  InStep(h, NoRequest) /\ Knows(NoRequest) /\ Owing(NoRequest) = {}
BY DEF InStep, Knows, Room, Owing, NoRequest

(* Steps that write no table: whoever steps must fit, and what was to be   *)
(* seen to still is.                                                       *)
LEMMA StepsKeep ==
  ASSUME IInv, UNCHANGED tables, quota' \in [Customers -> Sizes], owed' \subseteq Customers,
         enforced' \in BOOLEAN, begun' \in 0 .. MaxRequests,
         NEW R \in [Actors -> Request], req' = R,
         \A g \in Actors : R[g] = req[g] \/ (InStep(g, R[g]) /\ Knows(R[g])),
         \A u \in Customers :
           \/ u \in owed'
           \/ quota'[u] = SizeOf(users[u].plan)
           \/ \E k \in Actors : u \in Owing(R[k])
  PROVE  IInv'
<1>1. \A g \in Actors : InStep(g, R[g]) /\ Knows(R[g])
  BY DEF IInv
<1>2. UNCHANGED <<users, plans, limits>>
  BY DEF tables
<1>3. TypeOK'
  BY <1>1, <1>2 DEF IInv, TypeOK, InStep, Actors, Exists
<1>4. \A g \in Actors : InStep(g, req[g])' /\ Knows(req[g])'
  <2>1. SUFFICES ASSUME NEW q \in Request, NEW g \in Actors, InStep(g, q), Knows(q)
                 PROVE  InStep(g, q)' /\ Knows(q)'
    BY <1>1
  <2>2. \A p : SizeOf(p)' = SizeOf(p)
    BY <1>2 DEF SizeOf, Exists
  <2>3. Allocated(q.by)' = Allocated(q.by)
    <3>1. UNCHANGED Weights /\ CustomersOf(q.by)' = CustomersOf(q.by)
      BY <1>2, <2>2 DEF Weights, CustomersOf
    <3>2. QED
      BY <3>1, AllocatedIsSum, AllocatedIsSumNext
  <2>4. Room(q) <=> Room(q)'
    BY <1>2, <2>3 DEF Room, RoomFor, RoomForAccount, CustomersOf
  <2>5. InStep(g, q)'
    BY <2>1, <1>2 DEF InStep
  <2>6. Knows(q)'
    BY <2>1, <1>2, <2>2, <2>4 DEF Knows
  <2>7. QED
    BY <2>5, <2>6
<1>5. \A u \in Customers : Settled(u)'
  <2>1. \A q : Owing(q)' = Owing(q)
    BY <1>2 DEF Owing, OnPlan
  <2>2. SUFFICES ASSUME NEW u \in Customers PROVE Settled(u)'
    OBVIOUS
  <2>3. SizeOf(users[u].plan)' = SizeOf(users[u].plan)
    BY <1>2 DEF SizeOf, Exists
  <2>4. QED
    BY <2>1, <2>2, <2>3 DEF Settled
<1>6. QED
  BY <1>3, <1>4, <1>5 DEF IInv

(* The same for a step of one request.                                     *)
LEMMA StepKeeps ==
  ASSUME IInv, UNCHANGED <<tables, quota, owed>>,
         enforced' \in BOOLEAN, begun' \in 0 .. MaxRequests,
         NEW h \in Actors, NEW r \in Request, req' = [req EXCEPT ![h] = r],
         InStep(h, r), Knows(r), Owing(req[h]) \subseteq Owing(r)
  PROVE  IInv'
<1>1. PICK R : R = [req EXCEPT ![h] = r]
  OBVIOUS
<1>2. req \in [Actors -> Request]
  BY DEF IInv, TypeOK
<1>3. R \in [Actors -> Request] /\ req' = R /\ R[h] = r
        /\ \A g \in Actors \ {h} : R[g] = req[g]
  BY <1>1, <1>2
<1>4. \A g \in Actors : Owing(req[g]) \subseteq Owing(R[g])
  BY <1>3
<1>5. ASSUME NEW u \in Customers
      PROVE  \/ u \in owed'
             \/ quota'[u] = SizeOf(users[u].plan)
             \/ \E k \in Actors : u \in Owing(R[k])
  BY <1>4 DEF IInv, Settled
<1>6. quota' \in [Customers -> Sizes] /\ owed' \subseteq Customers
  BY DEF IInv, TypeOK
<1>7. QED
  BY <1>3, <1>5, <1>6, StepsKeep

(* Steps that write a table: whoever is in the middle of something is      *)
(* overtaken.                                                              *)
LEMMA WriteKeeps ==
  ASSUME IInv, UNCHANGED <<quota, enforced, begun>>,
         plans' \in [PlanIds -> Plan \cup {NoPlan, Gone}],
         users' \in [Customers -> User],
         limits' \in [Resellers -> Limit],
         \A u \in Customers : users'[u].plan # NoPlan => users'[u].made /\ Exists(users[u].plan)',
         owed \subseteq owed', owed' \subseteq Customers,
         NEW h \in Actors, NEW r \in Request,
         req' = [g \in Actors |-> IF g = h THEN r
                                  ELSE [req[g] EXCEPT !.overtaken = ~ Resting(g)]],
         InStep(h, r)', Knows(r)', Owing(req[h]) \subseteq Owing(r)' \cup owed',
         \A u \in Customers : users[u].made => users'[u].made,
         \A u \in Customers :
           \/ u \in owed' \cup Owing(r)'
           \/ users'[u].plan = users[u].plan /\ SizeOf(users[u].plan)' = SizeOf(users[u].plan)
  PROVE  IInv'
<1>1. req \in [Actors -> Request]
  BY DEF IInv, TypeOK
<1>2. \A g \in Actors : req[g] \in Request /\ [req[g] EXCEPT !.overtaken = ~ Resting(g)] \in Request
  BY <1>1 DEF Request, Resting, At
<1>3. req' \in [Actors -> Request]
  BY <1>2
<1>4. \A g \in Actors : InStep(g, req[g])' /\ Knows(req[g])'
  <2>1. SUFFICES ASSUME NEW g \in Actors, g # h PROVE InStep(g, req[g])' /\ Knows(req[g])'
    BY <1>3
  <2>2. PICK q \in Request : q = [req[g] EXCEPT !.overtaken = ~ Resting(g)]
    BY <1>2
  <2>3. req'[g] = q
    BY <2>1, <2>2
  <2>4. /\ q.op = req[g].op /\ q.pc = req[g].pc /\ q.who = req[g].who /\ q.plan = req[g].plan
        /\ q.to = req[g].to /\ q.todo = req[g].todo
        /\ q.overtaken = (q.pc # "idle")
    BY <1>2, <2>2 DEF Request, Resting, At
  <2>5. InStep(g, req[g])
    BY DEF IInv
  <2>6. InStep(g, q)'
    <3>1. q.who \in Customers
      BY DEF Request
    <3>2. QED
      BY <2>4, <2>5, <3>1 DEF InStep
  <2>7. Knows(q)'
    BY <2>4 DEF Knows, Room
  <2>8. QED
    BY <2>3, <2>6, <2>7
<1>5. TypeOK'
  <2>1. \A j \in Jobs : req'[j].op \in {"none", "reapply"}
    BY <1>4 DEF InStep, Actors
  <2>2. QED
    BY <1>3, <2>1 DEF IInv, TypeOK
<1>6. \A u \in Customers : Settled(u)'
  <2>1. SUFFICES ASSUME NEW u \in Customers, u \notin owed', u \notin Owing(r)'
                 PROVE  Settled(u)'
    BY <1>3 DEF Settled
  <2>2. users'[u].plan = users[u].plan /\ SizeOf(users[u].plan)' = SizeOf(users[u].plan)
    BY <2>1
  <2>3. CASE quota[u] = SizeOf(users[u].plan)
    BY <2>2, <2>3 DEF Settled
  <2>4. ASSUME NEW g \in Actors, u \in Owing(req[g]) PROVE Settled(u)'
    <3>1. g # h
      BY <2>4, <2>1
    <3>2. PICK q \in Request : q = [req[g] EXCEPT !.overtaken = ~ Resting(g)]
      BY <1>2
    <3>3. req'[g] = q
      BY <3>1, <3>2
    <3>4. q.pc = req[g].pc /\ q.who = req[g].who /\ q.plan = req[g].plan /\ q.todo = req[g].todo
      BY <1>2, <3>2 DEF Request
    <3>5. u \in Owing(q)'
      BY <2>4, <2>2, <3>4 DEF Owing, OnPlan
    <3>6. QED
      BY <3>3, <3>5 DEF Settled
  <2>5. QED
    BY <2>1, <2>3, <2>4 DEF IInv, Settled
<1>7. QED
  BY <1>4, <1>5, <1>6 DEF IInv

-----------------------------------------------------------------------------
(* One step of a request that writes nothing. *)

LEMMA Standing ==
  ASSUME IInv, NEW h \in Actors
  PROVE  req \in [Actors -> Request] /\ req[h] \in Request /\ InStep(h, req[h]) /\ Knows(req[h])
BY DEF IInv, TypeOK

(* Whoever sees to nothing may stop.                                       *)
LEMMA DoneKeeps ==
  ASSUME IInv, NEW h \in Actors, Goto(h, "done"), Owing(req[h]) = {},
         UNCHANGED <<tables, host, owed, begun>>
  PROVE  IInv'
<1>1. req' = [req EXCEPT ![h] = NoRequest]
  BY DEF Goto, Then
<1>2. UNCHANGED <<tables, quota, owed>> /\ enforced' \in BOOLEAN /\ begun' \in 0 .. MaxRequests
  BY DEF host, IInv, TypeOK
<1>3. QED
  BY <1>1, <1>2, NoRequestTyped, NoRequestFits, StepKeeps

LEMMA BegunKeeps ==
  ASSUME IInv, NEW h \in Handlers, NEW r \in Request, Begin(h, r), InStep(h, r), Knows(r)
  PROVE  IInv'
<1>1. h \in Actors /\ InStep(h, req[h])
  BY Standing DEF Actors
<1>2. Owing(req[h]) = {}
  BY <1>1 DEF Begin, Resting, At, InStep, Owing
<1>3. UNCHANGED <<tables, quota, owed>> /\ enforced' \in BOOLEAN /\ begun' \in 0 .. MaxRequests
  BY BoundAssumption DEF Begin, host, IInv, TypeOK
<1>4. req' = [req EXCEPT ![h] = r]
  BY DEF Begin
<1>5. QED
  BY <1>1, <1>2, <1>3, <1>4, StepKeeps

LEMMA BeginAccountKeeps ==
  ASSUME IInv, NEW h \in Handlers, BeginAccount(h)
  PROVE  IInv'
<1>1. PICK u \in Customers, by \in Owners, to \in Owners, p \in PlanIds \cup {NoPlan} :
        LET base == [NoRequest EXCEPT !.by = by, !.to = to, !.who = u, !.plan = p] IN
        \/ /\ ~ users[u].made
           /\ by \in {Server, to}
           /\ Begin(h, [base EXCEPT !.op = "create", !.pc = "plan"])
        \/ /\ users[u].made
           /\ to = users[u].parent /\ by \in {Server, to}
           /\ Begin(h, [base EXCEPT !.op = "assign", !.pc = "before"])
        \/ /\ users[u].made
           /\ to = Server /\ by = Server /\ p = NoPlan
           /\ Begin(h, [base EXCEPT !.op = "touch", !.pc = "read"])
  BY Zenon DEF BeginAccount
<1>2. PICK base \in Request : base = [NoRequest EXCEPT !.by = by, !.to = to, !.who = u, !.plan = p]
  BY NoRequestTyped DEF Request
<1>3. base.todo = {} /\ base.who = u /\ h \notin Jobs
  BY <1>2, NoRequestTyped, BoundAssumption DEF Request, NoRequest
<1>4. ASSUME NEW r, r = [base EXCEPT !.op = "create", !.pc = "plan"]
      PROVE  r \in Request /\ InStep(h, r) /\ Knows(r)
  BY <1>3, <1>4 DEF Request, Steps, AllOps, InStep, Knows, Room
<1>5. ASSUME NEW r, r = [base EXCEPT !.op = "assign", !.pc = "before"], users[u].made
      PROVE  r \in Request /\ InStep(h, r) /\ Knows(r)
  BY <1>3, <1>5 DEF Request, Steps, AllOps, InStep, Knows, Room
<1>6. ASSUME NEW r, r = [base EXCEPT !.op = "touch", !.pc = "read"]
      PROVE  r \in Request /\ InStep(h, r) /\ Knows(r)
  BY <1>3, <1>6 DEF Request, Steps, AllOps, InStep, Knows, Room
<1>7. QED
  BY <1>1, <1>2, <1>4, <1>5, <1>6, BegunKeeps

LEMMA BeginPackageKeeps ==
  ASSUME IInv, NEW h \in Handlers, BeginPackage(h)
  PROVE  IInv'
<1>1. PICK p \in PlanIds, by \in Owners, n \in Sizes :
        LET base == [NoRequest EXCEPT !.by = by, !.plan = p, !.size = n] IN
        \/ Begin(h, [base EXCEPT !.op = "new", !.pc = "may"])
        \/ Begin(h, [base EXCEPT !.op = "update", !.pc = "plan"])
        \/ Begin(h, [base EXCEPT !.op = "delete", !.pc = "plan"])
  BY DEF BeginPackage
<1>2. PICK base \in Request : base = [NoRequest EXCEPT !.by = by, !.plan = p, !.size = n]
  BY NoRequestTyped DEF Request
<1>3. base.todo = {} /\ base.plan = p /\ h \notin Jobs
  BY <1>2, NoRequestTyped, BoundAssumption DEF Request, NoRequest
<1>4. ASSUME NEW r, NEW op \in {"update", "delete"}, r = [base EXCEPT !.op = op, !.pc = "plan"]
      PROVE  r \in Request /\ InStep(h, r) /\ Knows(r)
  BY <1>3, <1>4 DEF Request, Steps, AllOps, InStep, Knows, Room
<1>5. ASSUME NEW r, r = [base EXCEPT !.op = "new", !.pc = "may"]
      PROVE  r \in Request /\ InStep(h, r) /\ Knows(r)
  BY <1>3, <1>5 DEF Request, Steps, AllOps, InStep, Knows, Room
<1>6. QED
  BY <1>1, <1>2, <1>4, <1>5, BegunKeeps

LEMMA BeginResellerKeeps ==
  ASSUME IInv, NEW h \in Handlers, BeginReseller(h)
  PROVE  IInv'
<1>1. PICK to \in Owners :
        LET base == [NoRequest EXCEPT !.to = to] IN
        \/ to \in Resellers /\ Begin(h, [base EXCEPT !.op = "limits", !.pc = "limits"])
        \/ \E u \in Customers : Begin(h, [base EXCEPT !.op = "parent", !.pc = "parent", !.who = u])
  BY DEF BeginReseller
<1>2. PICK base \in Request : base = [NoRequest EXCEPT !.to = to]
  BY NoRequestTyped DEF Request
<1>3. base.todo = {} /\ base.to = to /\ h \notin Jobs
  BY <1>2, NoRequestTyped, BoundAssumption DEF Request, NoRequest
<1>4. ASSUME NEW r, r = [base EXCEPT !.op = "limits", !.pc = "limits"], to \in Resellers
      PROVE  r \in Request /\ InStep(h, r) /\ Knows(r)
  BY <1>3, <1>4 DEF Request, Steps, AllOps, InStep, Knows, Room
<1>5. ASSUME NEW r, NEW u \in Customers, r = [base EXCEPT !.op = "parent", !.pc = "parent", !.who = u]
      PROVE  r \in Request /\ InStep(h, r) /\ Knows(r)
  BY <1>3, <1>5 DEF Request, Steps, AllOps, InStep, Knows, Room
<1>6. QED
  BY <1>1, <1>2, <1>4, <1>5, BegunKeeps

LEMMA ReadBeforeKeeps ==
  ASSUME IInv, NEW h \in Handlers, ReadBefore(h)
  PROVE  IInv'
<1>1. h \in Actors /\ h \notin Jobs /\ req[h] \in Request /\ InStep(h, req[h]) /\ Knows(req[h])
  BY Standing, BoundAssumption DEF Actors
<1>2. PICK q \in Request : q = req[h]
  BY <1>1
<1>3. users[q.who].plan \in PlanIds \cup {NoPlan}
  BY DEF IInv, TypeOK, User, Request
<1>4. PICK n \in Sizes : /\ n \in {0, SizeOf(users[q.who].plan)}
                        /\ req' = [req EXCEPT ![h].before = n, ![h].pc = "plan"]
  BY <1>2, <1>3, SizesOfPlans, SizesAssumption DEF IInv, ReadBefore
<1>5. q.pc = "before" /\ q.op = "assign"
  BY <1>1, <1>2 DEF ReadBefore, At, InStep
<1>6. PICK r : r = [q EXCEPT !.before = n, !.pc = "plan"]
  OBVIOUS
<1>7. r \in Request /\ r.pc = "plan" /\ r.op = "assign" /\ r.before = n /\ r.who = q.who
        /\ r.todo = q.todo
  BY <1>5, <1>6 DEF Request, Steps
<1>8. InStep(h, r) /\ Knows(r)
  BY <1>1, <1>2, <1>4, <1>5, <1>7 DEF InStep, Knows, Room
<1>9. Owing(req[h]) \subseteq Owing(r)
  BY <1>2, <1>5, <1>7 DEF Owing
<1>10. req' = [req EXCEPT ![h] = r]
  BY <1>2, <1>4, <1>6, Standing, <1>1
<1>11. UNCHANGED <<tables, quota, owed>> /\ enforced' \in BOOLEAN /\ begun' \in 0 .. MaxRequests
  BY DEF ReadBefore, host, IInv, TypeOK
<1>12. QED
  BY <1>1, <1>7, <1>8, <1>9, <1>10, <1>11, StepKeeps

LEMMA LoadPlanKeeps ==
  ASSUME IInv, NEW h \in Handlers, LoadPlan(h)
  PROVE  IInv'
<1>1. /\ h \in Actors /\ h \notin Jobs /\ req[h] \in Request
      /\ InStep(h, req[h]) /\ Knows(req[h]) /\ req \in [Actors -> Request]
  BY Standing, BoundAssumption DEF Actors
<1>2. PICK q \in Request : q = req[h]
  BY <1>1
<1>3. q.pc = "plan" /\ q.op \in {"create", "assign", "update", "delete"} /\ q.todo = {}
  BY <1>1, <1>2 DEF LoadPlan, At, InStep
<1>4. PICK n \in Sizes : n = SizeOf(q.plan)
  BY SizesOfPlans DEF IInv, Request
<1>5. UNCHANGED <<tables, quota, owed>> /\ enforced' \in BOOLEAN /\ begun' \in 0 .. MaxRequests
  BY DEF LoadPlan, host, IInv, TypeOK
<1>6. Owing(req[h]) = {}
  BY <1>2, <1>3 DEF Owing
<1>7. CASE Goto(h, "done")
  BY <1>1, <1>6, <1>7, DoneKeeps DEF LoadPlan
<1>8. ASSUME req' = [req EXCEPT ![h].size = n, ![h].pc = "allow"], q.op \in {"create", "assign"}
      PROVE  IInv'
  <2>1. PICK r : r = [q EXCEPT !.size = n, !.pc = "allow"]
    OBVIOUS
  <2>2. r \in Request /\ r.pc = "allow" /\ r.op = q.op /\ r.size = n /\ r.plan = q.plan
          /\ r.before = q.before /\ r.who = q.who /\ r.todo = q.todo /\ r.overtaken = q.overtaken
    BY <2>1 DEF Request, Steps
  <2>3. InStep(h, r)
    BY <1>1, <1>2, <1>3, <1>8, <2>2 DEF InStep
  <2>4. Knows(r)
    BY <1>1, <1>2, <1>3, <1>4, <1>8, <2>2 DEF Knows, Room
  <2>5. req' = [req EXCEPT ![h] = r]
    BY <1>1, <1>2, <1>8, <2>1
  <2>6. QED
    BY <1>1, <1>5, <1>6, <2>2, <2>3, <2>4, <2>5, StepKeeps
<1>9. ASSUME req' = [req EXCEPT ![h].before = n, ![h].pc = "write"], q.op = "update"
      PROVE  IInv'
  <2>1. PICK r : r = [q EXCEPT !.before = n, !.pc = "write"]
    OBVIOUS
  <2>2. r \in Request /\ r.pc = "write" /\ r.op = q.op /\ r.before = n /\ r.plan = q.plan
          /\ r.who = q.who /\ r.todo = q.todo
    BY <2>1 DEF Request, Steps
  <2>3. InStep(h, r)
    BY <1>1, <1>2, <1>3, <1>9, <2>2 DEF InStep
  <2>4. Knows(r)
    BY <1>4, <1>9, <2>2 DEF Knows, Room
  <2>5. req' = [req EXCEPT ![h] = r]
    BY <1>1, <1>2, <1>9, <2>1
  <2>6. QED
    BY <1>1, <1>5, <1>6, <2>2, <2>3, <2>4, <2>5, StepKeeps
<1>10. ASSUME Goto(h, "drop"), q.op = "delete" PROVE IInv'
  <2>1. PICK r : r = [q EXCEPT !.pc = "drop"]
    OBVIOUS
  <2>2. r \in Request /\ r.pc = "drop" /\ r.op = q.op /\ r.plan = q.plan
          /\ r.who = q.who /\ r.todo = q.todo
    BY <2>1 DEF Request, Steps
  <2>3. InStep(h, r)
    BY <1>1, <1>2, <1>3, <1>10, <2>2 DEF InStep
  <2>4. Knows(r)
    BY <1>10, <2>2 DEF Knows, Room
  <2>5. req' = [req EXCEPT ![h] = r]
    BY <1>1, <1>2, <1>10, <2>1 DEF Goto, Then
  <2>6. QED
    BY <1>1, <1>5, <1>6, <2>2, <2>3, <2>4, <2>5, StepKeeps
<1>11. QED
  <2>1. CASE q.plan = NoPlan
    <3>1. n = 0 /\ q.op \in {"create", "assign"}
      BY <1>1, <1>2, <1>3, <1>4, <2>1, OwnersAssumption DEF SizeOf, Exists, InStep
    <3>2. req' = [req EXCEPT ![h].size = n, ![h].pc = "allow"]
      BY <1>2, <2>1, <3>1 DEF LoadPlan
    <3>3. QED
      BY <3>1, <3>2, <1>8
  <2>2. CASE q.plan # NoPlan
    BY <1>2, <1>3, <1>4, <1>7, <1>8, <1>9, <1>10, <2>2 DEF LoadPlan
  <2>3. QED
    BY <2>1, <2>2

LEMMA AllowKeeps ==
  ASSUME IInv, NEW h \in Handlers, Allow(h)
  PROVE  IInv'
<1>1. /\ h \in Actors /\ h \notin Jobs /\ req[h] \in Request
      /\ InStep(h, req[h]) /\ Knows(req[h]) /\ req \in [Actors -> Request]
  BY Standing, BoundAssumption DEF Actors
<1>2. PICK q \in Request : q = req[h]
  BY <1>1
<1>3. q.pc = "allow" /\ q.op \in {"create", "assign"} /\ q.todo = {}
  BY <1>1, <1>2 DEF Allow, At, InStep
<1>4. UNCHANGED <<tables, quota, owed>> /\ enforced' \in BOOLEAN /\ begun' \in 0 .. MaxRequests
  BY DEF Allow, host, IInv, TypeOK
<1>5. Owing(req[h]) = {}
  BY <1>2, <1>3 DEF Owing
<1>6. CASE Goto(h, "done")
  BY <1>1, <1>5, <1>6, DoneKeeps DEF Allow
<1>7. ASSUME NEW pc \in {"insert", "assign"}, Goto(h, pc),
             pc = "insert" => q.op = "create", pc = "assign" => q.op = "assign",
             q.by \in Resellers =>
               IF q.op = "create" THEN RoomForAccount(q.by) /\ RoomFor(q.by, q.size)
               ELSE q.size <= q.before \/ RoomFor(q.by, q.size - q.before)
      PROVE  IInv'
  <2>1. PICK r : r = [q EXCEPT !.pc = pc]
    OBVIOUS
  <2>2. r \in Request /\ r.pc = pc /\ r.op = q.op /\ r.size = q.size /\ r.plan = q.plan /\ r.by = q.by
          /\ r.before = q.before /\ r.who = q.who /\ r.todo = q.todo /\ r.overtaken = q.overtaken
    BY <2>1 DEF Request, Steps
  <2>3. InStep(h, r)
    BY <1>1, <1>2, <1>3, <1>7, <2>2 DEF InStep
  <2>4. Room(r)
    BY <1>3, <1>7, <2>2 DEF Room
  <2>5. Knows(r)
    BY <1>1, <1>2, <1>3, <1>7, <2>2, <2>4 DEF Knows
  <2>6. req' = [req EXCEPT ![h] = r]
    BY <1>1, <1>2, <1>7, <2>1 DEF Goto, Then
  <2>7. QED
    BY <1>1, <1>4, <1>5, <2>2, <2>3, <2>5, <2>6, StepKeeps
<1>8. QED
  <2>1. q.by \in Resellers => q.by # Server
    BY OwnersAssumption
  <2>2. QED
    BY <1>2, <1>3, <1>6, <1>7, <2>1 DEF Allow

LEMMA ReadLimitKeeps ==
  ASSUME IInv, NEW h \in Actors, ReadLimit(h)
  PROVE  IInv'
<1>1. /\ req[h] \in Request /\ InStep(h, req[h]) /\ Knows(req[h]) /\ req \in [Actors -> Request]
  BY Standing
<1>2. PICK q \in Request : q = req[h]
  BY <1>1
<1>3. q.pc = "read"
  BY <1>2 DEF ReadLimit, At
<1>4. users[q.who].plan \in PlanIds \cup {NoPlan}
  BY DEF IInv, TypeOK, User, Request
<1>5. PICK n \in Sizes, o \in BOOLEAN :
        /\ ~ o => n = SizeOf(users[q.who].plan)
        /\ req' = [req EXCEPT ![h].limit = n, ![h].pc = "set", ![h].overtaken = o]
  BY <1>2, <1>4, SizesOfPlans, SizesAssumption DEF IInv, ReadLimit
<1>6. PICK r : r = [q EXCEPT !.limit = n, !.pc = "set", !.overtaken = o]
  OBVIOUS
<1>7. r \in Request /\ r.pc = "set" /\ r.op = q.op /\ r.limit = n /\ r.who = q.who
        /\ r.todo = q.todo /\ r.plan = q.plan /\ r.overtaken = o
  BY <1>3, <1>6 DEF Request, Steps
<1>8. InStep(h, r)
  BY <1>1, <1>2, <1>3, <1>7 DEF InStep
<1>9. Knows(r)
  BY <1>5, <1>7 DEF Knows, Room
<1>10. Owing(req[h]) \subseteq Owing(r)
  BY <1>2, <1>3, <1>7 DEF Owing
<1>11. req' = [req EXCEPT ![h] = r]
  BY <1>1, <1>2, <1>5, <1>6
<1>12. UNCHANGED <<tables, quota, owed>> /\ enforced' \in BOOLEAN /\ begun' \in 0 .. MaxRequests
  BY DEF ReadLimit, host, IInv, TypeOK
<1>13. QED
  BY <1>7, <1>8, <1>9, <1>10, <1>11, <1>12, StepKeeps

LEMMA CheckMayCreateKeeps ==
  ASSUME IInv, NEW h \in Handlers, CheckMayCreate(h)
  PROVE  IInv'
<1>1. /\ h \in Actors /\ h \notin Jobs /\ req[h] \in Request
      /\ InStep(h, req[h]) /\ req \in [Actors -> Request]
  BY Standing, BoundAssumption DEF Actors
<1>2. PICK q \in Request : q = req[h]
  BY <1>1
<1>3. q.pc = "may" /\ q.op = "new" /\ q.todo = {}
  BY <1>1, <1>2 DEF CheckMayCreate, At, InStep
<1>4. Owing(req[h]) = {}
  BY <1>2, <1>3 DEF Owing
<1>5. CASE Goto(h, "done")
  BY <1>1, <1>4, <1>5, DoneKeeps DEF CheckMayCreate
<1>6. CASE Goto(h, "add")
  <2>1. PICK r : r = [q EXCEPT !.pc = "add"]
    OBVIOUS
  <2>2. r \in Request /\ r.pc = "add" /\ r.op = q.op /\ r.plan = q.plan /\ r.todo = q.todo
    BY <2>1 DEF Request, Steps
  <2>3. InStep(h, r) /\ Knows(r)
    BY <1>1, <1>2, <1>3, <2>2 DEF InStep, Knows, Room
  <2>4. req' = [req EXCEPT ![h] = r]
    BY <1>2, <1>6, <2>1 DEF Goto, Then
  <2>5. UNCHANGED <<tables, quota, owed>> /\ enforced' \in BOOLEAN /\ begun' \in 0 .. MaxRequests
    BY DEF CheckMayCreate, host, IInv, TypeOK
  <2>6. QED
    BY <1>1, <1>4, <2>2, <2>3, <2>4, <2>5, StepKeeps
<1>7. QED
  BY <1>5, <1>6 DEF CheckMayCreate

LEMMA NextAccountKeeps ==
  ASSUME IInv, NEW h \in Jobs, NextAccount(h)
  PROVE  IInv'
<1>1. /\ h \in Actors /\ req[h] \in Request
      /\ InStep(h, req[h]) /\ req \in [Actors -> Request]
  BY Standing DEF Actors
<1>2. PICK q \in Request : q = req[h]
  BY <1>1
<1>3. q.pc = "next" /\ q.op = "reapply"
  BY <1>1, <1>2 DEF NextAccount, At, InStep
<1>4. CASE q.todo = {}
  <2>1. Owing(req[h]) = {} /\ Goto(h, "done")
    BY <1>2, <1>3, <1>4 DEF Owing, NextAccount
  <2>2. QED
    BY <1>1, <2>1, DoneKeeps DEF NextAccount
<1>5. CASE q.todo # {}
  <2>1. PICK u \in q.todo : req' = [req EXCEPT ![h].who = u, ![h].todo = @ \ {u}, ![h].pc = "read"]
    BY <1>2, <1>5 DEF NextAccount
  <2>2. PICK r : r = [q EXCEPT !.who = u, !.todo = @ \ {u}, !.pc = "read"]
    OBVIOUS
  <2>3. u \in Customers /\ q.todo \ {u} \in SUBSET Customers
    BY DEF Request
  <2>4. r \in Request /\ r.pc = "read" /\ r.op = q.op /\ r.plan = q.plan
          /\ r.todo = q.todo \ {u} /\ r.who = u
    BY <2>2, <2>3 DEF Request, Steps
  <2>5. InStep(h, r) /\ Knows(r)
    BY <1>1, <1>2, <1>3, <2>4 DEF InStep, Knows, Room
  <2>6. Owing(req[h]) \subseteq Owing(r)
    BY <1>2, <1>3, <2>4 DEF Owing
  <2>7. req' = [req EXCEPT ![h] = r]
    BY <1>1, <1>2, <2>1, <2>2
  <2>8. UNCHANGED <<tables, quota, owed>> /\ enforced' \in BOOLEAN /\ begun' \in 0 .. MaxRequests
    BY DEF NextAccount, host, IInv, TypeOK
  <2>9. QED
    BY <1>1, <2>4, <2>5, <2>6, <2>7, <2>8, StepKeeps
<1>6. QED
  BY <1>4, <1>5

(* What a request was to see to, a job sees to.                            *)
LEMMA ReapplyQuotasKeeps ==
  ASSUME IInv, NEW h \in Handlers, ReapplyQuotas(h)
  PROVE  IInv'
<1>1. PICK j \in Jobs :
        /\ Resting(j)
        /\ req' = [req EXCEPT ![h] = Then(h, "done"),
                              ![j] = [NoRequest EXCEPT !.op = "reapply", !.pc = "next",
                                                       !.todo = OnPlan(req[h].plan)]]
  BY DEF ReapplyQuotas
<1>2. /\ h \in Actors /\ j \in Actors /\ h # j /\ req \in [Actors -> Request]
      /\ InStep(h, req[h]) /\ InStep(j, req[j])
  BY Standing, BoundAssumption DEF Actors
<1>3. PICK T \in SUBSET Customers : T = OnPlan(req[h].plan)
  BY DEF OnPlan
<1>4. PICK r : r = [NoRequest EXCEPT !.op = "reapply", !.pc = "next", !.todo = T]
  OBVIOUS
<1>5. r \in Request /\ r.op = "reapply" /\ r.pc = "next" /\ r.todo = T
  BY <1>4, NoRequestTyped DEF Request, Steps
<1>6. PICK R : R = [req EXCEPT ![h] = NoRequest, ![j] = r]
  OBVIOUS
<1>7. /\ R \in [Actors -> Request] /\ R[h] = NoRequest /\ R[j] = r
      /\ \A g \in Actors \ {h, j} : R[g] = req[g]
  BY <1>2, <1>5, <1>6, NoRequestTyped
<1>8. req' = R
  BY <1>1, <1>3, <1>4, <1>6 DEF Then
<1>9. InStep(j, r) /\ Knows(r) /\ Owing(r) = T
  BY <1>5 DEF InStep, Knows, Room, Owing
<1>10. Owing(req[h]) \subseteq Owing(r) /\ Owing(req[j]) = {}
  BY <1>1, <1>2, <1>3, <1>9 DEF ReapplyQuotas, At, Resting, InStep, Owing
<1>11. UNCHANGED <<tables, quota, owed>> /\ enforced' \in BOOLEAN /\ begun' \in 0 .. MaxRequests
         /\ quota' \in [Customers -> Sizes] /\ owed' \subseteq Customers
  BY DEF ReapplyQuotas, host, IInv, TypeOK
<1>12. ASSUME NEW u \in Customers
       PROVE  \/ u \in owed'
              \/ quota'[u] = SizeOf(users[u].plan)
              \/ \E k \in Actors : u \in Owing(R[k])
  <2>1. ASSUME NEW g \in Actors, u \in Owing(req[g]) PROVE \E k \in Actors : u \in Owing(R[k])
    BY <1>2, <1>7, <1>10, <2>1
  <2>2. QED
    BY <1>11, <2>1 DEF IInv, Settled
<1>13. \A g \in Actors : R[g] = req[g] \/ (InStep(g, R[g]) /\ Knows(R[g]))
  BY <1>2, <1>7, <1>9, NoRequestFits
<1>14. QED
  BY <1>7, <1>8, <1>11, <1>12, <1>13, StepsKeep

(* A limit that was read and not overtaken is the package's.               *)
LEMMA SetQuotaKeeps ==
  ASSUME IInv, NEW h \in Actors, SetQuota(h)
  PROVE  IInv'
<1>1. /\ req[h] \in Request /\ InStep(h, req[h]) /\ Knows(req[h]) /\ req \in [Actors -> Request]
  BY Standing
<1>2. PICK q \in Request : q = req[h]
  BY <1>1
<1>3. q.pc = "set" /\ q.who \in Customers /\ q.limit \in Sizes
  BY <1>2 DEF SetQuota, At, Request
<1>4. PICK r : r = Then(h, IF q.op = "reapply" THEN "next" ELSE "done")
  OBVIOUS
<1>5. r = NoRequest \/ (q.op = "reapply" /\ r = [q EXCEPT !.pc = "next"])
  BY <1>2, <1>4 DEF Then
<1>6. /\ r \in Request /\ InStep(h, r) /\ Knows(r)
      /\ Owing(req[h]) \subseteq Owing(r) \cup {q.who}
  <2>1. CASE q.op = "reapply" /\ r = [q EXCEPT !.pc = "next"]
    <3>1. r \in Request /\ r.pc = "next" /\ r.op = q.op /\ r.todo = q.todo /\ r.plan = q.plan
      BY <2>1 DEF Request, Steps
    <3>2. QED
      BY <1>1, <1>2, <1>3, <2>1, <3>1 DEF InStep, Knows, Room, Owing
  <2>2. CASE r = NoRequest /\ q.op # "reapply"
    <3>1. q.todo = {}
      BY <1>1, <1>2, <2>2 DEF InStep
    <3>2. QED
      BY <1>2, <1>3, <2>2, <3>1, NoRequestFits, NoRequestTyped DEF Owing
  <2>3. QED
    BY <1>2, <1>4, <2>1, <2>2 DEF Then
<1>7. PICK R : R = [req EXCEPT ![h] = r]
  OBVIOUS
<1>8. /\ R \in [Actors -> Request] /\ req' = R /\ R[h] = r
      /\ \A g \in Actors \ {h} : R[g] = req[g]
  BY <1>1, <1>2, <1>4, <1>6, <1>7 DEF SetQuota, Goto
<1>9. /\ quota' \in [Customers -> Sizes] /\ owed' \subseteq Customers
      /\ \A u \in Customers \ {q.who} : quota'[u] = quota[u] /\ (u \in owed => u \in owed')
      /\ q.who \in owed' \/ quota'[q.who] = SizeOf(users[q.who].plan)
  <2>1. quota \in [Customers -> Sizes] /\ owed \subseteq Customers
    BY DEF IInv, TypeOK
  <2>2. ~ q.overtaken => q.limit = SizeOf(users[q.who].plan)
    BY <1>1, <1>2, <1>3 DEF Knows
  <2>3. CASE quota' = [quota EXCEPT ![q.who] = q.limit]
             /\ owed' = IF q.overtaken THEN owed \cup {q.who} ELSE owed \ {q.who}
    BY <1>3, <2>1, <2>2, <2>3
  <2>4. CASE owed' = owed \cup {q.who} /\ UNCHANGED quota
    BY <1>3, <2>1, <2>4
  <2>5. QED
    BY <1>2, <2>3, <2>4 DEF SetQuota
<1>10. ASSUME NEW u \in Customers
       PROVE  \/ u \in owed'
              \/ quota'[u] = SizeOf(users[u].plan)
              \/ \E k \in Actors : u \in Owing(R[k])
  <2>1. CASE u = q.who
    BY <1>9, <2>1
  <2>2. CASE u # q.who
    <3>1. ASSUME NEW g \in Actors, u \in Owing(req[g]) PROVE \E k \in Actors : u \in Owing(R[k])
      BY <1>6, <1>8, <2>2, <3>1
    <3>2. QED
      BY <1>9, <2>2, <3>1 DEF IInv, Settled
  <2>3. QED
    BY <2>1, <2>2
<1>11. UNCHANGED tables /\ enforced' \in BOOLEAN /\ begun' \in 0 .. MaxRequests
  BY DEF SetQuota, IInv, TypeOK
<1>12. QED
  BY <1>6, <1>8, <1>9, <1>10, <1>11, StepsKeep

(* What is given up is said to be.                                         *)
LEMMA CancelKeeps ==
  ASSUME IInv, NEW h \in Actors, Cancel(h)
  PROVE  IInv'
<1>1. req[h] \in Request /\ InStep(h, req[h]) /\ req \in [Actors -> Request]
  BY Standing
<1>2. PICK R : R = [req EXCEPT ![h] = NoRequest]
  OBVIOUS
<1>3. /\ R \in [Actors -> Request] /\ req' = R /\ R[h] = NoRequest
      /\ \A g \in Actors \ {h} : R[g] = req[g]
  BY <1>1, <1>2, NoRequestTyped DEF Cancel, Goto, Then
<1>4. Owing(req[h]) = Unfinished(h) /\ Unfinished(h) \subseteq Customers
  BY <1>1 DEF Owing, Unfinished, At, OnPlan, Request
<1>5. /\ quota' \in [Customers -> Sizes] /\ owed' \subseteq Customers
      /\ UNCHANGED <<tables, quota>> /\ owed' = owed \cup Owing(req[h])
      /\ enforced' \in BOOLEAN /\ begun' \in 0 .. MaxRequests
  BY <1>4 DEF Cancel, host, IInv, TypeOK
<1>6. ASSUME NEW u \in Customers
      PROVE  \/ u \in owed'
             \/ quota'[u] = SizeOf(users[u].plan)
             \/ \E k \in Actors : u \in Owing(R[k])
  <2>1. ASSUME NEW g \in Actors, u \in Owing(req[g])
        PROVE  u \in owed' \/ \E k \in Actors : u \in Owing(R[k])
    BY <1>3, <1>5, <2>1
  <2>2. QED
    BY <1>5, <2>1 DEF IInv, Settled
<1>7. QED
  BY <1>3, <1>5, <1>6, NoRequestFits, StepsKeep

LEMMA RebootKeeps ==
  ASSUME IInv, Reboot
  PROVE  IInv'
<1>1. PICK R \in [Actors -> Request] : R = req
  BY DEF IInv, TypeOK
<1>2. /\ req' = R /\ UNCHANGED <<tables, quota, owed>> /\ quota' \in [Customers -> Sizes]
      /\ owed' \subseteq Customers /\ enforced' \in BOOLEAN /\ begun' \in 0 .. MaxRequests
  BY <1>1 DEF Reboot, IInv, TypeOK
<1>3. \A u \in Customers : \/ u \in owed'
                           \/ quota'[u] = SizeOf(users[u].plan)
                           \/ \E k \in Actors : u \in Owing(R[k])
  BY <1>1, <1>2 DEF IInv, Settled
<1>4. QED
  BY <1>1, <1>2, <1>3, StepsKeep
-----------------------------------------------------------------------------
(* One step of a request that writes a table. *)

(* Nothing was promised to an account that was not there.                  *)
LEMMA NewCustomerWeighsNothing ==
  ASSUME TypeOK, UNCHANGED plans, NEW u \in Customers, ~ users[u].made, NEW a \in User,
         a.plan = NoPlan, users' = [users EXCEPT ![u] = a], NEW r \in Resellers
  PROVE  Allocated(r)' = Allocated(r)
<1>1. PICK w, v : w = Weights /\ v = Weights'
  OBVIOUS
<1>2. PICK B, C : B = CustomersOf(r) /\ C = CustomersOf(r)'
  OBVIOUS
<1>3. users \in [Customers -> User] /\ users' \in [Customers -> User] /\ users'[u] = a
        /\ \A x \in Customers \ {u} : users'[x] = users[x]
  BY DEF TypeOK
<1>4. u \notin B /\ B \in SUBSET Customers /\ C \in SUBSET Customers /\ C \ {u} = B
  BY <1>2, <1>3 DEF CustomersOf
<1>5. \A p : SizeOf(p)' = SizeOf(p)
  BY DEF SizeOf, Exists
<1>6. w \in [Customers -> Nat] /\ v \in [Customers -> Nat]
  <2>1. \A x \in Customers : /\ users[x].plan \in PlanIds \cup {NoPlan}
                             /\ users'[x].plan \in PlanIds \cup {NoPlan}
    BY <1>3 DEF User
  <2>2. \A x \in Customers : SizeOf(users[x].plan) \in Nat /\ SizeOf(users'[x].plan) \in Nat
    BY <2>1, SizesOfPlans, SizesAssumption
  <2>3. QED
    BY <1>1, <1>5, <2>2 DEF Weights
<1>7. \A x \in Customers \ {u} : w[x] = v[x]
  BY <1>1, <1>3, <1>5 DEF Weights
<1>8. v[u] = 0
  BY <1>1, <1>3, <1>5 DEF Weights, SizeOf, Exists
<1>9. Sum(w, B) = Sum(v, B)
  BY <1>4, <1>6, <1>7, CustomersAssumption, SumSame
<1>10. Sum(v, C) = Sum(v, B)
  <2>1. CASE u \in C
    <3>1. Sum(v, C) = v[u] + Sum(v, C \ {u})
      BY <1>4, <1>6, <2>1, CustomersAssumption, SumTakeOut
    <3>2. Sum(v, C \ {u}) = Sum(v, B) /\ Sum(v, B) \in Nat
      BY <1>4, <1>6, CustomersAssumption, SumType
    <3>3. QED
      BY <1>8, <3>1, <3>2
  <2>2. CASE u \notin C
    <3>1. C = B
      BY <1>4, <2>2
    <3>2. QED
      BY <3>1
  <2>3. QED
    BY <2>1, <2>2
<1>11. Allocated(r) = Sum(w, B) /\ Allocated(r)' = Sum(v, C)
  BY <1>1, <1>2, AllocatedIsSum, AllocatedIsSumNext
<1>12. QED
  BY <1>9, <1>10, <1>11

(* What is promised of an account is charged by the difference.            *)
LEMMA ChargedByDifference ==
  ASSUME TypeOK, UNCHANGED plans, NEW u \in Customers, NEW p \in PlanIds \cup {NoPlan},
         users' = [users EXCEPT ![u].plan = p], NEW r \in Resellers
  PROVE  /\ Allocated(r) \in Nat /\ Allocated(r)' \in Nat
         /\ SizeOf(p) \in Nat /\ SizeOf(users[u].plan) \in Nat
         /\ \/ Allocated(r)' = Allocated(r)
            \/ Allocated(r)' + SizeOf(users[u].plan) = Allocated(r) + SizeOf(p)
<1>1. PICK w, v : w = Weights /\ v = Weights'
  OBVIOUS
<1>2. PICK B : B = CustomersOf(r)
  OBVIOUS
<1>3. /\ users \in [Customers -> User] /\ users' \in [Customers -> User] /\ users'[u].plan = p
      /\ \A x \in Customers : users'[x].made = users[x].made /\ users'[x].parent = users[x].parent
      /\ \A x \in Customers \ {u} : users'[x] = users[x]
  BY DEF TypeOK, User
<1>4. B \in SUBSET Customers /\ CustomersOf(r)' = B
  BY <1>2, <1>3 DEF CustomersOf
<1>5. \A x : SizeOf(x)' = SizeOf(x)
  BY DEF SizeOf, Exists
<1>6. w \in [Customers -> Nat] /\ v \in [Customers -> Nat]
  <2>1. \A x \in Customers : /\ users[x].plan \in PlanIds \cup {NoPlan}
                             /\ users'[x].plan \in PlanIds \cup {NoPlan}
    BY <1>3 DEF User
  <2>2. \A x \in Customers : SizeOf(users[x].plan) \in Nat /\ SizeOf(users'[x].plan) \in Nat
    BY <2>1, SizesOfPlans, SizesAssumption
  <2>3. QED
    BY <1>1, <1>5, <2>2 DEF Weights
<1>7. \A x \in Customers \ {u} : w[x] = v[x]
  BY <1>1, <1>3, <1>5 DEF Weights
<1>8. v[u] = SizeOf(p) /\ w[u] = SizeOf(users[u].plan)
  BY <1>1, <1>3, <1>5 DEF Weights
<1>9. Allocated(r) = Sum(w, B) /\ Allocated(r)' = Sum(v, B)
  BY <1>1, <1>2, <1>4, AllocatedIsSum, AllocatedIsSumNext
<1>10. Sum(w, B) \in Nat /\ Sum(v, B) \in Nat
  BY <1>4, <1>6, CustomersAssumption, SumType
<1>11. CASE u \in B
  <2>1. PICK D \in SUBSET Customers : D = B \ {u}
    BY <1>4
  <2>2. Sum(w, B) = w[u] + Sum(w, D) /\ Sum(v, B) = v[u] + Sum(v, D)
    BY <1>4, <1>6, <1>11, <2>1, CustomersAssumption, SumTakeOut
  <2>3. Sum(w, D) = Sum(v, D) /\ Sum(w, D) \in Nat
    BY <1>6, <1>7, <2>1, CustomersAssumption, SumSame, SumType
  <2>4. w[u] \in Nat /\ v[u] \in Nat
    BY <1>6
  <2>5. QED
    BY <1>8, <1>9, <1>10, <2>2, <2>3, <2>4
<1>12. CASE u \notin B
  <2>1. Sum(w, B) = Sum(v, B)
    BY <1>4, <1>6, <1>7, <1>12, CustomersAssumption, SumSame
  <2>2. SizeOf(p) \in Nat /\ SizeOf(users[u].plan) \in Nat
    BY <1>6, <1>8
  <2>3. QED
    BY <1>9, <1>10, <2>1, <2>2
<1>13. QED
  BY <1>11, <1>12

LEMMA CreateUserKeeps ==
  ASSUME IInv, NEW h \in Handlers, CreateUser(h)
  PROVE  IInv'
<1>1. /\ h \in Actors /\ h \notin Jobs /\ req[h] \in Request
      /\ InStep(h, req[h]) /\ Knows(req[h]) /\ req \in [Actors -> Request]
  BY Standing, BoundAssumption DEF Actors
<1>2. PICK q \in Request : q = req[h]
  BY <1>1
<1>3. q.pc = "insert" /\ q.op = "create" /\ q.todo = {} /\ q.who \in Customers /\ q.by \in Owners
  BY <1>1, <1>2 DEF CreateUser, At, InStep, Request
<1>4. Owing(req[h]) = {}
  BY <1>2, <1>3 DEF Owing
<1>5. CASE users[q.who].made
  <2>1. Goto(h, "done") /\ UNCHANGED <<tables, host, owed, begun>>
    BY <1>2, <1>5 DEF CreateUser, tables
  <2>2. QED
    BY <1>1, <1>4, <2>1, DoneKeeps
<1>6. CASE ~ users[q.who].made
  <2>1. PICK a \in User : a = [made |-> TRUE, parent |-> q.to, plan |-> NoPlan]
    BY DEF User, Request
  <2>2. PICK r : r = Then(h, IF q.plan = NoPlan THEN "read" ELSE "assign")
    OBVIOUS
  <2>3. /\ users' = [users EXCEPT ![q.who] = a]
        /\ req' = [g \in Actors |-> IF g = h THEN r
                                  ELSE [req[g] EXCEPT !.overtaken = ~ Resting(g)]]
        /\ UNCHANGED <<plans, limits, quota, enforced, owed, begun>>
    BY <1>2, <1>6, <2>1, <2>2 DEF CreateUser, Wrote, host
  <2>4. /\ users \in [Customers -> User] /\ users' \in [Customers -> User] /\ users'[q.who] = a
        /\ \A x \in Customers \ {q.who} : users'[x] = users[x]
    BY <1>3, <2>3 DEF IInv, TypeOK
  <2>5. \A p : SizeOf(p)' = SizeOf(p) /\ (Exists(p)' <=> Exists(p))
    BY <2>3 DEF SizeOf, Exists
  <2>6. a.plan = NoPlan /\ a.made
    BY <2>1
  <2>7. users[q.who].plan = NoPlan
    BY <1>3, <1>6 DEF IInv, TypeOK
  <2>8. r \in Request /\ InStep(h, r)' /\ Knows(r)'
    <3>1. CASE q.plan = NoPlan
      <4>1. r = [NoRequest EXCEPT !.op = "touch", !.pc = "read", !.who = q.who]
        BY <1>2, <2>2, <3>1 DEF Then
      <4>2. r \in Request /\ r.op = "touch" /\ r.pc = "read" /\ r.todo = {}
        BY <1>3, <4>1, NoRequestTyped DEF Request, Steps, AllOps, NoRequest
      <4>3. QED
        BY <1>1, <4>2 DEF InStep, Knows, Room
    <3>2. CASE q.plan # NoPlan
      <4>1. r = [q EXCEPT !.pc = "assign"]
        BY <1>2, <2>2, <3>2 DEF Then
      <4>2. r \in Request /\ r.pc = "assign" /\ r.op = q.op /\ r.size = q.size /\ r.plan = q.plan
              /\ r.by = q.by /\ r.who = q.who /\ r.todo = q.todo /\ r.overtaken = q.overtaken
        BY <4>1 DEF Request, Steps
      <4>3. InStep(h, r)'
        BY <1>1, <1>3, <2>4, <2>6, <4>2 DEF InStep
      <4>4. ASSUME ~ q.overtaken, q.by \in Resellers PROVE RoomFor(q.by, q.size)'
        <5>1. RoomFor(q.by, q.size)
          BY <1>1, <1>2, <1>3, <4>4 DEF Knows, Room
        <5>2. Allocated(q.by)' = Allocated(q.by)
          BY <1>3, <1>6, <2>3, <2>6, <4>4, NewCustomerWeighsNothing DEF IInv
        <5>3. QED
          BY <2>3, <5>1, <5>2 DEF RoomFor
      <4>5. Knows(r)'
        BY <1>1, <1>2, <1>3, <2>4, <2>5, <2>6, <4>2, <4>4 DEF Knows, Room
      <4>6. QED
        BY <4>2, <4>3, <4>5
    <3>3. QED
      BY <3>1, <3>2
  <2>9. \A x \in Customers : users'[x].plan # NoPlan => users'[x].made /\ Exists(users[x].plan)'
    BY <2>4, <2>5, <2>6 DEF IInv, TypeOK
  <2>10. \A x \in Customers : /\ users[x].made => users'[x].made
                              /\ users'[x].plan = users[x].plan
                              /\ SizeOf(users[x].plan)' = SizeOf(users[x].plan)
    BY <2>4, <2>5, <2>6, <2>7
  <2>11. /\ plans' \in [PlanIds -> Plan \cup {NoPlan, Gone}] /\ limits' \in [Resellers -> Limit]
         /\ owed' \subseteq Customers /\ owed \subseteq owed'
    BY <2>3 DEF IInv, TypeOK
  <2>12. UNCHANGED <<quota, enforced, begun>> /\ Owing(req[h]) \subseteq Owing(r)' \cup owed'
    BY <1>4, <2>3
  <2>13. QED
    BY <1>1, <2>3, <2>4, <2>8, <2>9, <2>10, <2>11, <2>12, WriteKeeps
<1>7. QED
  BY <1>5, <1>6

(* Whoever was given a package has its limit set next.                     *)
LEMMA SetUserPlanKeeps ==
  ASSUME IInv, NEW h \in Handlers, SetUserPlan(h)
  PROVE  IInv'
<1>1. /\ h \in Actors /\ h \notin Jobs /\ req[h] \in Request
      /\ InStep(h, req[h]) /\ req \in [Actors -> Request]
  BY Standing, BoundAssumption DEF Actors
<1>2. PICK q \in Request : q = req[h]
  BY <1>1
<1>3. q.pc = "assign" /\ q.todo = {} /\ q.who \in Customers /\ users[q.who].made
        /\ q.plan \in PlanIds \cup {NoPlan}
  BY <1>1, <1>2 DEF SetUserPlan, At, InStep, Request
<1>4. Owing(req[h]) = {}
  BY <1>2, <1>3 DEF Owing
<1>5. PICK r : r = Then(h, "read")
  OBVIOUS
<1>6. r = [NoRequest EXCEPT !.op = "touch", !.pc = "read", !.who = q.who]
  BY <1>2, <1>5 DEF Then
<1>7. r \in Request /\ r.op = "touch" /\ r.pc = "read" /\ r.todo = {} /\ r.who = q.who
  BY <1>3, <1>6, NoRequestTyped DEF Request, Steps, AllOps, NoRequest
<1>8. CASE q.plan = NoPlan \/ Exists(q.plan)
  <2>1. /\ users' = [users EXCEPT ![q.who].plan = q.plan]
        /\ req' = [g \in Actors |-> IF g = h THEN r
                                  ELSE [req[g] EXCEPT !.overtaken = ~ Resting(g)]]
        /\ UNCHANGED <<plans, limits, quota, enforced, owed, begun>>
    BY <1>2, <1>5, <1>8 DEF SetUserPlan, Wrote, host
  <2>2. /\ users \in [Customers -> User] /\ users' \in [Customers -> User]
        /\ users'[q.who].plan = q.plan /\ users'[q.who].made
        /\ \A x \in Customers \ {q.who} : users'[x] = users[x]
    BY <1>3, <2>1 DEF IInv, TypeOK, User
  <2>3. \A p : SizeOf(p)' = SizeOf(p) /\ (Exists(p)' <=> Exists(p))
    BY <2>1 DEF SizeOf, Exists
  <2>4. InStep(h, r)' /\ Knows(r)' /\ q.who \in Owing(r)'
    BY <1>1, <1>7 DEF InStep, Knows, Room, Owing
  <2>5. \A x \in Customers : users'[x].plan # NoPlan => users'[x].made /\ Exists(users[x].plan)'
    BY <1>8, <2>2, <2>3 DEF IInv, TypeOK
  <2>6. \A x \in Customers : users[x].made => users'[x].made
    BY <2>2
  <2>7. \A x \in Customers :
          \/ x \in owed' \cup Owing(r)'
          \/ users'[x].plan = users[x].plan /\ SizeOf(users[x].plan)' = SizeOf(users[x].plan)
    BY <2>2, <2>3, <2>4
  <2>8. /\ plans' \in [PlanIds -> Plan \cup {NoPlan, Gone}] /\ limits' \in [Resellers -> Limit]
        /\ owed' \subseteq Customers /\ owed \subseteq owed'
    BY <2>1 DEF IInv, TypeOK
  <2>9. UNCHANGED <<quota, enforced, begun>> /\ Owing(req[h]) \subseteq Owing(r)' \cup owed'
    BY <1>4, <2>1
  <2>10. QED
    BY <1>1, <1>7, <2>1, <2>2, <2>4, <2>5, <2>6, <2>7, <2>8, <2>9, WriteKeeps
<1>9. CASE ~ (q.plan = NoPlan \/ Exists(q.plan))
  <2>1. (Goto(h, "read") \/ Goto(h, "done")) /\ UNCHANGED <<tables, host, owed, begun>>
    BY <1>2, <1>9 DEF SetUserPlan, tables
  <2>2. CASE Goto(h, "done")
    BY <1>1, <1>4, <2>1, <2>2, DoneKeeps
  <2>3. CASE Goto(h, "read")
    <3>1. req' = [req EXCEPT ![h] = r]
      BY <1>5, <2>3 DEF Goto
    <3>2. InStep(h, r) /\ Knows(r)
      BY <1>1, <1>7 DEF InStep, Knows, Room
    <3>3. UNCHANGED <<tables, quota, owed>> /\ enforced' \in BOOLEAN /\ begun' \in 0 .. MaxRequests
      BY <2>1 DEF host, IInv, TypeOK
    <3>4. QED
      BY <1>1, <1>4, <1>7, <3>1, <3>2, <3>3, StepKeeps
  <2>4. QED
    BY <2>1, <2>2, <2>3
<1>10. QED
  BY <1>8, <1>9
LEMMA CreatePlanKeeps ==
  ASSUME IInv, NEW h \in Handlers, CreatePlan(h)
  PROVE  IInv'
<1>1. /\ h \in Actors /\ h \notin Jobs /\ req[h] \in Request
      /\ InStep(h, req[h]) /\ Knows(req[h]) /\ req \in [Actors -> Request]
  BY Standing, BoundAssumption DEF Actors
<1>2. PICK q \in Request : q = req[h]
  BY <1>1
<1>3. q.pc = "add" /\ q.todo = {} /\ q.plan \in PlanIds /\ q.size \in Sizes /\ q.by \in Owners
  BY <1>1, <1>2 DEF CreatePlan, At, InStep, Request
<1>4. Owing(req[h]) = {}
  BY <1>2, <1>3 DEF Owing
<1>5. CASE plans[q.plan] # NoPlan
  <2>1. Goto(h, "done") /\ UNCHANGED <<tables, host, owed, begun>>
    BY <1>2, <1>5 DEF CreatePlan, tables
  <2>2. QED
    BY <1>1, <1>4, <2>1, DoneKeeps
<1>6. CASE plans[q.plan] = NoPlan
  <2>1. PICK a \in Plan : a = [size |-> q.size, owner |-> q.by]
    BY <1>3 DEF Plan
  <2>2. /\ plans' = [plans EXCEPT ![q.plan] = a]
        /\ req' = [g \in Actors |-> IF g = h THEN NoRequest
                                  ELSE [req[g] EXCEPT !.overtaken = ~ Resting(g)]]
        /\ UNCHANGED <<users, limits, quota, enforced, owed, begun>>
    BY <1>2, <1>6, <2>1 DEF CreatePlan, Wrote, Then, host
  <2>3. /\ plans' \in [PlanIds -> Plan \cup {NoPlan, Gone}]
        /\ plans' = [plans EXCEPT ![q.plan] = a] /\ plans \in [PlanIds -> Plan \cup {NoPlan, Gone}]
    BY <1>3, <2>2 DEF IInv, TypeOK
  <2>4. \A x \in Customers :
          /\ users'[x].plan = users[x].plan
          /\ users'[x].plan # NoPlan => users'[x].made /\ Exists(users[x].plan)'
          /\ SizeOf(users[x].plan)' = SizeOf(users[x].plan)
    <3>1. SUFFICES ASSUME NEW x \in Customers, NEW p \in PlanIds \cup {NoPlan}, p = users[x].plan
                   PROVE  (p # NoPlan => users[x].made /\ Exists(p)') /\ SizeOf(p)' = SizeOf(p)
      BY <2>2 DEF IInv, TypeOK, User
    <3>2. CASE p = NoPlan
      BY <3>2 DEF SizeOf, Exists
    <3>3. CASE p # NoPlan
      <4>1. users[x].made /\ Exists(p) /\ p \in PlanIds /\ p # q.plan
        BY <1>6, <3>1, <3>3 DEF IInv, TypeOK, Exists
      <4>2. plans'[p] = plans[p]
        BY <2>3, <4>1
      <4>3. QED
        BY <4>1, <4>2 DEF SizeOf, Exists
    <3>4. QED
      BY <3>2, <3>3
  <2>5. NoRequest \in Request /\ InStep(h, NoRequest)' /\ Knows(NoRequest)'
    BY <1>1, NoRequestTyped DEF InStep, Knows, Room, NoRequest
  <2>6. /\ users' \in [Customers -> User] /\ limits' \in [Resellers -> Limit]
        /\ owed' \subseteq Customers /\ owed \subseteq owed'
    BY <2>2 DEF IInv, TypeOK
  <2>7. UNCHANGED <<quota, enforced, begun>> /\ Owing(req[h]) \subseteq Owing(NoRequest)' \cup owed'
          /\ \A x \in Customers : users[x].made => users'[x].made
    BY <1>4, <2>2
  <2>8. QED
    BY <1>1, <2>2, <2>3, <2>4, <2>5, <2>6, <2>7, WriteKeeps
<1>7. QED
  BY <1>5, <1>6

(* Whoever changes the size sees to the accounts on it; who was overtaken  *)
(* cannot tell, and has given them up.                                     *)
LEMMA UpdatePlanKeeps ==
  ASSUME IInv, NEW h \in Handlers, UpdatePlan(h)
  PROVE  IInv'
<1>1. /\ h \in Actors /\ h \notin Jobs /\ req[h] \in Request
      /\ InStep(h, req[h]) /\ Knows(req[h]) /\ req \in [Actors -> Request]
  BY Standing, BoundAssumption DEF Actors
<1>2. PICK q \in Request : q = req[h]
  BY <1>1
<1>3. q.pc = "write" /\ q.op = "update" /\ q.todo = {} /\ q.plan \in PlanIds /\ q.size \in Sizes
  BY <1>1, <1>2 DEF UpdatePlan, At, InStep, Request
<1>4. Owing(req[h]) = {}
  BY <1>2, <1>3 DEF Owing
<1>5. ~ q.overtaken => q.before = SizeOf(q.plan)
  BY <1>1, <1>2, <1>3 DEF Knows
<1>6. PICK r : r = Then(h, IF q.size # q.before THEN "list" ELSE "done")
  OBVIOUS
<1>7. /\ plans' = IF Exists(q.plan) THEN [plans EXCEPT ![q.plan].size = q.size] ELSE plans
      /\ owed' = IF q.overtaken THEN owed \cup OnPlan(q.plan) ELSE owed
      /\ req' = [g \in Actors |-> IF g = h THEN r
                                ELSE [req[g] EXCEPT !.overtaken = ~ Resting(g)]]
      /\ UNCHANGED <<users, limits, quota, enforced, begun>>
  BY <1>2, <1>6 DEF UpdatePlan, Wrote, host
<1>8. IF q.size # q.before THEN r = [q EXCEPT !.pc = "list"] ELSE r = NoRequest
  BY <1>2, <1>6 DEF Then
<1>9. /\ r \in Request /\ InStep(h, r)' /\ Knows(r)'
      /\ q.size # q.before => Owing(r)' = OnPlan(q.plan)
  <2>1. CASE q.size # q.before
    <3>1. r \in Request /\ r.pc = "list" /\ r.op = q.op /\ r.plan = q.plan /\ r.todo = q.todo
      BY <1>8, <2>1 DEF Request, Steps
    <3>2. QED
      BY <1>1, <1>3, <1>7, <3>1 DEF InStep, Knows, Room, Owing, OnPlan
  <2>2. CASE q.size = q.before
    <3>1. r = NoRequest
      BY <1>8, <2>2
    <3>2. InStep(h, NoRequest)' /\ Knows(NoRequest)'
      BY <1>1 DEF InStep, Knows, Room, NoRequest
    <3>3. QED
      BY <2>2, <3>1, <3>2, NoRequestTyped
  <2>3. QED
    BY <2>1, <2>2
<1>10. plans \in [PlanIds -> Plan \cup {NoPlan, Gone}]
  BY DEF IInv, TypeOK
<1>11. /\ plans' \in [PlanIds -> Plan \cup {NoPlan, Gone}]
       /\ \A p \in PlanIds \ {q.plan} : plans'[p] = plans[p]
       /\ ~ Exists(q.plan) => plans' = plans
       /\ Exists(q.plan) => /\ plans'[q.plan] \in Plan /\ plans'[q.plan].size = q.size
  <2>1. CASE Exists(q.plan)
    <3>1. plans[q.plan] \in Plan
      BY <1>3, <1>10, <2>1 DEF Exists
    <3>2. [plans[q.plan] EXCEPT !.size = q.size] \in Plan
      BY <1>3, <3>1 DEF Plan
    <3>3. plans' = [plans EXCEPT ![q.plan] = [plans[q.plan] EXCEPT !.size = q.size]]
      BY <1>3, <1>7, <1>10, <2>1, <3>1 DEF Plan
    <3>4. [plans[q.plan] EXCEPT !.size = q.size].size = q.size
      BY <3>1 DEF Plan
    <3>5. QED
      BY <1>3, <1>10, <2>1, <3>2, <3>3, <3>4
  <2>2. CASE ~ Exists(q.plan)
    BY <1>7, <1>10, <2>2
  <2>3. QED
    BY <2>1, <2>2
<1>12. \A p \in PlanIds \cup {NoPlan} :
         /\ Exists(p) => Exists(p)'
         /\ p # q.plan => SizeOf(p)' = SizeOf(p)
         /\ p = q.plan => SizeOf(p)' = IF Exists(p) THEN q.size ELSE SizeOf(p)
  <2>1. SUFFICES ASSUME NEW p \in PlanIds \cup {NoPlan}
                 PROVE  /\ Exists(p) => Exists(p)'
                        /\ p # q.plan => SizeOf(p)' = SizeOf(p)
                        /\ p = q.plan => SizeOf(p)' = IF Exists(p) THEN q.size ELSE SizeOf(p)
    OBVIOUS
  <2>2. CASE p # q.plan
    BY <1>11, <2>2 DEF Exists, SizeOf
  <2>3. CASE p = q.plan /\ Exists(p)
    <3>1. Exists(p)'
      BY <1>11, <2>3, OwnersAssumption DEF Exists
    <3>2. QED
      BY <1>11, <2>3, <3>1 DEF SizeOf
  <2>4. CASE p = q.plan /\ ~ Exists(p)
    BY <1>11, <2>4 DEF Exists, SizeOf
  <2>5. QED
    BY <2>2, <2>3, <2>4
<1>13. \A x \in Customers : users[x].plan \in PlanIds \cup {NoPlan}
  BY DEF IInv, TypeOK, User
<1>14. \A x \in Customers : users'[x].plan # NoPlan => users'[x].made /\ Exists(users[x].plan)'
  BY <1>7, <1>12, <1>13 DEF IInv, TypeOK
<1>15. ASSUME NEW x \in Customers
       PROVE  \/ x \in owed' \cup Owing(r)'
              \/ users'[x].plan = users[x].plan /\ SizeOf(users[x].plan)' = SizeOf(users[x].plan)
  <2>1. CASE users[x].plan # q.plan
    BY <1>7, <1>12, <1>13, <2>1
  <2>2. CASE users[x].plan = q.plan
    <3>1. Exists(q.plan) /\ x \in OnPlan(q.plan)
      <4>1. q.plan # NoPlan
        BY <1>3, OwnersAssumption
      <4>2. QED
        BY <2>2, <4>1 DEF IInv, TypeOK, OnPlan
    <3>2. CASE q.overtaken \/ q.size # q.before
      BY <1>7, <1>9, <3>1, <3>2
    <3>3. CASE ~ q.overtaken /\ q.size = q.before
      BY <1>5, <1>7, <1>12, <1>13, <2>2, <3>1, <3>3
    <3>4. QED
      BY <3>2, <3>3
  <2>3. QED
    BY <2>1, <2>2
<1>16. /\ users' \in [Customers -> User] /\ limits' \in [Resellers -> Limit]
       /\ owed' \subseteq Customers /\ owed \subseteq owed'
  BY <1>7 DEF IInv, TypeOK, OnPlan
<1>17. UNCHANGED <<quota, enforced, begun>> /\ Owing(req[h]) \subseteq Owing(r)' \cup owed'
         /\ \A x \in Customers : users[x].made => users'[x].made
  BY <1>4, <1>7
<1>18. QED
  BY <1>1, <1>7, <1>9, <1>11, <1>14, <1>15, <1>16, <1>17, WriteKeeps

LEMMA DeletePlanKeeps ==
  ASSUME IInv, NEW h \in Handlers, DeletePlan(h)
  PROVE  IInv'
<1>1. /\ h \in Actors /\ h \notin Jobs /\ req[h] \in Request
      /\ InStep(h, req[h]) /\ Knows(req[h]) /\ req \in [Actors -> Request]
  BY Standing, BoundAssumption DEF Actors
<1>2. PICK q \in Request : q = req[h]
  BY <1>1
<1>3. q.pc = "drop" /\ q.op = "delete" /\ q.todo = {} /\ q.plan \in PlanIds
  BY <1>1, <1>2 DEF DeletePlan, At, InStep, Request
<1>4. Owing(req[h]) = {}
  BY <1>2, <1>3 DEF Owing
<1>5. /\ req' = [g \in Actors |-> IF g = h THEN NoRequest
                                ELSE [req[g] EXCEPT !.overtaken = ~ Resting(g)]]
      /\ UNCHANGED <<limits, quota, enforced, begun>>
  BY DEF DeletePlan, Wrote, Then, host
<1>6. NoRequest \in Request /\ InStep(h, NoRequest)' /\ Knows(NoRequest)'
  BY <1>1, NoRequestTyped DEF InStep, Knows, Room, NoRequest
<1>7. /\ plans \in [PlanIds -> Plan \cup {NoPlan, Gone}] /\ users \in [Customers -> User]
      /\ \A x \in Customers : users[x].plan # NoPlan => users[x].made /\ Exists(users[x].plan)
      /\ owed \subseteq Customers /\ limits' \in [Resellers -> Limit]
  BY <1>5 DEF IInv, TypeOK
<1>8. /\ plans' \in [PlanIds -> Plan \cup {NoPlan, Gone}] /\ users' \in [Customers -> User]
      /\ owed' \subseteq Customers /\ owed \subseteq owed'
      /\ \A x \in Customers : users[x].made => users'[x].made
      /\ \A x \in Customers : users'[x].plan # NoPlan => users'[x].made /\ Exists(users[x].plan)'
      /\ \A x \in Customers :
           \/ x \in owed'
           \/ users'[x].plan = users[x].plan /\ SizeOf(users[x].plan)' = SizeOf(users[x].plan)
  <2>1. CASE ~ Exists(q.plan)
    <3>1. UNCHANGED <<plans, users, owed>>
      BY <1>2, <2>1 DEF DeletePlan
    <3>2. QED
      BY <1>7, <3>1 DEF SizeOf, Exists
  <2>2. CASE Exists(q.plan)
    <3>1. /\ plans' = [plans EXCEPT ![q.plan] = Gone]
          /\ users' = [u \in Customers |-> IF users[u].plan = q.plan
                                          THEN [users[u] EXCEPT !.plan = NoPlan] ELSE users[u]]
          /\ owed' = owed \cup OnPlan(q.plan)
      BY <1>2, <2>2 DEF DeletePlan
    <3>2. /\ plans' \in [PlanIds -> Plan \cup {NoPlan, Gone}]
          /\ \A p \in PlanIds \ {q.plan} : plans'[p] = plans[p]
      BY <1>3, <1>7, <3>1
    <3>3. \A x \in Customers : /\ users'[x] \in User
                               /\ users'[x].made = users[x].made
                               /\ users[x].plan = q.plan => users'[x].plan = NoPlan
                               /\ users[x].plan # q.plan => users'[x] = users[x]
      BY <1>7, <3>1 DEF User
    <3>4. users' \in [Customers -> User]
      <4>1. users' = [x \in Customers |-> users'[x]]
        BY <3>1
      <4>2. QED
        BY <3>3, <4>1
    <3>5. \A p \in PlanIds \cup {NoPlan} :
            p # q.plan => SizeOf(p)' = SizeOf(p) /\ (Exists(p)' <=> Exists(p))
      BY <3>2 DEF SizeOf, Exists
    <3>6. \A x \in Customers : users[x].plan \in PlanIds \cup {NoPlan}
      BY <1>7 DEF User
    <3>7. ASSUME NEW x \in Customers, users'[x].plan # NoPlan
          PROVE  users'[x].made /\ Exists(users[x].plan)'
      <4>1. PICK p \in PlanIds \cup {NoPlan} : p = users[x].plan
        BY <3>6
      <4>2. p # q.plan /\ users'[x].plan = p /\ users'[x].made /\ Exists(p)
        BY <1>7, <3>3, <3>7, <4>1
      <4>3. Exists(p)'
        BY <3>5, <4>2
      <4>4. QED
        BY <4>2, <4>3 DEF Exists
    <3>8. ASSUME NEW x \in Customers
          PROVE  \/ x \in owed'
                 \/ users'[x].plan = users[x].plan /\ SizeOf(users[x].plan)' = SizeOf(users[x].plan)
      <4>1. CASE users[x].plan = q.plan
        BY <1>3, <1>7, <2>2, <3>1, <4>1 DEF OnPlan, Exists
      <4>2. CASE users[x].plan # q.plan
        <5>1. PICK p \in PlanIds \cup {NoPlan} : p = users[x].plan
          BY <3>6
        <5>2. users'[x].plan = p /\ SizeOf(p)' = SizeOf(p)
          BY <3>3, <3>5, <4>2, <5>1
        <5>3. QED
          BY <5>1, <5>2 DEF SizeOf, Exists
      <4>3. QED
        BY <4>1, <4>2
    <3>9. owed' \subseteq Customers /\ owed \subseteq owed'
      BY <1>7, <3>1 DEF OnPlan
    <3>10. QED
      BY <3>2, <3>3, <3>4, <3>7, <3>8, <3>9
  <2>3. QED
    BY <2>1, <2>2
<1>9. Owing(req[h]) \subseteq Owing(NoRequest)' \cup owed'
  BY <1>4
<1>10. QED
  BY <1>1, <1>5, <1>6, <1>7, <1>8, <1>9, WriteKeeps

LEMMA SetLimitsKeeps ==
  ASSUME IInv, NEW h \in Handlers, SetLimits(h)
  PROVE  IInv'
<1>1. /\ h \in Actors /\ h \notin Jobs /\ req[h] \in Request
      /\ InStep(h, req[h]) /\ Knows(req[h]) /\ req \in [Actors -> Request]
  BY Standing, BoundAssumption DEF Actors
<1>2. PICK q \in Request : q = req[h]
  BY <1>1
<1>3. q.pc = "limits" /\ q.todo = {} /\ q.to \in Resellers
  <2>1. q.pc = "limits"
    BY <1>2 DEF SetLimits, At
  <2>2. QED
    BY <1>1, <1>2, <2>1 DEF InStep
<1>4. PICK l \in Limit : limits' = [limits EXCEPT ![q.to] = l]
  BY <1>2, SizesAssumption DEF SetLimits
<1>5. /\ req' = [g \in Actors |-> IF g = h THEN NoRequest
                                ELSE [req[g] EXCEPT !.overtaken = ~ Resting(g)]]
      /\ UNCHANGED <<plans, users, quota, enforced, owed, begun>>
  BY DEF SetLimits, Wrote, Then, host
<1>6. NoRequest \in Request /\ InStep(h, NoRequest)' /\ Knows(NoRequest)'
  BY <1>1, NoRequestTyped DEF InStep, Knows, Room, NoRequest
<1>7. /\ plans' \in [PlanIds -> Plan \cup {NoPlan, Gone}] /\ users' \in [Customers -> User]
      /\ limits' \in [Resellers -> Limit] /\ owed' \subseteq Customers /\ owed \subseteq owed'
  BY <1>3, <1>4, <1>5 DEF IInv, TypeOK
<1>8. \A x \in Customers :
        /\ users'[x].plan # NoPlan => users'[x].made /\ Exists(users[x].plan)'
        /\ users[x].made => users'[x].made
        /\ users'[x].plan = users[x].plan /\ SizeOf(users[x].plan)' = SizeOf(users[x].plan)
  BY <1>5 DEF IInv, TypeOK, Exists, SizeOf
<1>9. Owing(req[h]) \subseteq Owing(NoRequest)' \cup owed'
  BY <1>2, <1>3 DEF Owing
<1>10. QED
  BY <1>1, <1>5, <1>6, <1>7, <1>8, <1>9, WriteKeeps

LEMMA AssignParentKeeps ==
  ASSUME IInv, NEW h \in Handlers, AssignParent(h)
  PROVE  IInv'
<1>1. /\ h \in Actors /\ h \notin Jobs /\ req[h] \in Request
      /\ InStep(h, req[h]) /\ Knows(req[h]) /\ req \in [Actors -> Request]
  BY Standing, BoundAssumption DEF Actors
<1>2. PICK q \in Request : q = req[h]
  BY <1>1
<1>3. q.pc = "parent" /\ q.todo = {} /\ q.to \in Owners /\ q.who \in Customers
  BY <1>1, <1>2 DEF AssignParent, At, InStep, Request
<1>4. /\ users' = [users EXCEPT ![q.who].parent = q.to]
      /\ req' = [g \in Actors |-> IF g = h THEN NoRequest
                                ELSE [req[g] EXCEPT !.overtaken = ~ Resting(g)]]
      /\ UNCHANGED <<plans, limits, quota, enforced, owed, begun>>
  BY <1>2 DEF AssignParent, Wrote, Then, host
<1>5. NoRequest \in Request /\ InStep(h, NoRequest)' /\ Knows(NoRequest)'
  BY <1>1, NoRequestTyped DEF InStep, Knows, Room, NoRequest
<1>6. /\ plans' \in [PlanIds -> Plan \cup {NoPlan, Gone}] /\ users' \in [Customers -> User]
      /\ limits' \in [Resellers -> Limit] /\ owed' \subseteq Customers /\ owed \subseteq owed'
  BY <1>3, <1>4 DEF IInv, TypeOK, User
<1>7. \A x \in Customers : users'[x].plan = users[x].plan /\ users'[x].made = users[x].made
  BY <1>3, <1>4 DEF IInv, TypeOK, User
<1>8. \A p : SizeOf(p)' = SizeOf(p) /\ (Exists(p)' <=> Exists(p))
  BY <1>4 DEF SizeOf, Exists
<1>9. \A x \in Customers :
        /\ users'[x].plan # NoPlan => users'[x].made /\ Exists(users[x].plan)'
        /\ users[x].made => users'[x].made
        /\ users'[x].plan = users[x].plan /\ SizeOf(users[x].plan)' = SizeOf(users[x].plan)
  BY <1>7, <1>8 DEF IInv, TypeOK
<1>10. Owing(req[h]) \subseteq Owing(NoRequest)' \cup owed'
  BY <1>2, <1>3 DEF Owing
<1>11. QED
  BY <1>1, <1>4, <1>5, <1>6, <1>9, <1>10, WriteKeeps

-----------------------------------------------------------------------------
(* Every behaviour. *)

LEMMA InitIInv == Init => IInv
<1>1. SUFFICES ASSUME Init PROVE IInv
  OBVIOUS
<1>2. /\ plans = FirstPlans /\ users = FirstUsers /\ limits = FirstLimit /\ enforced = FirstEnforced
      /\ begun = 0 /\ req = [h \in Actors |-> NoRequest]
  BY <1>1 DEF Init
<1>3. \A u \in Customers : users[u].plan \in PlanIds \cup {NoPlan}
  BY <1>2, FirstAssumption DEF User
<1>4. \A u \in Customers : users[u].plan # NoPlan => users[u].made /\ Exists(users[u].plan)
  BY <1>2, FirstAssumption DEF Exists
<1>5. \A u \in Customers : SizeOf(users[u].plan)
                            = IF FirstUsers[u].plan # NoPlan THEN FirstPlans[FirstUsers[u].plan].size ELSE 0
  BY <1>2, <1>4 DEF SizeOf, Exists
<1>6. \A u \in Customers : SizeOf(users[u].plan) \in Sizes
  <2>1. SUFFICES ASSUME NEW u \in Customers, users[u].plan # NoPlan PROVE SizeOf(users[u].plan) \in Sizes
    BY <1>5, <1>2, SizesAssumption
  <2>2. PICK p \in PlanIds : p = users[u].plan /\ Exists(p)
    BY <1>3, <1>4, <2>1
  <2>3. plans[p] \in Plan
    BY <1>2, <2>2, FirstAssumption DEF Exists
  <2>4. QED
    BY <2>2, <2>3 DEF SizeOf, Plan
<1>7. /\ quota \in [Customers -> Sizes] /\ owed \subseteq Customers
      /\ \A u \in Customers : u \in owed \/ quota[u] = SizeOf(users[u].plan)
  <2>1. CASE FirstEnforced
    BY <1>1, <1>5, <1>6, <2>1, SizesAssumption DEF Init
  <2>2. CASE ~ FirstEnforced
    BY <1>1, <2>2, SizesAssumption DEF Init
  <2>3. QED
    BY <2>1, <2>2
<1>8. req \in [Actors -> Request] /\ \A j \in Jobs : req[j].op \in {"none", "reapply"}
  BY <1>2, NoRequestTyped DEF Actors, NoRequest
<1>9. TypeOK
  BY <1>2, <1>4, <1>7, <1>8, FirstAssumption, BoundAssumption DEF TypeOK
<1>10. \A h \in Actors : InStep(h, req[h]) /\ Knows(req[h])
  BY <1>2, NoRequestFits
<1>11. QED
  BY <1>7, <1>9, <1>10 DEF IInv, Settled

LEMMA NextIInv == IInv /\ [Next]_vars => IInv'
<1>1. SUFFICES ASSUME IInv, [Next]_vars PROVE IInv'
  OBVIOUS
<1>2. ASSUME NEW h \in Handlers, Handle(h) PROVE IInv'
  BY <1>1, <1>2, ReadBeforeKeeps, LoadPlanKeeps, AllowKeeps, CreateUserKeeps, SetUserPlanKeeps,
     CheckMayCreateKeeps, CreatePlanKeeps, UpdatePlanKeeps, ReapplyQuotasKeeps, DeletePlanKeeps,
     SetLimitsKeeps, AssignParentKeeps DEF Handle
<1>3. ASSUME NEW h \in Handlers, BeginAccount(h) \/ BeginPackage(h) \/ BeginReseller(h) PROVE IInv'
  BY <1>1, <1>3, BeginAccountKeeps, BeginPackageKeeps, BeginResellerKeeps
<1>4. ASSUME NEW j \in Jobs, NextAccount(j) PROVE IInv'
  BY <1>1, <1>4, NextAccountKeeps
<1>5. ASSUME NEW h \in Actors, ReadLimit(h) \/ SetQuota(h) \/ Cancel(h) PROVE IInv'
  BY <1>1, <1>5, ReadLimitKeeps, SetQuotaKeeps, CancelKeeps
<1>6. CASE Reboot
  BY <1>1, <1>6, RebootKeeps
<1>7. CASE UNCHANGED vars
  <2>1. PICK R \in [Actors -> Request] : R = req
    BY <1>1 DEF IInv, TypeOK
  <2>2. /\ req' = R /\ UNCHANGED <<tables, quota, owed>> /\ quota' \in [Customers -> Sizes]
        /\ owed' \subseteq Customers /\ enforced' \in BOOLEAN /\ begun' \in 0 .. MaxRequests
    BY <1>1, <1>7, <2>1 DEF vars, tables, IInv, TypeOK
  <2>3. \A u \in Customers : \/ u \in owed'
                             \/ quota'[u] = SizeOf(users[u].plan)
                             \/ \E k \in Actors : u \in Owing(R[k])
    BY <1>1, <2>1, <2>2 DEF IInv, Settled
  <2>4. QED
    BY <1>1, <2>1, <2>2, <2>3, StepsKeep
<1>8. QED
  BY <1>1, <1>2, <1>3, <1>4, <1>5, <1>6, <1>7 DEF Next

LEMMA Invariance == Spec => []IInv
BY InitIInv, NextIInv, PTL DEF Spec

(* Types, and quotas that follow the packages: with every account at rest  *)
(* the filesystem holds it to its package, whatever was assigned, resized  *)
(* and moved at the same time, save the ones that are known to be owed.    *)
THEOREM LimitsFollowPackages == Spec => []PackagesInv
<1>1. IInv => PackagesInv
  <2>1. SUFFICES ASSUME IInv, \A h \in Actors : Resting(h), NEW u \in Customers \ owed
                 PROVE  quota[u] = SizeOf(users[u].plan)
    BY DEF IInv, PackagesInv, QuotaFollowsPackage
  <2>2. \A h \in Actors : Owing(req[h]) = {}
    BY <2>1 DEF IInv, Resting, At, InStep, Owing
  <2>3. QED
    BY <2>1, <2>2 DEF IInv, Settled
<1>2. QED
  BY <1>1, Invariance, PTL

(* Who may write the users table.                                          *)
LEMMA UsersAreWritten ==
  ASSUME [Next]_vars, users' # users
  PROVE  \E h \in Handlers : CreateUser(h) \/ SetUserPlan(h) \/ DeletePlan(h) \/ AssignParent(h)
<1>1. ~ UNCHANGED vars
  BY DEF vars
<1>2. ASSUME NEW h \in Handlers, BeginAccount(h) \/ BeginPackage(h) \/ BeginReseller(h) PROVE FALSE
  <2>1. \E r : Begin(h, r)
    BY <1>2, ZenonT(60) DEF BeginAccount, BeginPackage, BeginReseller
  <2>2. QED
    BY <2>1 DEF Begin, tables
<1>3. ASSUME NEW h \in Handlers, Handle(h)
      PROVE  CreateUser(h) \/ SetUserPlan(h) \/ DeletePlan(h) \/ AssignParent(h)
  <2>1. ~ (ReadBefore(h) \/ LoadPlan(h) \/ Allow(h))
    BY DEF ReadBefore, LoadPlan, Allow, tables
  <2>2. ~ (CheckMayCreate(h) \/ CreatePlan(h) \/ UpdatePlan(h))
    BY DEF CheckMayCreate, CreatePlan, UpdatePlan, tables
  <2>3. ~ (ReapplyQuotas(h) \/ SetLimits(h))
    BY DEF ReapplyQuotas, SetLimits, tables
  <2>4. QED
    BY <1>3, <2>1, <2>2, <2>3 DEF Handle
<1>4. ~ \E j \in Jobs : NextAccount(j)
  BY DEF NextAccount, tables
<1>5. ~ \E h \in Actors : ReadLimit(h) \/ SetQuota(h) \/ Cancel(h)
  BY DEF ReadLimit, SetQuota, Cancel, tables
<1>6. ~ Reboot
  BY DEF Reboot, tables
<1>7. QED
  BY <1>1, <1>2, <1>3, <1>4, <1>5, <1>6 DEF Next

(* A reseller's own create or assignment that was not overtaken stays      *)
(* within the allowance, in accounts and in space, for any number of       *)
(* customers; what an update of a package promises is not part of it.      *)
THEOREM GrantsAreWithin == Spec => GrantsStayWithin
<1> DEFINE Within(h, r) ==
      /\ At(h, "insert") /\ limits[r].accounts # 0 =>
           Cardinality(CustomersOf(r)') <= limits[r].accounts
      /\ At(h, "assign") =>
           \/ limits[r].oversell \/ limits[r].disk = 0
           \/ Allocated(r)' <= limits[r].disk
           \/ Allocated(r)' <= Allocated(r)
<1>1. ASSUME IInv, [Next]_vars, NEW h \in Handlers, NEW r \in Resellers, users' # users,
             req[h].by = r, ~ req[h].overtaken, req'[h].pc # req[h].pc
      PROVE  Within(h, r)
  <2>1. /\ h \in Actors /\ req[h] \in Request
        /\ InStep(h, req[h]) /\ Knows(req[h]) /\ req \in [Actors -> Request]
    BY <1>1, Standing DEF Actors
  <2>2. PICK q \in Request : q = req[h] /\ q.by = r
    BY <1>1, <2>1
  <2>3. PICK g \in Handlers : CreateUser(g) \/ SetUserPlan(g) \/ DeletePlan(g) \/ AssignParent(g)
    BY <1>1, UsersAreWritten
  <2>4. g = h
    <3>1. \E pc : Wrote(g, pc)
      BY <1>1, <2>3 DEF CreateUser, SetUserPlan, DeletePlan, AssignParent
    <3>2. QED
      BY <1>1, <2>1, <3>1 DEF Wrote, Request
  <2>5. CASE DeletePlan(h) \/ AssignParent(h)
    BY <2>5 DEF DeletePlan, AssignParent, At
  <2>6. CASE CreateUser(h)
    <3>1. At(h, "insert") /\ ~ At(h, "assign") /\ q.op = "create"
      BY <2>1, <2>2, <2>6 DEF CreateUser, At, InStep
    <3>2. RoomForAccount(r)
      BY <1>1, <2>1, <2>2, <3>1 DEF Knows, Room, At
    <3>3. users' = [users EXCEPT ![q.who] = [made |-> TRUE, parent |-> q.to, plan |-> NoPlan]]
      BY <1>1, <2>2, <2>6 DEF CreateUser
    <3>4. CustomersOf(r)' \subseteq CustomersOf(r) \cup {q.who}
      BY <1>1, <3>3 DEF CustomersOf, IInv, TypeOK
    <3>5. PICK B, C : B = CustomersOf(r) /\ C = CustomersOf(r)'
      OBVIOUS
    <3>6. IsFiniteSet(B)
      BY <3>5, CustomersAssumption, FS_Subset DEF CustomersOf
    <3>7. IsFiniteSet(B \cup {q.who}) /\ Cardinality(B \cup {q.who}) <= Cardinality(B) + 1
      <4>1. /\ IsFiniteSet(B \cup {q.who})
            /\ Cardinality(B \cup {q.who})
                 = IF q.who \in B THEN Cardinality(B) ELSE Cardinality(B) + 1
        BY <3>6, FS_AddElement
      <4>2. Cardinality(B) \in Nat
        BY <3>6, FS_CardinalityType
      <4>3. QED
        BY <4>1, <4>2
    <3>8. Cardinality(C) <= Cardinality(B \cup {q.who}) /\ IsFiniteSet(C)
      BY <3>4, <3>5, <3>7, FS_Subset
    <3>9. limits[r].accounts \in Nat
      BY <1>1 DEF IInv, TypeOK, Limit
    <3>10. Cardinality(B) \in Nat /\ Cardinality(C) \in Nat /\ Cardinality(B \cup {q.who}) \in Nat
      BY <3>6, <3>7, <3>8, FS_CardinalityType
    <3>11. limits[r].accounts # 0 => Cardinality(C) <= limits[r].accounts
      BY <3>2, <3>5, <3>7, <3>8, <3>9, <3>10 DEF RoomForAccount
    <3>12. QED
      BY <2>2, <3>1, <3>5, <3>11
  <2>7. CASE SetUserPlan(h)
    <3>1. At(h, "assign") /\ ~ At(h, "insert") /\ q.op \in {"create", "assign"}
      BY <2>1, <2>2, <2>7 DEF SetUserPlan, At, InStep
    <3>2. users' = [users EXCEPT ![q.who].plan = q.plan] /\ UNCHANGED plans
      BY <1>1, <2>2, <2>7 DEF SetUserPlan
    <3>3. q.who \in Customers /\ q.plan \in PlanIds \cup {NoPlan}
      BY DEF Request
    <3>4. /\ Allocated(r) \in Nat /\ Allocated(r)' \in Nat
          /\ SizeOf(q.plan) \in Nat /\ SizeOf(users[q.who].plan) \in Nat
          /\ \/ Allocated(r)' = Allocated(r)
             \/ Allocated(r)' + SizeOf(users[q.who].plan) = Allocated(r) + SizeOf(q.plan)
      BY <1>1, <3>2, <3>3, ChargedByDifference DEF IInv
    <3>5. q.size = SizeOf(q.plan) /\ Room(q) /\ q.pc = "assign"
      BY <1>1, <2>1, <2>2, <3>1 DEF Knows, At
    <3>6. limits[r].disk \in Nat
      BY <1>1 DEF IInv, TypeOK, Limit
    <3>7. CASE q.op = "create"
      <4>1. SizeOf(users[q.who].plan) = 0
        BY <1>1, <2>1, <2>2, <3>1, <3>7 DEF Knows, At, SizeOf, Exists
      <4>2. RoomFor(r, q.size)
        BY <2>2, <3>5, <3>7 DEF Room
      <4>3. QED
        BY <2>2, <3>1, <3>4, <3>5, <3>6, <4>1, <4>2 DEF RoomFor
    <3>8. CASE q.op = "assign"
      <4>1. q.before \in {0, SizeOf(users[q.who].plan)}
        BY <1>1, <2>1, <2>2, <3>1, <3>8 DEF Knows, At
      <4>2. q.size <= q.before \/ RoomFor(r, q.size - q.before)
        BY <2>2, <3>5, <3>8 DEF Room
      <4>3. QED
        BY <2>2, <3>1, <3>4, <3>5, <3>6, <4>1, <4>2 DEF RoomFor
    <3>9. QED
      BY <3>1, <3>7, <3>8
  <2>8. QED
    BY <2>3, <2>4, <2>5, <2>6, <2>7
<1>2. IInv /\ [Next]_vars =>
        [\A h \in Handlers, r \in Resellers :
           users' # users /\ req[h].by = r /\ ~ req[h].overtaken /\ req'[h].pc # req[h].pc =>
             Within(h, r)]_vars
  BY <1>1
<1>3. QED
  BY <1>2, Invariance, PTL DEF Spec, GrantsStayWithin
=============================================================================
