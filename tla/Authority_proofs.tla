--------------------------- MODULE Authority_proofs ---------------------------
(*********************************************************************************)
(* Approvals, sends and tool calls keep the invariant of Authority_inv, and what *)
(* follows from it: proofs about what agents may reach.                          *)
(*********************************************************************************)
EXTENDS Authority_inv, WellFoundedInduction

\* A set of natural numbers has a smallest element.
LEMMA SmallestExists ==
    ASSUME NEW S, S \subseteq Nat, S # {}
    PROVE  \E x \in S : \A y \in S : x <= y
<1> DEFINE R == OpToRel(<, Nat)
<1>1. PICK x \in S : \A y \in S : ~(<<y, x>> \in R)
  BY Zenon, NatLessThanWellFounded, WFMin
<1>2. \A y \in S : x <= y
  <2> SUFFICES ASSUME NEW y \in S PROVE x <= y
    OBVIOUS
  <2>1. x \in Nat /\ y \in Nat
    OBVIOUS
  <2>2. ASSUME y < x PROVE <<y, x>> \in R
    BY <2>1, <2>2 DEF OpToRel
  <2>3. ~(y < x)
    BY Zenon, <1>1, <2>2
  <2> QED BY <2>1, <2>3
<1> QED BY <1>2

\* A table with a free slot has a lowest one.
LEMMA FreeHasLowest == LowestIsFree
<1> SUFFICES ASSUME NEW t \in Handles, Free(t) # {} PROVE Lowest(t) \in Free(t)
  BY Zenon DEF LowestIsFree
<1>1. \E x \in Free(t) : \A y \in Free(t) : x <= y
  BY Zenon, SmallestExists, AuthorityAssumption DEF Free
<1> QED BY <1>1 DEF Lowest

-----------------------------------------------------------------------------
(* Effects and requests. *)

\* An effect through a granted token; without a human only through a handle
\* without the approval constraint.
LEMMA EffectAdded ==
    ASSUME AuthInv, con.pc = "run", UNCHANGED <<con, policy, pinned, live, granted>>,
           NEW p \in Pids, NEW c \in Cap, NEW perm \in {"send", "execute"}, perm \in c.perms,
           Backed(View(p, c)), NEW human \in BOOLEAN,
           ~human => Gate \notin c.perms /\ View(p, c) \in Grants(tables),
           effects' = Did(p, c, perm, human)
    PROVE  EffectsWereAllowed'
<1> DEFINE e == [pid |-> p, obj |-> c.obj, perm |-> perm, human |-> human]
<1>1. effects' = effects \cup {e}
  BY Zenon DEF Did
<1>2. PICK a \in granted : Narrower(View(p, c), a)
  BY Zenon DEF Backed
<1>3. a.pid = p /\ a.obj = c.obj /\ perm \in a.mask /\ (Gate \in a.mask => Gate \in c.perms)
  <2>1. perm # Gate
    BY Zenon DEF Gate
  <2> QED BY Zenon, <1>2, <2>1 DEF Narrower, View
<1>4. e.pid = p /\ e.obj = c.obj /\ e.perm = perm /\ e.human = human
  BY Zenon
<1>5. ASSUME ~human, LabelsFit(policy), NEW r \in policy.rules, r.rule = "approval"
      PROVE  r.a \notin AllLabels(policy, pinned, live, c.obj)
  <2> DEFINE g == View(p, c)
  <2>1. g \in Grants(tables) \cup Todo
    BY Zenon, <1>5
  <2>2. g.obj = c.obj /\ g.mask = c.perms
    BY Zenon DEF View
  <2>3. Unattended(g) /\ g.mask # {}
    <3>1. perm \in Effect
      BY Zenon DEF Effect
    <3> QED BY Zenon, <1>5, <2>2, <3>1 DEF Unattended
  <2>4. Counts(g, Active)
    BY Zenon, <2>3 DEF Counts
  <2>5. Clean(policy, pinned, live, Grants(tables) \cup Todo, Active)
    BY Zenon, <1>5 DEF AuthInv, RulesKept
  <2>6. LabelsOf(policy, pinned, live, c.obj) = AllLabels(policy, pinned, live, c.obj)
    <3>1. live \in SUBSET Objects /\ c.obj \in Objects /\ \A k \in DOMAIN pinned : pinned[k] \subseteq Flags
      BY Zenon DEF AuthInv, Types, Cap
    <3> QED BY Zenon, <1>5, <3>1, WholeLabels
  <2> HIDE DEF g
  <2> QED BY Zenon, <1>5, <2>1, <2>2, <2>3, <2>4, <2>5, <2>6 DEF Clean
<1> HIDE DEF e
<1>6. EffectsWereGranted'
  BY Zenon, <1>1, <1>3, <1>4 DEF AuthInv, EffectsWereAllowed, EffectsWereGranted
<1>7. UnattendedWasUngated'
  BY Zenon, <1>1, <1>3, <1>4, <1>5 DEF AuthInv, EffectsWereAllowed, UnattendedWasUngated
<1> QED BY Zenon, <1>6, <1>7 DEF EffectsWereAllowed

\* The elements of the queue are requests.
LEMMA ElementsOf ==
    ASSUME NEW q \in Seq(Requests)
    PROVE  \A i \in DOMAIN q : q[i] \in Requests
OBVIOUS

\* Appending puts the request last and leaves the others where they are.
LEMMA AppendFacts ==
    ASSUME NEW q \in Seq(Requests), NEW r \in Requests
    PROVE  /\ Append(q, r) \in Seq(Requests) /\ Len(q) \in Nat /\ Len(Append(q, r)) = Len(q) + 1
           /\ DOMAIN Append(q, r) = DOMAIN q \cup {Len(q) + 1} /\ Len(q) + 1 \notin DOMAIN q
           /\ Append(q, r)[Len(q) + 1] = r /\ \A i \in DOMAIN q : Append(q, r)[i] = q[i]
OBVIOUS

\* A send or a tool call that needs approval queues its request and blocks its process, or is
\* refused because the queue is full.
LEMMA EnqueueWaits ==
    ASSUME AuthInv, con.pc = "run", UNCHANGED <<con, granted>>, NEW p \in Pids, procs[p] = "running",
           NEW c \in Cap, Backed(View(p, c)), NEW action \in {"send", "tool"},
           (IF action = "send" THEN "send" ELSE "execute") \in c.perms, Enqueue(p, c, action)
    PROVE  /\ pending' \in Seq(Requests) /\ Len(pending') <= PendingRoom /\ Waiting'
           /\ procs' \in [Pids -> ProcStates]
           /\ \A q \in Pids : procs'[q] # procs[q] => q = p /\ procs'[q] = "blocked"
<1>1. pending \in Seq(Requests) /\ Len(pending) <= PendingRoom /\ procs \in [Pids -> ProcStates]
  BY Zenon DEF AuthInv, Types
<1>2. CASE ~(Len(pending) < PendingRoom)
  <2>1. UNCHANGED <<pending, procs>>
    BY Zenon, <1>2 DEF Enqueue
  <2>2. Waiting'
    BY Zenon, <2>1 DEF AuthInv, Waiting, Backed
  <2> QED BY Zenon, <1>1, <2>1, <2>2
<1>3. CASE Len(pending) < PendingRoom
  <2> DEFINE r == Request(p, c, action)
             n == Len(pending)
  <2>1. pending' = Append(pending, r) /\ procs' = [procs EXCEPT ![p] = "blocked"]
    BY Zenon, <1>3 DEF Enqueue
  <2>2. r \in Requests /\ r.pid = p /\ r.cap = c /\ r.action = action
    BY Zenon DEF Request, Requests
  <2> HIDE DEF r
  <2>3. pending' \in Seq(Requests) /\ Len(pending') = n + 1 /\ n \in Nat
    BY Zenon, <1>1, <2>1, <2>2, AppendFacts
  <2>4. DOMAIN pending' = DOMAIN pending \cup {n + 1} /\ n + 1 \notin DOMAIN pending
    BY Zenon, <1>1, <2>1, <2>2, AppendFacts
  <2>5. pending'[n + 1] = r /\ \A i \in DOMAIN pending : pending'[i] = pending[i]
    <3> DEFINE a == Append(pending, r)
    <3>1. a[n + 1] = r /\ \A i \in DOMAIN pending : a[i] = pending[i]
      BY Zenon, <1>1, <2>2, AppendFacts
    <3>2. pending' = a
      BY Zenon, <2>1
    <3> HIDE DEF a
    <3> QED BY Zenon, <3>1, <3>2
  <2>6. procs'[p] = "blocked" /\ \A q \in Pids : q # p => procs'[q] = procs[q]
    BY Zenon, <1>1, <2>1
  <2>7. \A i \in DOMAIN pending : pending[i] \in Requests
    BY Zenon, <1>1, ElementsOf
  <2>8. \A i \in DOMAIN pending : pending[i].pid # p /\ pending[i].pid \in Pids
    BY Zenon, <2>7 DEF Requests, AuthInv, Waiting
  <2>9. Waiting'
    <3>1. pending' # <<>> => con'.pc = "run"
      BY Zenon
    <3>2. ASSUME NEW q \in Pids, procs'[q] = "blocked" PROVE \E i \in DOMAIN pending' : pending'[i].pid = q
      <4>1. CASE q = p
        BY Zenon, <2>2, <2>4, <2>5, <4>1
      <4>2. CASE q # p
        <5>1. procs[q] = "blocked"
          BY Zenon, <2>6, <3>2, <4>2
        <5>2. PICK i \in DOMAIN pending : pending[i].pid = q
          BY Zenon, <5>1 DEF AuthInv, Waiting
        <5> QED BY Zenon, <2>4, <2>5, <5>2
      <4> QED BY Zenon, <4>1, <4>2
    <3>3. ASSUME NEW i \in DOMAIN pending'
          PROVE  /\ procs'[pending'[i].pid] = "blocked"
                 /\ Backed(View(pending[i].pid, pending[i].cap))'
                 /\ (IF pending'[i].action = "send" THEN "send" ELSE "execute") \in pending'[i].cap.perms
      <4>1. CASE i = n + 1
        BY Zenon, <2>2, <2>5, <2>6, <4>1 DEF Backed
      <4>2. CASE i \in DOMAIN pending
        <5>1. /\ procs[pending[i].pid] = "blocked" /\ Backed(View(pending[i].pid, pending[i].cap))
              /\ (IF pending[i].action = "send" THEN "send" ELSE "execute") \in pending[i].cap.perms
          BY Zenon, <4>2 DEF AuthInv, Waiting
        <5>2. pending'[i] = pending[i] /\ procs'[pending[i].pid] = procs[pending[i].pid]
          BY Zenon, <2>5, <2>6, <2>8, <4>2
        <5> QED BY Zenon, <5>1, <5>2 DEF Backed
      <4> QED BY Zenon, <2>4, <4>1, <4>2
    <3>4. ASSUME NEW i \in DOMAIN pending', NEW j \in DOMAIN pending', pending'[i].pid = pending'[j].pid PROVE i = j
      <4>1. CASE i \in DOMAIN pending /\ j \in DOMAIN pending
        <5>1. pending[i].pid = pending[j].pid
          BY Zenon, <2>5, <3>4, <4>1
        <5> QED BY Zenon, <4>1, <5>1 DEF AuthInv, Waiting
      <4>2. CASE ~(i \in DOMAIN pending /\ j \in DOMAIN pending)
        BY Zenon, <2>2, <2>4, <2>5, <2>8, <3>4, <4>2
      <4> QED BY Zenon, <4>1, <4>2
    <3> QED BY Zenon, <3>1, <3>2, <3>3, <3>4 DEF Waiting
  <2>10. procs' \in [Pids -> ProcStates]
    BY Zenon, <1>1, <2>1 DEF ProcStates
  <2>11. Len(pending') <= PendingRoom
    BY <1>3, <2>3, AuthorityAssumption
  <2> QED BY Zenon, <2>3, <2>6, <2>9, <2>10, <2>11
<1> QED BY Zenon, <1>2, <1>3

\* q with the request i taken out, in whatever order: k of the rest was f[k].
Others(q, i, rest, f) ==
    /\ f \in [DOMAIN rest -> DOMAIN q \ {i}]
    /\ \A k \in DOMAIN rest : rest[k] = q[f[k]]
    /\ \A j, k \in DOMAIN rest : f[j] = f[k] => j = k
    /\ \A j \in DOMAIN q : j # i => \E k \in DOMAIN rest : f[k] = j

\* Taking the first request away leaves the others.
LEMMA TailIsOthers ==
    ASSUME NEW q \in Seq(Requests), q # <<>>
    PROVE  /\ Tail(q) \in Seq(Requests) /\ Len(Tail(q)) <= Len(q) /\ 1 \in DOMAIN q /\ Head(q) = q[1]
           /\ \E f : Others(q, 1, Tail(q), f)
<1> DEFINE t == Tail(q)
           f == [k \in DOMAIN t |-> k + 1]
<1>1. t \in Seq(Requests) /\ Len(q) \in Nat /\ Len(q) >= 1 /\ Len(t) = Len(q) - 1
  OBVIOUS
<1>2. DOMAIN q = 1..Len(q) /\ DOMAIN t = 1..(Len(q) - 1)
  BY <1>1
<1>3. \A k \in DOMAIN t : t[k] = q[k + 1]
  BY <1>1
<1>4. \A k \in DOMAIN t : f[k] = k + 1
  OBVIOUS
<1>5. f \in [DOMAIN t -> DOMAIN q \ {1}]
  BY <1>1, <1>2
<1>6. \A j \in DOMAIN q : j # 1 => j - 1 \in DOMAIN t /\ f[j - 1] = j
  BY <1>1, <1>2
<1>7. \A j, k \in DOMAIN t : f[j] = f[k] => j = k
  BY <1>1, <1>2, <1>4
<1> HIDE DEF t, f
<1>8. Others(q, 1, t, f)
  BY <1>3, <1>4, <1>5, <1>6, <1>7 DEF Others
<1> QED BY <1>1, <1>2, <1>8 DEF t

\* The elements of a concatenation.
LEMMA ConcatFacts ==
    ASSUME NEW S, NEW a \in Seq(S), NEW b \in Seq(S)
    PROVE  /\ a \o b \in Seq(S) /\ Len(a \o b) = Len(a) + Len(b)
           /\ \A k \in 1..(Len(a) + Len(b)) : (a \o b)[k] = IF k <= Len(a) THEN a[k] ELSE b[k - Len(a)]
OBVIOUS

\* Rotating the queue takes no two places to one.
LEMMA TurnInjective ==
    ASSUME NEW n \in Nat, NEW i \in 1..n, NEW j \in 1..(n - 1), NEW k \in 1..(n - 1),
           (IF j <= n - i THEN i + j ELSE j - (n - i)) = (IF k <= n - i THEN i + k ELSE k - (n - i))
    PROVE  j = k
OBVIOUS

\* Taking request i out, the requests before it rotated to the back, leaves the others.
LEMMA TakeIsOthers ==
    ASSUME NEW q \in Seq(Requests), NEW i \in DOMAIN q
    PROVE  /\ Take(q, i).rest \in Seq(Requests) /\ Len(Take(q, i).rest) <= Len(q) /\ Take(q, i).req = q[i]
           /\ \E f : Others(q, i, Take(q, i).rest, f)
<1> DEFINE n == Len(q)
           u == SubSeq(q, i + 1, n)
           v == SubSeq(q, 1, i - 1)
           t == u \o v
           f == [k \in 1..(n - 1) |-> IF k <= n - i THEN i + k ELSE k - (n - i)]
<1>1. n \in Nat /\ i \in 1..n /\ DOMAIN q = 1..n
  OBVIOUS
<1>2. /\ u \in Seq(Requests) /\ Len(u) = n - i /\ \A k \in 1..(n - i) : u[k] = q[i + k]
      /\ v \in Seq(Requests) /\ Len(v) = i - 1 /\ \A k \in 1..(i - 1) : v[k] = q[k]
  <2>1. /\ u \in Seq(Requests) /\ Len(u) = n - i /\ \A k \in 1..(n - i) : u[k] = q[i + k]
    BY <1>1
  <2>2. /\ v \in Seq(Requests) /\ Len(v) = i - 1 /\ \A k \in 1..(i - 1) : v[k] = q[k]
    BY <1>1
  <2> QED BY <2>1, <2>2
<1> HIDE DEF u, v
<1>3. /\ t \in Seq(Requests) /\ Len(t) = n - 1 /\ DOMAIN t = 1..(n - 1)
      /\ \A k \in 1..(n - 1) : t[k] = IF k <= n - i THEN u[k] ELSE v[k - (n - i)]
  <2>0. u \in Seq(Requests) /\ v \in Seq(Requests)
    BY <1>2
  <2>1. /\ t \in Seq(Requests) /\ Len(t) = Len(u) + Len(v)
        /\ \A k \in 1..(Len(u) + Len(v)) : t[k] = IF k <= Len(u) THEN u[k] ELSE v[k - Len(u)]
    BY Zenon, <2>0, ConcatFacts
  <2> HIDE DEF t, n
  <2>3. Len(u) + Len(v) = n - 1
    BY <1>1, <1>2
  <2>4. DOMAIN t = 1..Len(t)
    BY <2>1
  <2> QED BY Zenon, <1>2, <2>1, <2>3, <2>4
<1>4. \A k \in 1..(n - 1) : f[k] = IF k <= n - i THEN i + k ELSE k - (n - i)
  OBVIOUS
<1>5. f \in [1..(n - 1) -> (1..n) \ {i}]
  BY <1>1
<1> HIDE DEF t, f, n
<1>6. \A k \in DOMAIN t : t[k] = q[f[k]]
  <2> SUFFICES ASSUME NEW k \in 1..(n - 1) PROVE t[k] = q[f[k]]
    BY <1>3
  <2>1. CASE k <= n - i
    <3>1. t[k] = u[k] /\ f[k] = i + k
      BY <1>3, <1>4, <2>1
    <3>2. k \in 1..(n - i)
      BY <1>1, <2>1
    <3> QED BY <1>2, <3>1, <3>2
  <2>2. CASE ~(k <= n - i)
    <3>1. t[k] = v[k - (n - i)] /\ f[k] = k - (n - i)
      BY <1>3, <1>4, <2>2
    <3>2. k - (n - i) \in 1..(i - 1)
      BY <1>1, <2>2
    <3> QED BY Zenon, <1>2, <3>1, <3>2
  <2> QED BY <2>1, <2>2
<1>7. \A j, k \in DOMAIN t : f[j] = f[k] => j = k
  <2> SUFFICES ASSUME NEW j \in 1..(n - 1), NEW k \in 1..(n - 1), f[j] = f[k] PROVE j = k
    BY <1>3
  <2>1. f[j] = (IF j <= n - i THEN i + j ELSE j - (n - i)) /\ f[k] = (IF k <= n - i THEN i + k ELSE k - (n - i))
    BY <1>4
  <2>2. n \in Nat /\ i \in 1..n
    BY <1>1
  <2> QED BY Zenon, <2>1, <2>2, TurnInjective
<1>8. ASSUME NEW j \in DOMAIN q, j # i PROVE \E k \in DOMAIN t : f[k] = j
  <2>1. CASE j > i
    <3>1. j - i \in 1..(n - 1) /\ f[j - i] = j
      BY <1>1, <1>4, <2>1
    <3> QED BY <1>3, <3>1
  <2>2. CASE j < i
    <3>1. j + (n - i) \in 1..(n - 1) /\ f[j + (n - i)] = j
      BY <1>1, <1>4, <2>2
    <3> QED BY Zenon, <1>3, <3>1
  <2> QED BY <1>1, <1>8, <2>1, <2>2
<1>9. Others(q, i, t, f)
  BY Zenon, <1>1, <1>3, <1>5, <1>6, <1>7, <1>8 DEF Others
<1>10. Take(q, i).rest = t /\ Take(q, i).req = q[i]
  BY Zenon DEF Take, t, u, v, n
<1>11. Len(t) <= Len(q)
  BY <1>1, <1>3 DEF n
<1> QED BY Zenon, <1>3, <1>9, <1>10, <1>11

\* A decided request leaves the queue, and its process runs on.
LEMMA ResumeKeeps ==
    ASSUME AuthInv, RunFrame, UNCHANGED <<tables, child>>, NEW i \in DOMAIN pending, NEW f,
           Others(pending, i, pending', f), pending' \in Seq(Requests), Len(pending') <= Len(pending),
           NEW s \in {"running", "waiting"}, procs' = [procs EXCEPT ![pending[i].pid] = s],
           EffectsWereAllowed'
    PROVE  AuthInv'
<1> DEFINE p == pending[i].pid
<1>1. pending \in Seq(Requests) /\ Len(pending) <= PendingRoom /\ procs \in [Pids -> ProcStates]
  BY DEF AuthInv, Types
<1>2. \A j \in DOMAIN pending : pending[j] \in Requests
  BY <1>1
<1>3. \A j \in DOMAIN pending : pending[j].pid \in Pids
  BY <1>2 DEF Requests
<1>4. p \in Pids /\ procs[p] = "blocked" /\ child[p] = NoCap
  BY <1>3 DEF AuthInv, Waiting, Deriving
<1>5. \A j \in DOMAIN pending : j # i => pending[j].pid # p
  BY DEF AuthInv, Waiting
<1> HIDE DEF p
<1>6. procs' \in [Pids -> ProcStates] /\ procs'[p] = s /\ \A q \in Pids : q # p => procs'[q] = procs[q]
  BY <1>1, <1>4 DEF ProcStates, p
<1>7. ProcsMove
  BY Zenon, <1>4, <1>6 DEF ProcsMove
<1>8. Waiting'
  <2> USE DEF Waiting
  <2>1. pending' # <<>> => con'.pc = "run"
    BY DEF RunFrame
  <2>2. \A q \in Pids : procs'[q] = "blocked" => \E k \in DOMAIN pending' : pending'[k].pid = q
    <3> SUFFICES ASSUME NEW q \in Pids, procs'[q] = "blocked"
                 PROVE  \E k \in DOMAIN pending' : pending'[k].pid = q
      OBVIOUS
    <3>1. q # p /\ procs[q] = "blocked"
      BY <1>6
    <3>2. PICK j \in DOMAIN pending : pending[j].pid = q
      BY <3>1 DEF AuthInv
    <3>3. j # i
      BY Zenon, <3>1, <3>2 DEF p
    <3> QED BY <3>2, <3>3 DEF Others
  <2>3. ASSUME NEW k \in DOMAIN pending'
        PROVE  /\ procs'[pending'[k].pid] = "blocked"
               /\ Backed(View(pending[k].pid, pending[k].cap))'
               /\ (IF pending'[k].action = "send" THEN "send" ELSE "execute") \in pending'[k].cap.perms
    <3>1. f[k] \in DOMAIN pending /\ f[k] # i /\ pending'[k] = pending[f[k]]
      BY DEF Others
    <3>2. pending'[k].pid # p /\ pending'[k].pid \in Pids
      BY Zenon, <1>3, <1>5, <3>1
    <3> QED BY <1>6, <3>1, <3>2 DEF AuthInv, Backed, RunFrame
  <2>4. ASSUME NEW j \in DOMAIN pending', NEW k \in DOMAIN pending', pending'[j].pid = pending'[k].pid
        PROVE  j = k
    <3>1. f[j] \in DOMAIN pending /\ f[k] \in DOMAIN pending
          /\ pending'[j] = pending[f[j]] /\ pending'[k] = pending[f[k]]
      BY DEF Others
    <3>2. f[j] = f[k]
      BY <2>4, <3>1 DEF AuthInv
    <3> QED BY <3>2 DEF Others
  <2> QED BY Zenon, <2>1, <2>2, <2>3, <2>4
<1>9. Len(pending') <= PendingRoom
  BY <1>1, AuthorityAssumption
<1> QED BY Zenon, <1>6, <1>7, <1>8, <1>9, RunStep

\* apply: what it does was approved, and the process runs on or waits for the tool.
LEMMA ApplyResumes ==
    ASSUME AuthInv, con.pc = "run", UNCHANGED <<con, policy, pinned, live, granted>>,
           NEW r \in Requests, Backed(View(r.pid, r.cap)),
           (IF r.action = "send" THEN "send" ELSE "execute") \in r.cap.perms,
           Apply(r, r.answer = "approve")
    PROVE  /\ EffectsWereAllowed'
           /\ \E s \in {"running", "waiting"} : procs' = [procs EXCEPT ![r.pid] = s]
<1>1. r.pid \in Pids /\ r.cap \in Cap /\ r.action \in {"send", "tool"}
  BY DEF Requests
<1>2. ASSUME effects' = effects PROVE EffectsWereAllowed'
  BY <1>2 DEF AuthInv, EffectsWereAllowed, EffectsWereGranted, UnattendedWasUngated
<1>3. CASE r.answer # "approve"
  <2>1. effects' = effects /\ procs' = [procs EXCEPT ![r.pid] = "running"]
    BY Zenon, <1>3 DEF Apply
  <2> QED BY <1>2, <2>1
<1>4. CASE r.answer = "approve" /\ r.action = "send"
  <2>1. procs' = [procs EXCEPT ![r.pid] = "running"] /\ PerformSend(r.pid, r.cap, TRUE)
    BY Zenon, <1>4 DEF Apply
  <2>2. effects' = effects \/ effects' = Did(r.pid, r.cap, "send", TRUE)
    BY Zenon, <2>1 DEF PerformSend
  <2>3. EffectsWereAllowed'
    BY Zenon, <1>1, <1>2, <1>4, <2>2, EffectAdded
  <2> QED BY <2>1, <2>3
<1>5. CASE r.answer = "approve" /\ r.action = "tool"
  <2>1. Dispatch(r.pid, r.cap, TRUE)
    BY Zenon, <1>5 DEF Apply
  <2>2. CASE effects' = effects /\ procs' = [procs EXCEPT ![r.pid] = "running"]
    BY <1>2, <2>2
  <2>3. CASE effects' = Did(r.pid, r.cap, "execute", TRUE) /\ procs' = [procs EXCEPT ![r.pid] = "waiting"]
    <3>1. EffectsWereAllowed'
      BY Zenon, <1>1, <1>5, <2>3, EffectAdded
    <3> QED BY Zenon, <2>3, <3>1
  <2> QED BY Zenon, <2>1, <2>2, <2>3 DEF Dispatch
<1> QED BY Zenon, <1>1, <1>3, <1>4, <1>5

\* What a queued request was checked for when it was queued.
LEMMA RequestFacts ==
    ASSUME AuthInv, NEW i \in DOMAIN pending
    PROVE  /\ pending \in Seq(Requests) /\ pending[i] \in Requests
           /\ Backed(View(pending[i].pid, pending[i].cap))
           /\ (IF pending[i].action = "send" THEN "send" ELSE "execute") \in pending[i].cap.perms
<1>1. pending \in Seq(Requests)
  BY DEF AuthInv, Types
<1> QED BY <1>1 DEF AuthInv, Waiting

\* A request answered by signature leaves the queue; its effect is the one the handle allowed.
LEMMA ResolveSignedKeeps ==
    ASSUME AuthInv, ResolveSigned
    PROVE  AuthInv'
<1> USE DEF ResolveSigned
<1>1. RunFrame
  BY DEF RunFrame, AuthInv, Types
<1>2. PICK i \in DOMAIN pending :
         /\ pending' = Take(pending, i).rest
         /\ Apply(Take(pending, i).req, pending[i].answer = "approve")
  OBVIOUS
<1>3. pending \in Seq(Requests)
  BY Zenon DEF AuthInv, Types
<1>4. /\ pending' \in Seq(Requests) /\ Len(pending') <= Len(pending) /\ Take(pending, i).req = pending[i]
      /\ \E f : Others(pending, i, pending', f)
  BY Zenon, <1>2, <1>3, TakeIsOthers
<1>5. Apply(pending[i], pending[i].answer = "approve")
  BY Zenon, <1>2, <1>4
<1>6. EffectsWereAllowed' /\ \E s \in {"running", "waiting"} : procs' = [procs EXCEPT ![pending[i].pid] = s]
  BY Zenon, <1>5, RequestFacts, ApplyResumes
<1>7. PICK f : Others(pending, i, pending', f)
  BY Zenon, <1>4
<1>8. PICK s \in {"running", "waiting"} : procs' = [procs EXCEPT ![pending[i].pid] = s]
  BY Zenon, <1>6
<1> QED BY Zenon, <1>1, <1>4, <1>6, <1>7, <1>8, ResumeKeeps

\* The same for a request answered at the console.
LEMMA ResolveConsoleKeeps ==
    ASSUME AuthInv, NEW answer \in {"approve", "deny"}, ResolveConsole(answer)
    PROVE  AuthInv'
<1> USE DEF ResolveConsole
<1> DEFINE r == [pending[1] EXCEPT !.answer = answer]
<1>1. RunFrame
  BY DEF RunFrame, AuthInv, Types
<1>2. pending \in Seq(Requests)
  BY DEF AuthInv, Types
<1>3. /\ pending' \in Seq(Requests) /\ Len(pending') <= Len(pending)
      /\ 1 \in DOMAIN pending /\ Head(pending) = pending[1]
      /\ \E f : Others(pending, 1, pending', f)
  BY <1>2, TailIsOthers
<1>4. pending[1] \in Requests
  BY <1>2, <1>3
<1>5. /\ r \in Requests /\ r.answer = answer /\ r.pid = pending[1].pid
      /\ r.cap = pending[1].cap /\ r.action = pending[1].action
  BY <1>4 DEF Requests
<1>6. Apply(r, answer = "approve")
  BY <1>3
<1> HIDE DEF r
<1>7. Backed(View(r.pid, r.cap)) /\ (IF r.action = "send" THEN "send" ELSE "execute") \in r.cap.perms
  BY Zenon, <1>3, <1>5, RequestFacts
<1>8. EffectsWereAllowed' /\ \E s \in {"running", "waiting"} : procs' = [procs EXCEPT ![r.pid] = s]
  BY Zenon, <1>5, <1>6, <1>7, ApplyResumes
<1>9. PICK f : Others(pending, 1, pending', f)
  BY <1>3
<1>10. PICK s \in {"running", "waiting"} : procs' = [procs EXCEPT ![pending[1].pid] = s]
  BY Zenon, <1>5, <1>8
<1> QED BY Zenon, <1>1, <1>3, <1>8, <1>9, <1>10, ResumeKeeps

-----------------------------------------------------------------------------
(* The calls. *)

\* A running process's handle.
LEMMA HandleFacts ==
    ASSUME AuthInv, NEW p \in Pids, NEW h \in Slots, tables[p][h] # NoCap
    PROVE  tables[p][h] \in Cap /\ Backed(View(p, tables[p][h])) /\ View(p, tables[p][h]) \in Grants(tables)
<1>1. tables \in [Pids -> Handles]
  BY DEF AuthInv, Types, Handles
<1>2. tables[p][h] \in Cap
  BY Zenon, <1>1 DEF Handles
<1> QED BY Zenon, <1>2, GrantsMember DEF AuthInv, Held

\* A step that does nothing outside leaves the effects allowed.
LEMMA SameEffects ==
    ASSUME AuthInv, UNCHANGED <<con, policy, pinned, live, granted, effects>>
    PROVE  EffectsWereAllowed'
BY Zenon DEF AuthInv, EffectsWereAllowed, EffectsWereGranted, UnattendedWasUngated

\* A step of a run that asks nothing.
LEMMA NoRequestStep ==
    ASSUME AuthInv, RunFrame, UNCHANGED <<tables, child, pending>>, EffectsWereAllowed',
           procs' \in [Pids -> ProcStates], ProcsMove,
           \A p \in Pids : procs'[p] = "blocked" <=> procs[p] = "blocked"
    PROVE  AuthInv'
<1>1. Waiting'
  BY WaitingFrame DEF AuthInv, Grows, RunFrame
<1> QED BY Zenon, <1>1, RunStep DEF AuthInv, Types

\* A process of the run goes on to s.
LEMMA MoveFacts ==
    ASSUME AuthInv, NEW p \in Pids, procs[p] \in {"running", "waiting"}, child[p] = NoCap,
           NEW s \in {"running", "waiting", "exited"}, procs' = [procs EXCEPT ![p] = s]
    PROVE  /\ procs' \in [Pids -> ProcStates] /\ ProcsMove
           /\ \A q \in Pids : procs'[q] = "blocked" <=> procs[q] = "blocked"
<1>1. procs \in [Pids -> ProcStates]
  BY DEF AuthInv, Types
<1>2. procs' \in [Pids -> ProcStates] /\ procs'[p] = s /\ \A q \in Pids : q # p => procs'[q] = procs[q]
  BY Zenon, <1>1 DEF ProcStates
<1> QED BY Zenon, <1>2 DEF ProcsMove

\* send, at once or through the approval queue.
LEMMA SendKeeps ==
    ASSUME AuthInv, NEW p \in Pids, NEW h \in Slots, Send(p, h)
    PROVE  AuthInv'
<1> USE DEF Send
<1> DEFINE c == tables[p][h]
<1>1. con.pc = "run" /\ IsOffice(sc') /\ procs[p] = "running" /\ child[p] = NoCap /\ RunFrame
  BY Zenon, CallIsInRun DEF RunFrame
<1>2. c \in Cap /\ Backed(View(p, c)) /\ View(p, c) \in Grants(tables)
  BY Zenon, HandleFacts
<1>3. ASSUME UNCHANGED <<procs, pending>>, EffectsWereAllowed' PROVE AuthInv'
  <2>1. procs' \in [Pids -> ProcStates] /\ ProcsMove
    BY Zenon, <1>3 DEF AuthInv, Types, ProcsMove
  <2> QED BY Zenon, <1>1, <1>3, <2>1, NoRequestStep
<1>4. CASE ~Gated(c)
  <2>1. UNCHANGED <<procs, pending>> /\ PerformSend(p, c, FALSE)
    BY Zenon, <1>4
  <2>2. effects' = effects \/ ("send" \in c.perms /\ effects' = Did(p, c, "send", FALSE))
    BY Zenon, <2>1 DEF PerformSend, Sends
  <2> HIDE DEF c
  <2>3. EffectsWereAllowed'
    BY Zenon, <1>1, <1>2, <1>4, <2>2, EffectAdded, SameEffects DEF Gated, RunFrame
  <2> QED BY Zenon, <1>3, <2>1, <2>3
<1>5. CASE Gated(c)
  <2>1. effects' = effects /\ EffectsWereAllowed'
    BY Zenon, <1>1, <1>5, SameEffects DEF RunFrame
  <2>2. CASE "send" \in c.perms
    <3>1. Enqueue(p, c, "send")
      BY Zenon, <1>5, <2>2
    <3>2. /\ pending' \in Seq(Requests) /\ Len(pending') <= PendingRoom /\ Waiting'
          /\ procs' \in [Pids -> ProcStates]
          /\ \A q \in Pids : procs'[q] # procs[q] => q = p /\ procs'[q] = "blocked"
      <4> HIDE DEF c
      <4> QED BY Zenon, <1>1, <1>2, <2>2, <3>1, EnqueueWaits DEF RunFrame
    <3>3. ProcsMove
      BY Zenon, <1>1, <3>2 DEF ProcsMove
    <3> QED BY Zenon, <1>1, <2>1, <3>2, <3>3, RunStep
  <2>3. CASE "send" \notin c.perms
    BY Zenon, <1>3, <1>5, <2>1, <2>3
  <2> QED BY Zenon, <2>2, <2>3
<1> QED BY Zenon, <1>4, <1>5

\* recv takes a message and changes no authority.
LEMMA RecvKeeps ==
    ASSUME AuthInv, NEW p \in Pids, NEW h \in Slots, Recv(p, h)
    PROVE  AuthInv'
<1>1. RunFrame
  BY Zenon, CallIsInRun DEF Recv, RunFrame
<1>2. EffectsWereAllowed'
  BY Zenon, SameEffects DEF Recv
<1>3. procs' \in [Pids -> ProcStates] /\ ProcsMove
  BY Zenon DEF Recv, AuthInv, Types, ProcsMove
<1> QED BY Zenon, <1>1, <1>2, <1>3, NoRequestStep DEF Recv

\* A tool call, at once or through the approval queue.
LEMMA ToolCallKeeps ==
    ASSUME AuthInv, NEW p \in Pids, NEW h \in Slots, ToolCall(p, h)
    PROVE  AuthInv'
<1> USE DEF ToolCall
<1> DEFINE c == tables[p][h]
<1>1. con.pc = "run" /\ IsOffice(sc') /\ procs[p] = "running" /\ child[p] = NoCap /\ RunFrame
  BY Zenon, CallIsInRun DEF RunFrame
<1>2. c \in Cap /\ Backed(View(p, c)) /\ View(p, c) \in Grants(tables) /\ "execute" \in c.perms
  BY Zenon, HandleFacts
<1>3. CASE ~Gated(c)
  <2>1. pending' = pending /\ Dispatch(p, c, FALSE)
    BY Zenon, <1>3
  <2>2. \/ effects' = Did(p, c, "execute", FALSE) /\ procs' = [procs EXCEPT ![p] = "waiting"]
        \/ effects' = effects /\ procs' = [procs EXCEPT ![p] = "running"]
    BY Zenon, <2>1 DEF Dispatch
  <2> HIDE DEF c
  <2>3. EffectsWereAllowed'
    BY Zenon, <1>1, <1>2, <1>3, <2>2, EffectAdded, SameEffects DEF Gated, RunFrame
  <2>4. /\ procs' \in [Pids -> ProcStates] /\ ProcsMove
        /\ \A q \in Pids : procs'[q] = "blocked" <=> procs[q] = "blocked"
    BY Zenon, <1>1, <2>2, MoveFacts
  <2> QED BY Zenon, <1>1, <2>1, <2>3, <2>4, NoRequestStep
<1>4. CASE Gated(c)
  <2>1. effects' = effects /\ Enqueue(p, c, "tool")
    BY Zenon, <1>4
  <2>2. EffectsWereAllowed'
    BY Zenon, <1>1, <2>1, SameEffects DEF RunFrame
  <2>3. /\ pending' \in Seq(Requests) /\ Len(pending') <= PendingRoom /\ Waiting'
        /\ procs' \in [Pids -> ProcStates]
        /\ \A q \in Pids : procs'[q] # procs[q] => q = p /\ procs'[q] = "blocked"
    <3> HIDE DEF c
    <3> QED BY Zenon, <1>1, <1>2, <2>1, EnqueueWaits DEF RunFrame
  <2>4. ProcsMove
    BY Zenon, <1>1, <2>3 DEF ProcsMove
  <2> QED BY Zenon, <1>1, <2>2, <2>3, <2>4, RunStep
<1> QED BY Zenon, <1>3, <1>4

\* The result of a tool call, or its time-out, resumes the caller.
LEMMA ToolReturnsKeeps ==
    ASSUME AuthInv, NEW p \in Pids, ToolReturns(p)
    PROVE  AuthInv'
<1> USE DEF ToolReturns
<1>1. con.pc = "run" /\ child[p] = NoCap
  BY Zenon DEF AuthInv, Unstarted, Deriving
<1>2. RunFrame /\ EffectsWereAllowed'
  BY Zenon, <1>1, SameEffects DEF RunFrame, AuthInv, Types
<1>3. /\ procs' \in [Pids -> ProcStates] /\ ProcsMove
      /\ \A q \in Pids : procs'[q] = "blocked" <=> procs[q] = "blocked"
  BY Zenon, <1>1, MoveFacts
<1> QED BY Zenon, <1>2, <1>3, NoRequestStep

\* A process that exits keeps its table until it is reaped, and counts no longer.
LEMMA ExitKeeps ==
    ASSUME AuthInv, NEW p \in Pids, Exit(p)
    PROVE  AuthInv'
<1> USE DEF Exit
<1>1. RunFrame /\ EffectsWereAllowed'
  BY SameEffects DEF RunFrame, AuthInv, Types
<1>2. /\ procs' \in [Pids -> ProcStates] /\ ProcsMove
      /\ \A q \in Pids : procs'[q] = "blocked" <=> procs[q] = "blocked"
  BY Zenon, MoveFacts
<1>3. UNCHANGED <<tables, child, pending>>
  BY Zenon
<1> HIDE DEF Exit
<1> QED BY Zenon, <1>1, <1>2, <1>3, NoRequestStep

\* A signature is noted on the request it answers.
LEMMA SignKeeps ==
    ASSUME AuthInv, NEW i, NEW answer \in {"approve", "deny"}, Sign(i, answer)
    PROVE  AuthInv'
<1> USE DEF Sign
<1> DEFINE r == [pending[i] EXCEPT !.answer = answer]
<1>1. RunFrame /\ EffectsWereAllowed'
  BY Zenon, SameEffects DEF RunFrame, AuthInv, Types
<1>2. pending \in Seq(Requests) /\ Len(pending) <= PendingRoom
  BY DEF AuthInv, Types
<1>3. pending' = [pending EXCEPT ![i] = r] /\ pending[i] \in Requests
  BY <1>2
<1>4. r \in Requests /\ r.pid = pending[i].pid /\ r.cap = pending[i].cap /\ r.action = pending[i].action
  BY <1>3 DEF Requests
<1> HIDE DEF r
<1>5. /\ pending' \in Seq(Requests) /\ Len(pending') = Len(pending) /\ DOMAIN pending' = DOMAIN pending
      /\ pending'[i] = r /\ \A j \in DOMAIN pending : j # i => pending'[j] = pending[j]
  BY <1>2, <1>3, <1>4
<1>6. \A j \in DOMAIN pending : /\ pending'[j].pid = pending[j].pid /\ pending'[j].cap = pending[j].cap
                                /\ pending'[j].action = pending[j].action
  BY Zenon, <1>4, <1>5
<1>7. Waiting'
  <2>1. Waiting /\ procs' = procs /\ granted' = granted /\ con' = con
    BY Zenon, <1>1 DEF AuthInv, RunFrame
  <2>2. DOMAIN pending' = DOMAIN pending /\ (pending' # <<>> => pending # <<>>)
    BY <1>2, <1>5
  <2> HIDE DEF Sign
  <2>3. ASSUME NEW q \in Pids, procs'[q] = "blocked" PROVE \E j \in DOMAIN pending' : pending'[j].pid = q
    <3>1. procs[q] = "blocked"
      BY Zenon, <2>1, <2>3
    <3>2. PICK j \in DOMAIN pending : pending[j].pid = q
      BY Zenon, <2>1, <3>1 DEF Waiting
    <3> QED BY Zenon, <1>6, <2>2, <3>2
  <2>4. ASSUME NEW j \in DOMAIN pending'
        PROVE  /\ procs'[pending'[j].pid] = "blocked"
               /\ Backed(View(pending[j].pid, pending[j].cap))'
               /\ (IF pending'[j].action = "send" THEN "send" ELSE "execute") \in pending'[j].cap.perms
    BY Zenon, <1>6, <2>1, <2>2, <2>4 DEF Waiting, Backed
  <2>5. \A j, k \in DOMAIN pending' : pending'[j].pid = pending'[k].pid => j = k
    BY Zenon, <1>6, <2>1, <2>2 DEF Waiting
  <2> QED BY Zenon, <2>1, <2>2, <2>3, <2>4, <2>5 DEF Waiting
<1>8. procs' \in [Pids -> ProcStates] /\ ProcsMove
  BY DEF AuthInv, Types, ProcsMove
<1> QED BY Zenon, <1>1, <1>2, <1>5, <1>7, <1>8, RunStep

-----------------------------------------------------------------------------
(* The theorems. *)

\* A step of anything else keeps the invariant.
LEMMA StutterKeeps ==
    ASSUME AuthInv, UNCHANGED authVars
    PROVE  AuthInv'
<1> USE DEF authVars
<1>1. Todo' = Todo /\ Active' = Active /\ Grants(tables)' = Grants(tables)
  BY Zenon DEF Todo, Active
<1>2. Types' /\ Held'
  <2>1. Types'
    BY Zenon DEF AuthInv, Types
  <2>2. Grows /\ TablesStay
    BY Zenon DEF Grows, TablesStay, HasTable
  <2> QED BY Zenon, <2>1, <2>2, HeldFrame DEF AuthInv
<1>3. Deriving' /\ Waiting' /\ Unstarted'
  BY Zenon DEF AuthInv, Deriving, Waiting, Unstarted, Backed
<1>4. Applying' /\ RulesKept'
  BY Zenon, <1>1 DEF AuthInv, Applying, RulesKept, HasTable, Shown
<1>5. EffectsWereAllowed'
  BY Zenon, SameEffects
<1> QED BY Zenon, <1>2, <1>3, <1>4, <1>5 DEF AuthInv

\* Every console command keeps the invariant.
LEMMA ConsoleKeeps ==
    ASSUME AuthInv, NEW answer \in BOOLEAN, Console(answer)
    PROVE  AuthInv'
<1>1. ASSUME NEW p \in Pids, NEW g \in {<<>>} \cup {<<x>> : x \in GrantsTo(p)}, NEW run \in BOOLEAN,
             CmdSpawn(p, g, run)
      PROVE  AuthInv'
  <2>1. GrantsTo(p) \subseteq Grant
    BY GrantsToAreGrants DEF AuthInv, Types
  <2>2. g \in Seq(Grant)
    <3>1. CASE g = <<>>
      BY <3>1
    <3>2. ASSUME NEW x \in GrantsTo(p), g = <<x>> PROVE g \in Seq(Grant)
      <4>1. x \in Grant
        BY <2>1
      <4> QED BY <3>2, <4>1
    <3> QED BY <3>1, <3>2
  <2> QED BY Zenon, <1>1, <2>2, SpawnKeeps
<1>2. ASSUME NEW p \in Pids, NEW g \in GrantsTo(p), CmdGrant(g, answer) PROVE AuthInv'
  BY <1>2, CmdGrantKeeps
<1>3. CASE SpawnGrant(answer)
  BY <1>3, SpawnGrantKeeps
<1>4. CASE ApplyGrant
  BY Zenon, <1>4, FreeHasLowest, ApplyGrantKeeps
<1>5. CASE CommandEnds
  BY Zenon, <1>5, CommandEndsKeeps
<1>6. CASE RunScheduled
  BY <1>6, RunKeeps
<1>7. CASE RunEnds
  BY <1>7, RunEndsKeeps
<1>8. ASSUME NEW p \in Pids, CmdReap(p) PROVE AuthInv'
  BY <1>8, ReapKeeps
<1>9. ASSUME NEW o \in Objects, DeleteObject(o) PROVE AuthInv'
  BY <1>9, DeleteKeeps
<1>10. CASE PolicyBegin \/ PolicyAbort
  BY Zenon, <1>10, BatchKeeps
<1>11. CASE PolicyCommit(answer)
  BY <1>11, CommitKeeps
<1>12. ASSUME NEW e \in sc.edits, PolicyEdit(e, answer) PROVE AuthInv'
  BY <1>12, EditKeeps
<1>13. CASE (\E on \in BOOLEAN : SetReview(on)) \/ LinkSecure
  BY <1>13, SettingsKeep
<1>14. ASSUME NEW listing \in sc.listings, ReviewListing(listing, answer) PROVE AuthInv'
  <2>1. \A k \in DOMAIN listing : listing[k] \subseteq Flags
    BY Zenon DEF AuthInv, Types, IsOffice
  <2> QED BY Zenon, <1>14, <2>1, ListingKeeps
<1> QED BY Zenon, <1>1, <1>2, <1>3, <1>4, <1>5, <1>6, <1>7, <1>8, <1>9, <1>10, <1>11, <1>12, <1>13, <1>14
       DEF Console

\* Every system call of an agent keeps the invariant.
LEMMA AgentKeeps ==
    ASSUME AuthInv, NEW p \in Pids, Agent(p)
    PROVE  AuthInv'
<1>1. ASSUME NEW h \in Slots, NEW mask \in sc.masks, CapDerive(p, h, mask) PROVE AuthInv'
  BY <1>1, DeriveKeeps
<1>2. CASE CapDeriveInsert(p)
  BY Zenon, <1>2, FreeHasLowest, InsertKeeps
<1>3. ASSUME NEW h \in Slots, CapDrop(p, h) \/ Send(p, h) \/ Recv(p, h) \/ ToolCall(p, h) PROVE AuthInv'
  BY Zenon, <1>3, DropKeeps, SendKeeps, RecvKeeps, ToolCallKeeps
<1>4. CASE ToolReturns(p)
  BY <1>4, ToolReturnsKeeps
<1>5. CASE Exit(p)
  BY <1>5, ExitKeeps
<1> QED BY Zenon, <1>1, <1>2, <1>3, <1>4, <1>5 DEF Agent

\* Every step keeps the invariant.
LEMMA NextKeeps ==
    ASSUME AuthInv, [AuthNext]_authVars
    PROVE  AuthInv'
<1>1. ASSUME NEW answer \in BOOLEAN, Console(answer) PROVE AuthInv'
  BY <1>1, ConsoleKeeps
<1>2. ASSUME NEW p \in Pids, Agent(p) PROVE AuthInv'
  BY <1>2, AgentKeeps
<1>3. CASE ResolveSigned
  BY <1>3, ResolveSignedKeeps
<1>4. ASSUME NEW answer \in {"approve", "deny"}, ResolveConsole(answer) PROVE AuthInv'
  BY <1>4, ResolveConsoleKeeps
<1>5. ASSUME NEW answer \in {"approve", "deny"}, NEW i \in 1..PendingRoom, Sign(i, answer) PROVE AuthInv'
  BY <1>5, SignKeeps
<1>6. CASE UNCHANGED authVars
  BY <1>6, StutterKeeps
<1> QED BY Zenon, <1>1, <1>2, <1>3, <1>4, <1>5, <1>6 DEF AuthNext

\* The invariant of handles, requests, review and effects, which the theorems
\* below rest on: every command of the console (console.rs, policy.rs) and every
\* call of an agent (agent.rs) keeps it, whatever the policy and however the
\* agents' calls interleave.
THEOREM AuthInvariant == AuthSpec => []AuthInv
<1>1. AuthInit => AuthInv
  BY InitEstablishes
<1>2. AuthInv /\ [AuthNext]_authVars => AuthInv'
  BY NextKeeps
<1> QED BY <1>1, <1>2, PTL DEF AuthSpec

\* Under a policy whose labels fit in what labels_of keeps, no handle of any agent
\* breaks a rule at any time (policy.rs, violations): what review_grants,
\* policy_edit and review_listing let through is clean as a whole, and
\* sys_cap_derive, which nobody reviews, cannot undo that.
THEOREM RulesAlwaysHold == AuthSpec => []RulesHold
<1>1. AuthInv => RulesHold
  <2> SUFFICES ASSUME AuthInv, LabelsFit(policy), NEW g \in Grants(tables), NEW r \in policy.rules,
                      g.mask # {}, r.a \in AllLabels(policy, pinned, live, g.obj)
               PROVE  /\ r.rule # "deny"
                      /\ r.rule = "approval" => Gate \in g.mask \/ g.mask \cap Effect = {}
                      /\ r.rule = "separate" =>
                            \A h \in Grants(tables) : h.pid = g.pid /\ h.mask # {} =>
                                r.b \notin AllLabels(policy, pinned, live, h.obj)
    BY Zenon DEF RulesHold, EveryRuleHolds
  <2>1. live \in SUBSET Objects /\ \A k \in DOMAIN pinned : pinned[k] \subseteq Flags
    BY Zenon DEF AuthInv, Types
  <2>2. \A h \in Grants(tables) : LabelsOf(policy, pinned, live, h.obj) = AllLabels(policy, pinned, live, h.obj)
    <3> SUFFICES ASSUME NEW h \in Grants(tables)
                 PROVE  LabelsOf(policy, pinned, live, h.obj) = AllLabels(policy, pinned, live, h.obj)
      BY Zenon
    <3>1. h.obj \in Objects
      BY Zenon, HandleNamesMade DEF AuthInv, Types
    <3> QED BY Zenon, <2>1, <3>1, WholeLabels
  <2>3. Clean(policy, pinned, live, Grants(tables), {})
    BY Zenon, RulesHoldNow, CleanIffNone
  <2>4. \A h \in Grants(tables) : Counts(h, {}) <=> h.mask # {}
    BY Zenon DEF Counts
  <2>5. /\ r.rule = "deny" => r.a \notin AllLabels(policy, pinned, live, g.obj)
        /\ r.rule = "approval" /\ Unattended(g) => r.a \notin AllLabels(policy, pinned, live, g.obj)
        /\ r.rule \notin {"deny", "approval"} =>
              \A h \in Grants(tables) : h.mask # {} /\ h.pid = g.pid =>
                  ~(r.a \in AllLabels(policy, pinned, live, g.obj) /\ r.b \in AllLabels(policy, pinned, live, h.obj))
    BY Zenon, <2>2, <2>3, <2>4 DEF Clean
  <2>6. "separate" \notin {"deny", "approval"}
    OBVIOUS
  <2> QED BY Zenon, <2>5, <2>6 DEF Unattended
<1> QED BY <1>1, AuthInvariant, PTL

\* Every permission a handle gives on an object was in a reach diff that was
\* applied, and on every object on which an agent can act without a human a line
\* of such a diff said that it can (policy.rs, diff).
THEOREM ReachAlwaysShown == AuthSpec => []ReachWasShown
<1>1. AuthInv => ReachWasShown
  <2> SUFFICES ASSUME AuthInv, NEW g \in Grants(tables)
               PROVE  /\ \A x \in g.mask \ {Gate} : \E c \in reach : c.pid = g.pid /\ c.obj = g.obj /\ x \in c.perms
                      /\ Ungated({g}, g.pid, g.obj) => \E c \in reach : c.pid = g.pid /\ c.obj = g.obj /\ ~c.gated
    BY DEF ReachWasShown
  <2>1. Shown(g)
    BY GrantsMember DEF AuthInv, Held
  <2>2. Ungated({g}, g.pid, g.obj) => Unattended(g)
    BY Zenon DEF Ungated, Unattended
  <2> QED BY Zenon, <2>1, <2>2 DEF Shown
<1> QED BY <1>1, AuthInvariant, PTL

\* What an agent did it was granted, and what it did without a human it was
\* granted without the approval constraint, on an object no approval rule covers
\* if the policy's labels fit (agent.rs, sys_send_outcome, sys_tool_call,
\* resolve_signed, resolve_with).
THEOREM EffectsAlwaysAllowed == AuthSpec => []EffectsWereAllowed
<1>1. AuthInv => EffectsWereAllowed
  BY Zenon DEF AuthInv
<1> QED BY <1>1, AuthInvariant, PTL

\* The types follow from the invariant.
LEMMA HandleTypes ==
    ASSUME AuthInv
    PROVE  AuthTypeOK
<1>1. \A p \in Pids : \A h \in Slots :
        tables[p][h] # NoCap => tables[p][h] \in Cap /\ Verify(tables[p][h]) /\ HasTable(p)
  BY Zenon, HandleFacts DEF AuthInv, Held
<1>2. \A p \in Pids : child[p] # NoCap => child[p] \in Cap /\ procs[p] = "running"
  BY DEF AuthInv, Types, Deriving
<1>3. \A p \in Pids : procs[p] = "blocked" <=> \E i \in DOMAIN pending : pending[i].pid = p
  BY DEF AuthInv, Waiting
<1>4. con.pc \in {"idle", "grant", "apply", "done", "run"}
  BY DEF AuthInv, Types
<1>5. con.pc # "run" => pending = <<>> /\ \A p \in Pids : child[p] = NoCap
  BY Zenon, OutsideRun
<1>6. con.pc = "apply" <=> con.todo # <<>> /\ con.pc # "grant"
  BY Zenon, <1>4 DEF AuthInv, Types
<1>7. /\ confirmed \subseteq DOMAIN pinned /\ live \subseteq made /\ made \subseteq Objects
      /\ Len(staged.grants) <= BatchRoom /\ Len(pending) <= PendingRoom
  BY DEF AuthInv, Types
<1> QED BY Zenon, <1>1, <1>2, <1>3, <1>4, <1>5, <1>6, <1>7 DEF AuthTypeOK

\* Under the invariant every handle held narrows a grant that was made.
LEMMA HandlesWereGranted ==
    ASSUME AuthInv
    PROVE  HeldWasGranted
<1> SUFFICES ASSUME NEW g \in Grants(tables)
             PROVE  \E a \in granted :
                        /\ a.pid = g.pid /\ a.obj = g.obj
                        /\ g.mask \ {Gate} \subseteq a.mask /\ (Gate \in a.mask => Gate \in g.mask)
  BY DEF HeldWasGranted
<1>1. Backed(g)
  BY GrantsMember DEF AuthInv, Held
<1> QED BY <1>1 DEF Backed, Narrower

\* What a step may do to a handle.
HandleStands == \A p \in Pids : \A h \in Slots : tables[p][h] # NoCap => tables'[p][h] \in {tables[p][h], NoCap}

\* insert takes a free slot and changes no other.
LEMMA InsertStands ==
    ASSUME AuthInv, NEW p \in Pids, NEW c \in Cap,
           tables' = IF Free(tables[p]) = {} THEN tables ELSE [tables EXCEPT ![p] = InsertCap(tables[p], c)]
    PROVE  HandleStands
<1>1. tables \in [Pids -> Handles] /\ tables[p] \in Handles
  BY DEF AuthInv, Types, Handles
<1>2. CASE Free(tables[p]) = {}
  BY <1>2 DEF HandleStands
<1>3. CASE Free(tables[p]) # {}
  <2>1. Inserted(tables[p], c, InsertCap(tables[p], c))
    BY Zenon, <1>1, <1>3, FreeHasLowest, InsertIntoFree
  <2>2. tables' = [tables EXCEPT ![p] = InsertCap(tables[p], c)]
    BY <1>3
  <2> QED BY Zenon, <1>1, <2>1, <2>2 DEF Inserted, HandleStands
<1> QED BY Zenon, <1>2, <1>3

\* No step changes a handle in place.
LEMMA StepStands ==
    ASSUME AuthInv, [AuthNext]_authVars
    PROVE  HandleStands
<1>1. ASSUME tables' = tables PROVE HandleStands
  BY <1>1 DEF HandleStands
<1>2. ASSUME NEW p \in Pids, tables' = [tables EXCEPT ![p] = EmptyTable] PROVE HandleStands
  <2>1. tables \in [Pids -> Handles]
    BY DEF AuthInv, Types, Handles
  <2> QED BY Zenon, <1>2, <2>1 DEF HandleStands, EmptyTable, Handles
<1>3. CASE ApplyGrant
  <2> DEFINE g == Head(con.todo)
             c == Issue([obj |-> g.obj, perms |-> g.mask, proof |-> NoProof])
  <2>1. con.todo \in Seq(Grant) /\ con.todo # <<>>
    BY <1>3 DEF ApplyGrant, AuthInv, Types
  <2>2. g \in Grant
    BY <2>1
  <2>3. [obj |-> g.obj, perms |-> g.mask, proof |-> NoProof] \in Cap /\ g.pid \in Pids
    BY Zenon, <2>2 DEF Grant, Cap
  <2>4. c \in Cap
    BY <2>3, IssueVerifies
  <2>5. tables' = IF Free(tables[g.pid]) = {} THEN tables
                  ELSE [tables EXCEPT ![g.pid] = InsertCap(tables[g.pid], c)]
    BY <1>3 DEF ApplyGrant
  <2> HIDE DEF g, c
  <2> QED BY Zenon, <2>3, <2>4, <2>5, InsertStands
<1>4. ASSUME NEW p \in Pids, CapDeriveInsert(p) PROVE HandleStands
  <2>1. child[p] \in Cap
    BY <1>4 DEF CapDeriveInsert, AuthInv, Types
  <2>2. Issue(child[p]) \in Cap
    BY Zenon, <2>1, IssueVerifies
  <2>3. tables \in [Pids -> Handles]
    BY DEF AuthInv, Types, Handles
  <2>4. tables' = IF Free(tables[p]) = {} THEN tables
                  ELSE [tables EXCEPT ![p] = InsertCap(tables[p], Issue(child[p]))]
    BY Zenon, <1>4, <2>3 DEF CapDeriveInsert
  <2> QED BY Zenon, <2>2, <2>4, InsertStands
<1>5. ASSUME NEW p \in Pids, NEW h \in Slots, CapDrop(p, h) PROVE HandleStands
  <2>1. tables \in [Pids -> Handles]
    BY Zenon DEF AuthInv, Types, Handles
  <2> QED BY Zenon, <1>5, <2>1 DEF CapDrop, HandleStands, Handles
<1>6. ASSUME NEW p \in Pids, Agent(p) PROVE HandleStands
  BY Zenon, <1>1, <1>4, <1>5, <1>6 DEF Agent, CapDerive, Send, Recv, ToolCall, ToolReturns, Exit
<1>7. ASSUME NEW answer \in BOOLEAN, Console(answer) PROVE HandleStands
  BY Zenon, <1>1, <1>2, <1>3, <1>7 DEF Console, CmdSpawn, CmdGrant, SpawnGrant, CommandEnds, RunScheduled, RunEnds,
     CmdReap, DeleteObject, PolicyBegin, PolicyAbort, PolicyCommit, PolicyEdit, SetReview, LinkSecure, ReviewListing
<1>8. ASSUME NEW answer, ResolveSigned \/ ResolveConsole(answer) \/ \E i \in 1..PendingRoom : Sign(i, answer)
      PROVE  HandleStands
  BY <1>1, <1>8 DEF ResolveSigned, ResolveConsole, Sign
<1>9. CASE UNCHANGED authVars
  BY <1>1, <1>9 DEF authVars
<1> QED BY Zenon, <1>6, <1>7, <1>8, <1>9 DEF AuthNext

\* A handle names one token, signed as it stands, from its grant or derivation to
\* its drop or its process's reaping, and that token gives no more than a grant
\* that passed review (agent.rs, HandleTable).
THEOREM HandlesAlwaysSound == AuthSpec => HandlesSound
<1>1. AuthInv => AuthTypeOK /\ HeldWasGranted
  BY Zenon, HandleTypes, HandlesWereGranted
<1>2. AuthInv /\ [AuthNext]_authVars
      => [\A p \in Pids : \A h \in Slots :
            tables[p][h] # NoCap => tables'[p][h] \in {tables[p][h], NoCap}]_authVars
  BY Zenon, StepStands DEF HandleStands
<1> QED BY <1>1, <1>2, AuthInvariant, PTL DEF AuthSpec, HandlesSound, HandlesStand
=============================================================================
