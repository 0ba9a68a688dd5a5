---------------------------- MODULE Authority_inv ----------------------------
(****************************************************************************)
(* The inductive invariant behind what agents may reach, for any number of  *)
(* processes, handles, objects and requests, any policy and any sequence of *)
(* commands and calls; that a review, the commands of the console and the   *)
(* handle operations of a process keep it.                                  *)
(****************************************************************************)
EXTENDS Authority, TLAPS

Grant == [pid : Pids, obj : Objects, mask : (SUBSET Permission) \ {{}}]
Requests == [pid : Pids, cap : Cap, action : {"send", "tool"}, answer : {"none", "approve", "deny"}]

\* A handle as policy sees it.
View(p, c) == [pid |-> p, obj |-> c.obj, mask |-> c.perms]

\* g gives nothing d does not, and keeps the approval constraint of d.
Narrower(g, d) ==
    /\ g.pid = d.pid /\ g.obj = d.obj
    /\ g.mask \ {Gate} \subseteq d.mask /\ (Gate \in d.mask => Gate \in g.mask)

Backed(g) == \E a \in granted : Narrower(g, a)

Unattended(g) == Gate \notin g.mask /\ g.mask \cap Effect # {}

Shown(g) ==
    /\ \A x \in g.mask \ {Gate} : \E c \in reach : c.pid = g.pid /\ c.obj = g.obj /\ x \in c.perms
    /\ Unattended(g) => \E c \in reach : c.pid = g.pid /\ c.obj = g.obj /\ ~c.gated

\* The grants a command is about to apply.
Todo == IF con.pc = "apply" THEN {con.todo[i] : i \in DOMAIN con.todo} ELSE {}

\* A handle without permissions counts for no rule, but what is derived from it
\* may: the handles of the processes E count all the same.
Counts(g, E) == g.mask # {} \/ g.pid \in E

\* No handle of G breaks a rule.
Clean(pol, pins, objs, G, E) ==
    \A g \in G, r \in pol.rules : Counts(g, E) =>
        /\ r.rule = "deny" => r.a \notin LabelsOf(pol, pins, objs, g.obj)
        /\ r.rule = "approval" /\ Unattended(g) => r.a \notin LabelsOf(pol, pins, objs, g.obj)
        /\ r.rule \notin {"deny", "approval"} =>
              \A d \in G : Counts(d, E) /\ d.pid = g.pid =>
                  ~(r.a \in LabelsOf(pol, pins, objs, g.obj) /\ r.b \in LabelsOf(pol, pins, objs, d.obj))

ProcStates == {"none", "ready", "running", "blocked", "waiting", "exited", "reaped"}

\* Processes that may yet derive handles.
Active == {p \in Pids : procs[p] \in {"ready", "running", "blocked", "waiting"}}

Types ==
    /\ IsOffice(sc)
    /\ procs \in [Pids -> ProcStates]
    /\ tables \in [Pids -> [Slots -> Cap \cup {NoCap}]]
    /\ child \in [Pids -> Cap \cup {NoCap}]
    /\ live \subseteq made /\ made \subseteq Objects
    /\ policy = [rules |-> policy.rules, labels |-> policy.labels]
    /\ staged \in [open : BOOLEAN, grants : Seq(Grant)] /\ Len(staged.grants) <= BatchRoom
    /\ confirmed \subseteq DOMAIN pinned /\ (\A k \in DOMAIN pinned : pinned[k] \subseteq Flags)
    /\ con \in [pc : {"idle", "grant", "apply", "done", "run"}, todo : Seq(Grant), run : Pids \cup {0}]
    /\ con.pc = "apply" => con.todo # <<>>
    /\ con.pc \in {"idle", "done", "run"} => con.todo = <<>>
    /\ pending \in Seq(Requests) /\ Len(pending) <= PendingRoom
    /\ \A a \in granted : a \in Grant /\ a.obj \in made

Held ==
    \A p \in Pids, h \in Slots : tables[p][h] # NoCap =>
        /\ Verify(tables[p][h]) /\ HasTable(p)
        /\ Backed(View(p, tables[p][h])) /\ Shown(View(p, tables[p][h]))

\* A token in the making comes from a handle still in the table.
Deriving ==
    \A p \in Pids : child[p] # NoCap =>
        /\ con.pc = "run" /\ procs[p] = "running"
        /\ \E h \in Slots : /\ tables[p][h] # NoCap
                            /\ Narrower(View(p, child[p]), View(p, tables[p][h]))

\* The requests that wait are the blocked processes', one each, by gated tokens.
Waiting ==
    /\ pending # <<>> => con.pc = "run"
    /\ \A p \in Pids : procs[p] = "blocked" => \E i \in DOMAIN pending : pending[i].pid = p
    /\ \A i \in DOMAIN pending :
        /\ procs[pending[i].pid] = "blocked"
        /\ Backed(View(pending[i].pid, pending[i].cap))
        /\ (IF pending[i].action = "send" THEN "send" ELSE "execute") \in pending[i].cap.perms
    /\ \A i, j \in DOMAIN pending : pending[i].pid = pending[j].pid => i = j

\* What is being applied was reviewed.
Applying == \A g \in Todo : HasTable(g.pid) /\ g \in granted /\ Shown(g)

\* Outside a run no process is between its first and its last instruction, so
\* the handles of those still to run are as they were granted.
Unstarted ==
    /\ con.pc # "run" => \A p \in Pids : procs[p] \notin {"running", "blocked", "waiting"}
    /\ \A p \in Pids, h \in Slots :
        procs[p] = "ready" /\ tables[p][h] # NoCap => tables[p][h].perms # {}
    /\ con.run # 0 => con.pc \in {"grant", "apply", "done"} /\ procs[con.run] = "ready"

\* As long as no label is dropped, what is held and what is about to be applied
\* breaks no rule.
RulesKept == LabelsFit(policy) => Clean(policy, pinned, live, Grants(tables) \cup Todo, Active)

\* The inductive invariant.
AuthInv == Types /\ Held /\ Deriving /\ Waiting /\ Applying /\ Unstarted /\ RulesKept /\ EffectsWereAllowed

-----------------------------------------------------------------------------
(* Tables and tokens. *)

Handles == [Slots -> Cap \cup {NoCap}]

\* t2 is t with c in a slot that was free.
Inserted(t, c, t2) ==
    \E k \in Slots : /\ t[k] = NoCap /\ t2[k] = c
                    /\ \A h \in Slots : h # k => t2[h] = t[h]

\* A table with a free slot has a lowest one (proved in Authority_proofs).
LowestIsFree == \A t \in Handles : Free(t) # {} => Lowest(t) \in Free(t)

\* A token goes into a free slot and disturbs no other (HandleTable::insert).
LEMMA InsertIntoFree ==
    ASSUME LowestIsFree, NEW t \in Handles, NEW c \in Cap, Free(t) # {}
    PROVE  InsertCap(t, c) \in Handles /\ Inserted(t, c, InsertCap(t, c))
<1>1. Lowest(t) \in Free(t)
  BY Zenon DEF LowestIsFree
<1> QED BY <1>1 DEF InsertCap, Free, Handles, Inserted

\* Every token has an object, and an issued one is not the empty slot.
LEMMA CapIsNotNone ==
    ASSUME NEW c \in Cap
    PROVE  c # NoCap
BY AuthorityAssumption DEF Cap, NoCap

\* current_grants lists one grant for each handle in a table.
LEMMA GrantsMember ==
    ASSUME NEW tab, NEW g
    PROVE  g \in Grants(tab) <=> \E p \in Pids, h \in Slots : tab[p][h] # NoCap /\ g = View(p, tab[p][h])
<1> DEFINE D == {y \in Pids \X Slots : tab[y[1]][y[2]] # NoCap}
           V(x) == [pid |-> x[1], obj |-> tab[x[1]][x[2]].obj, mask |-> tab[x[1]][x[2]].perms]
<1>1. Grants(tab) = {V(x) : x \in D}
  BY DEF Grants
<1>2. ASSUME NEW x \in D
      PROVE  \E p \in Pids, h \in Slots : tab[p][h] # NoCap /\ V(x) = View(p, tab[p][h])
  BY DEF View
<1>3. ASSUME NEW p \in Pids, NEW h \in Slots, tab[p][h] # NoCap
      PROVE  View(p, tab[p][h]) \in Grants(tab)
  <2>1. <<p, h>> \in D /\ V(<<p, h>>) = View(p, tab[p][h])
    BY <1>3 DEF View
  <2> HIDE DEF D, V
  <2> QED BY <2>1, <1>1
<1> HIDE DEF D, V
<1>4. ASSUME g \in Grants(tab)
      PROVE  \E p \in Pids, h \in Slots : tab[p][h] # NoCap /\ g = View(p, tab[p][h])
  BY <1>1, <1>2, <1>4
<1> QED BY <1>3, <1>4

\* Fewer handles are fewer grants.
LEMMA GrantsShrink ==
    ASSUME NEW tab, NEW new, \A p \in Pids, h \in Slots : new[p][h] # NoCap => new[p][h] = tab[p][h]
    PROVE  Grants(new) \subseteq Grants(tab)
<1> SUFFICES ASSUME NEW x \in Grants(new) PROVE x \in Grants(tab)
  OBVIOUS
<1>1. PICK p \in Pids, h \in Slots : new[p][h] # NoCap /\ x = View(p, new[p][h])
  BY GrantsMember
<1>2. tab[p][h] # NoCap /\ x = View(p, tab[p][h])
  BY Zenon, <1>1
<1> QED BY Zenon, <1>2, GrantsMember

\* A narrowing of a narrowing is a narrowing.
LEMMA NarrowerTransitive ==
    ASSUME NEW a, NEW b, NEW c, Narrower(a, b), Narrower(b, c)
    PROVE  Narrower(a, c)
BY DEF Narrower

\* What is narrower than a grant that was made is still backed by it.
LEMMA BackedNarrower ==
    ASSUME NEW g, NEW d, Narrower(g, d), Backed(d)
    PROVE  Backed(g)
BY NarrowerTransitive DEF Backed

\* Narrowing keeps the approval demand: what needs no signature after it needed none before.
LEMMA UnattendedNarrower ==
    ASSUME NEW g, NEW d, Narrower(g, d), Unattended(g)
    PROVE  Unattended(d)
<1>1. Gate \notin Effect
  BY DEF Gate, Effect
<1> QED BY <1>1 DEF Narrower, Unattended

\* What is narrower than something the review showed shows nothing new.
LEMMA ShownNarrower ==
    ASSUME NEW g, NEW d, Narrower(g, d), Shown(d)
    PROVE  Shown(g)
BY UnattendedNarrower DEF Shown, Narrower

\* A derived token is narrower than its parent (HandleTable::attenuate).
LEMMA DerivedIsNarrower ==
    ASSUME NEW p, NEW c \in Cap, NEW mask \in SUBSET Permission, ~Escalates(c, mask)
    PROVE  Attenuate(c, mask) \in Cap /\ Narrower(View(p, Attenuate(c, mask)), View(p, c))
BY Zenon DEF Attenuate, Escalates, Cap, View, Narrower, Permission, Gate

\* A token the kernel issues verifies, with the permissions it was issued for.
LEMMA IssueVerifies ==
    ASSUME NEW c \in Cap
    PROVE  Issue(c) \in Cap /\ Verify(Issue(c)) /\ Issue(c).obj = c.obj /\ Issue(c).perms = c.perms
BY DEF Issue, Verify, Cap

-----------------------------------------------------------------------------
(* The rules. *)

\* The elementwise reading of Violations.
LEMMA CleanIffNone ==
    ASSUME NEW pol, NEW pins, NEW objs, NEW G
    PROVE  Violations(pol, pins, objs, G) = {} <=> Clean(pol, pins, objs, G, {})
<1>1. ASSUME Violations(pol, pins, objs, G) = {}, NEW g \in G, NEW r \in pol.rules, g.mask # {}
      PROVE  /\ r.rule = "deny" => r.a \notin LabelsOf(pol, pins, objs, g.obj)
             /\ r.rule = "approval" /\ Unattended(g) => r.a \notin LabelsOf(pol, pins, objs, g.obj)
             /\ r.rule \notin {"deny", "approval"} =>
                   \A d \in G : d.mask # {} /\ d.pid = g.pid =>
                       ~(r.a \in LabelsOf(pol, pins, objs, g.obj) /\ r.b \in LabelsOf(pol, pins, objs, d.obj))
  <2>1. CASE r.rule = "deny"
    <3>1. Denied(pol, pins, objs, G, r) = {}
      BY <1>1, <2>1 DEF Violations
    <3> QED BY Zenon, <1>1, <2>1, <3>1 DEF Denied, Has
  <2>2. CASE r.rule = "approval"
    <3>1. NeedsApproval(pol, pins, objs, G, r) = {}
      BY <1>1, <2>2 DEF Violations
    <3> QED BY Zenon, <1>1, <2>2, <3>1 DEF NeedsApproval, Has, Unattended
  <2>3. CASE r.rule \notin {"deny", "approval"}
    <3>1. Separated(pol, pins, objs, G, r) = {}
      BY <1>1, <2>3 DEF Violations
    <3> QED BY Zenon, <1>1, <2>3, <3>1 DEF Separated, Has
  <2> QED BY <2>1, <2>2, <2>3
<1>2. ASSUME Clean(pol, pins, objs, G, {}), NEW r \in pol.rules
      PROVE  /\ r.rule = "deny" => Denied(pol, pins, objs, G, r) = {}
             /\ r.rule = "approval" => NeedsApproval(pol, pins, objs, G, r) = {}
             /\ r.rule \notin {"deny", "approval"} => Separated(pol, pins, objs, G, r) = {}
  <2>1. ASSUME r.rule = "deny" PROVE Denied(pol, pins, objs, G, r) = {}
    BY <1>2, <2>1 DEF Clean, Counts, Denied, Has
  <2>2. ASSUME r.rule = "approval" PROVE NeedsApproval(pol, pins, objs, G, r) = {}
    BY Zenon, <1>2, <2>2 DEF Clean, Counts, NeedsApproval, Has, Unattended
  <2>3. ASSUME r.rule \notin {"deny", "approval"} PROVE Separated(pol, pins, objs, G, r) = {}
    BY <1>2, <2>3 DEF Clean, Counts, Separated, Has
  <2> QED BY <2>1, <2>2, <2>3
<1> QED BY <1>1, <1>2 DEF Violations, Clean, Counts

\* Where every object's labels fit, labels_of returns them all.
LEMMA WholeLabels ==
    ASSUME NEW pol, LabelsFit(pol), NEW pins, \A k \in DOMAIN pins : pins[k] \subseteq Flags,
           NEW objs \in SUBSET Objects, NEW o \in Objects
    PROVE  LabelsOf(pol, pins, objs, o) = AllLabels(pol, pins, objs, o)
<1> DEFINE flags == IF KindOf[o] \in DOMAIN pins THEN pins[KindOf[o]] ELSE {}
           some == IF o \in objs THEN Objects ELSE {}
           any == [k \in Kinds |-> flags]
<1>1. flags \in SUBSET Flags /\ some \in {{}, Objects} /\ (o \in some <=> o \in objs)
  BY Zenon
<1>2. KindOf[o] \in DOMAIN any /\ any[KindOf[o]] = flags
  BY Zenon, AuthorityAssumption
<1>3. Automatic(any, some, o) = Automatic(pins, objs, o)
  <2> HIDE DEF some, any
  <2> QED BY Zenon, <1>1, <1>2 DEF Automatic
<1>4. Attached(pol, some, o) = Attached(pol, objs, o)
  <2> HIDE DEF some
  <2> QED BY <1>1 DEF Attached
<1>5. AllLabels(pol, any, some, o) = AllLabels(pol, pins, objs, o)
  BY Zenon, <1>3, <1>4 DEF AllLabels
<1>6. Cardinality(AllLabels(pol, any, some, o)) <= LabelCap
  <2> HIDE DEF flags, some
  <2> QED BY Zenon, <1>1 DEF LabelsFit
<1> HIDE DEF any, some
<1> QED BY Zenon, <1>5, <1>6 DEF LabelsOf

\* Handles that are covered by those of a clean set, with no more labels, are clean.
LEMMA CoveredIsClean ==
    ASSUME NEW pol, NEW pins, NEW objs, NEW pins2, NEW objs2, NEW G, NEW H, NEW E, NEW F,
           Clean(pol, pins, objs, G, E),
           \A h \in H : /\ LabelsOf(pol, pins2, objs2, h.obj) \subseteq LabelsOf(pol, pins, objs, h.obj)
                        /\ \E g \in G : /\ g.pid = h.pid /\ g.obj = h.obj
                                        /\ Counts(h, F) => Counts(g, E)
                                        /\ Unattended(h) => Unattended(g)
    PROVE  Clean(pol, pins2, objs2, H, F)
<1> DEFINE L(o) == LabelsOf(pol, pins, objs, o)
           M(o) == LabelsOf(pol, pins2, objs2, o)
<1>0. \A h \in H : /\ M(h.obj) \subseteq L(h.obj)
                    /\ \E g \in G : /\ g.pid = h.pid /\ g.obj = h.obj
                                    /\ Counts(h, F) => Counts(g, E)
                                    /\ Unattended(h) => Unattended(g)
  BY Zenon
<1> SUFFICES ASSUME NEW h \in H, NEW r \in pol.rules, Counts(h, F)
             PROVE  /\ r.rule = "deny" => r.a \notin M(h.obj)
                    /\ r.rule = "approval" /\ Unattended(h) => r.a \notin M(h.obj)
                    /\ r.rule \notin {"deny", "approval"} =>
                          \A d \in H : Counts(d, F) /\ d.pid = h.pid => ~(r.a \in M(h.obj) /\ r.b \in M(d.obj))
  BY Zenon DEF Clean
<1>1. PICK g \in G : /\ g.pid = h.pid /\ g.obj = h.obj /\ Counts(g, E)
                     /\ Unattended(h) => Unattended(g)
  BY Zenon, <1>0
<1>2. /\ r.rule = "deny" => r.a \notin L(g.obj)
      /\ r.rule = "approval" /\ Unattended(g) => r.a \notin L(g.obj)
      /\ r.rule \notin {"deny", "approval"} =>
            \A d \in G : Counts(d, E) /\ d.pid = g.pid => ~(r.a \in L(g.obj) /\ r.b \in L(d.obj))
  BY Zenon, <1>1 DEF Clean
<1> HIDE DEF L, M
<1>3. M(h.obj) \subseteq L(g.obj)
  BY Zenon, <1>0, <1>1
<1>4. ASSUME r.rule \notin {"deny", "approval"}, NEW d \in H, Counts(d, F), d.pid = h.pid
      PROVE  ~(r.a \in M(h.obj) /\ r.b \in M(d.obj))
  <2>1. PICK e \in G : e.pid = d.pid /\ e.obj = d.obj /\ Counts(e, E)
    BY Zenon, <1>0, <1>4
  <2>2. M(d.obj) \subseteq L(e.obj)
    BY Zenon, <1>0, <2>1
  <2>3. ~(r.a \in L(g.obj) /\ r.b \in L(e.obj))
    BY Zenon, <1>1, <1>2, <1>4, <2>1
  <2> QED BY Zenon, <1>3, <2>2, <2>3
<1> QED BY Zenon, <1>1, <1>2, <1>3, <1>4
-----------------------------------------------------------------------------
(* What keeps each part of the invariant. *)

Grows == granted \subseteq granted' /\ reach \subseteq reach'
TablesStay == \A p \in Pids : HasTable(p) => HasTable(p)'

\* Handles stay sound while the tables stay and the history only grows.
LEMMA HeldFrame ==
    ASSUME Held, tables' = tables, Grows, TablesStay
    PROVE  Held'
BY DEF Held, Grows, TablesStay, Backed, Shown, HasTable

\* A handle that stays where it is stays sound.
LEMMA StillHeld ==
    ASSUME Held, Grows, NEW p \in Pids, NEW h \in Slots, tables'[p][h] = tables[p][h], tables[p][h] # NoCap,
           HasTable(p) => HasTable(p)'
    PROVE  /\ Verify(tables'[p][h]) /\ HasTable(p)'
           /\ Backed(View(p, tables[p][h]))' /\ Shown(View(p, tables[p][h]))'
<1>1. Verify(tables[p][h]) /\ HasTable(p) /\ Backed(View(p, tables[p][h])) /\ Shown(View(p, tables[p][h]))
  BY Zenon DEF Held
<1>2. View(p, tables[p][h])' = View(p, tables[p][h])
  BY Zenon DEF View
<1>3. Backed(View(p, tables[p][h]))'
  BY Zenon, <1>1, <1>2 DEF Backed, Grows
<1>4. Shown(View(p, tables[p][h]))'
  BY Zenon, <1>1, <1>2 DEF Shown, Grows
<1> QED BY Zenon, <1>1, <1>3, <1>4

\* A token in the making is undisturbed by a step that leaves its table and its process alone.
LEMMA DerivingFrame ==
    ASSUME Deriving, tables' = tables, child' = child,
           \A p \in Pids : child[p] # NoCap => con'.pc = "run" /\ procs'[p] = "running"
    PROVE  Deriving'
BY DEF Deriving

\* Queued requests are undisturbed by a step that leaves the queue and its processes alone.
LEMMA WaitingFrame ==
    ASSUME Types, Waiting, pending' = pending, Grows, pending # <<>> => con'.pc = "run",
           \A p \in Pids : procs'[p] = "blocked" <=> procs[p] = "blocked"
    PROVE  Waiting'
<1>1. \A i \in DOMAIN pending : pending[i].pid \in Pids
  <2>1. pending \in Seq(Requests)
    BY DEF Types
  <2>2. \A i \in DOMAIN pending : pending[i] \in Requests
    BY <2>1
  <2> QED BY <2>2 DEF Requests
<1> QED BY <1>1 DEF Waiting, Grows, Backed

\* What the console has still to apply are grants.
LEMMA TodoIsGrants ==
    ASSUME Types
    PROVE  Todo \subseteq Grant
BY DEF Types, Todo

\* What was reviewed stays so while the console works through it.
LEMMA ApplyingFrame ==
    ASSUME Types, Applying, Todo' \subseteq Todo, Grows, TablesStay
    PROVE  Applying'
<1>1. \A g \in Todo : g.pid \in Pids
  BY TodoIsGrants DEF Grant
<1> QED BY <1>1 DEF Applying, Grows, TablesStay, Shown, HasTable

\* Taking grants away, or processes out of the active set, breaks no rule.
LEMMA RulesFrame ==
    ASSUME RulesKept, UNCHANGED <<policy, pinned, live>>, Active' \subseteq Active,
           Grants(tables') \cup Todo' \subseteq Grants(tables) \cup Todo
    PROVE  RulesKept'
<1> DEFINE G == Grants(tables) \cup Todo
           H == Grants(tables') \cup Todo'
<1>1. \A h \in H : h \in G /\ (Counts(h, Active') => Counts(h, Active))
  BY DEF Counts
<1>2. LabelsFit(policy) => Clean(policy, pinned, live, G, Active)
  BY DEF RulesKept
<1> HIDE DEF G, H
<1>3. LabelsFit(policy) => Clean(policy, pinned, live, H, Active')
  BY <1>1, <1>2, CoveredIsClean
<1> QED BY Zenon, <1>3 DEF RulesKept, H

\* What was done stays allowed by what held when it was done.
LEMMA EffectsFrame ==
    ASSUME EffectsWereAllowed, effects' = effects, Grows,
           con'.pc = "run" => con.pc = "run" /\ UNCHANGED <<policy, pinned, live>>
    PROVE  EffectsWereAllowed'
<1>1. EffectsWereGranted'
  BY DEF EffectsWereAllowed, EffectsWereGranted, Grows
<1>2. UnattendedWasUngated'
  BY DEF EffectsWereAllowed, UnattendedWasUngated, Grows
<1> QED BY <1>1, <1>2 DEF EffectsWereAllowed

\* A step that leaves processes, tables and requests alone keeps the invariant.
LEMMA QuietStep ==
    ASSUME AuthInv, Types', Grows, Todo' \subseteq Todo, con'.pc = "run" <=> con.pc = "run",
           UNCHANGED <<procs, tables, child, live, policy, pinned, pending, effects>>,
           con'.run # 0 => con'.pc \in {"grant", "apply", "done"} /\ con'.run = con.run
    PROVE  AuthInv'
<1> USE DEF AuthInv
<1>1. TablesStay
  BY DEF TablesStay, HasTable
<1>2. Held' /\ Applying'
  BY <1>1, HeldFrame, ApplyingFrame
<1>3. Deriving'
  <2>1. \A p \in Pids : child[p] # NoCap => con'.pc = "run" /\ procs'[p] = "running"
    BY DEF Deriving
  <2> QED BY <2>1, DerivingFrame
<1>4. Waiting'
  <2>1. pending # <<>> => con'.pc = "run"
    BY DEF Waiting
  <2> QED BY <2>1, WaitingFrame
<1>5. Unstarted'
  BY DEF Unstarted
<1>6. RulesKept'
  BY RulesFrame DEF Active
<1>7. EffectsWereAllowed'
  BY EffectsFrame
<1> QED BY <1>2, <1>3, <1>4, <1>5, <1>6, <1>7

\* Taking from the budget of commands or calls leaves a scenario.
LEMMA SpendKeepsOffice ==
    ASSUME IsOffice(sc), NEW x,
           sc' = [sc EXCEPT !.commands = x] \/ sc' = [sc EXCEPT !.calls = x] \/ sc' = sc
    PROVE  IsOffice(sc') /\ sc'.grants = sc.grants /\ sc'.masks = sc.masks
BY DEF IsOffice

-----------------------------------------------------------------------------
(* Review. *)

\* What a proposal adds to an agent's reach is in the diff, or was shown before.
LEMMA DiffShows ==
    ASSUME Held, NEW P, NEW g \in P,
           reach' = reach \cup Diff(Grants(tables), Grants(tables) \cup P)
    PROVE  /\ \A x \in g.mask \ {Gate} : \E c \in reach' : c.pid = g.pid /\ c.obj = g.obj /\ x \in c.perms
           /\ Unattended(g) => \E c \in reach' : c.pid = g.pid /\ c.obj = g.obj /\ ~c.gated
<1> DEFINE B == Grants(tables)
           A == B \cup P
           ch == Change(B, A, g.pid, g.obj)
<1>1. \A b \in B : Shown(b)
  BY GrantsMember DEF Held
<1>2. ch.pid = g.pid /\ ch.obj = g.obj /\ (ch.gated <=> ~Ungated(A, g.pid, g.obj))
  BY Zenon DEF Change
<1>3. ASSUME NewReach(B, A, g.pid, g.obj) PROVE ch \in reach'
  <2>1. <<g.pid, g.obj>> \in {<<e.pid, e.obj>> : e \in A}
    OBVIOUS
  <2>2. ch \in Diff(B, A)
    <3> DEFINE y == <<g.pid, g.obj>>
    <3>1. y \in {z \in {<<e.pid, e.obj>> : e \in A} : NewReach(B, A, z[1], z[2])} /\ ch = Change(B, A, y[1], y[2])
      BY <1>3, <2>1
    <3> HIDE DEF y, ch
    <3> QED BY <3>1 DEF Diff
  <2> QED BY <2>2
<1>4. ASSUME NEW x \in g.mask \ {Gate}
      PROVE  \E c \in reach' : c.pid = g.pid /\ c.obj = g.obj /\ x \in c.perms
  <2>1. x \in Masks(A, g.pid, g.obj)
    BY <1>4 DEF Masks
  <2>2. CASE x \in Masks(B, g.pid, g.obj)
    <3>1. PICK b \in B : b.pid = g.pid /\ b.obj = g.obj /\ x \in b.mask
      BY <2>2 DEF Masks
    <3> QED BY <3>1, <1>1 DEF Shown
  <2>3. CASE x \notin Masks(B, g.pid, g.obj)
    <3>1. x \in (Masks(A, g.pid, g.obj) \ Masks(B, g.pid, g.obj)) \ {Gate}
      BY <2>1, <2>3
    <3>2. x \in ch.perms
      BY <3>1 DEF Change
    <3>3. NewReach(B, A, g.pid, g.obj)
      BY <3>1 DEF NewReach
    <3> QED BY <3>2, <3>3, <1>2, <1>3
  <2> QED BY Zenon, <2>2, <2>3
<1>5. ASSUME Unattended(g)
      PROVE  \E c \in reach' : c.pid = g.pid /\ c.obj = g.obj /\ ~c.gated
  <2>1. Ungated(A, g.pid, g.obj)
    BY <1>5 DEF Ungated, Unattended
  <2>2. CASE Ungated(B, g.pid, g.obj)
    <3>1. PICK b \in B : b.pid = g.pid /\ b.obj = g.obj /\ Unattended(b)
      BY Zenon, <2>2 DEF Ungated, Unattended
    <3> QED BY <3>1, <1>1 DEF Shown
  <2>3. CASE ~Ungated(B, g.pid, g.obj)
    BY Zenon, <2>1, <2>3, <1>2, <1>3 DEF NewReach
  <2> QED BY <2>2, <2>3
<1> QED BY Zenon, <1>4, <1>5

\* Outside a run every handle without permissions is an exited process's.
LEMMA EmptyIsExited ==
    ASSUME AuthInv, con.pc # "run", NEW g \in Grants(tables), g.mask = {}
    PROVE  g.pid \notin Active
<1>1. PICK p \in Pids, h \in Slots : tables[p][h] # NoCap /\ g = View(p, tables[p][h])
  BY GrantsMember
<1>2. procs[p] # "ready" /\ procs[p] \notin {"running", "blocked", "waiting"}
  BY <1>1 DEF AuthInv, Unstarted, View
<1> QED BY <1>1, <1>2 DEF Active, View

\* A policy or a proposal that breaks no rule outside a run is clean.
LEMMA NoneIsClean ==
    ASSUME AuthInv, con.pc # "run", NEW pol, NEW pins, NEW objs, NEW P \in SUBSET Grant,
           Violations(pol, pins, objs, Grants(tables) \cup P) = {}
    PROVE  Clean(pol, pins, objs, Grants(tables) \cup P, Active)
<1> DEFINE G == Grants(tables) \cup P
<1>1. Clean(pol, pins, objs, G, {})
  BY CleanIffNone
<1>2. \A g \in G : Counts(g, Active) => Counts(g, {})
  BY EmptyIsExited DEF Counts, Grant
<1> HIDE DEF G
<1>3. Clean(pol, pins, objs, G, Active)
  BY <1>1, <1>2, CoveredIsClean
<1> QED BY <1>3 DEF G

\* Under the invariant violations_for finds nothing among the handles held.
LEMMA RulesHoldNow ==
    ASSUME AuthInv, LabelsFit(policy)
    PROVE  Violations(policy, pinned, live, Grants(tables)) = {}
<1> DEFINE G == Grants(tables) \cup Todo
           H == Grants(tables)
<1>1. Clean(policy, pinned, live, G, Active)
  BY DEF AuthInv, RulesKept
<1>2. \A h \in H : h \in G /\ (Counts(h, {}) => Counts(h, Active))
  BY DEF Counts
<1> HIDE DEF G, H
<1>3. Clean(policy, pinned, live, H, {})
  BY <1>1, <1>2, CoveredIsClean
<1> QED BY <1>3, CleanIffNone DEF H

\* review_grants either refuses, or what is applied next is shown and clean.
LEMMA ReviewKeeps ==
    ASSUME AuthInv, NEW gs \in Seq(Grant), gs # <<>>, \A i \in DOMAIN gs : Proposed(gs[i]),
           con.pc \in {"idle", "grant"}, NEW answer, ReviewGrants(gs, con.run, answer),
           IsOffice(sc'), staged' \in [open : BOOLEAN, grants : Seq(Grant)], Len(staged'.grants) <= BatchRoom,
           UNCHANGED <<procs, tables, child, live, made, policy, pinned, confirmed, pending, effects>>
    PROVE  AuthInv'
<1> DEFINE B == Grants(tables)
           P == {gs[i] : i \in DOMAIN gs}
<1> USE DEF AuthInv
<1>1. con.run \in Pids \cup {0} /\ Todo = {}
  BY DEF Types, Todo
<1>2. \A g \in P : g \in Grant /\ HasTable(g.pid) /\ g.obj \in live
  BY DEF Proposed
<1>3. CASE con' = [pc |-> "done", todo |-> <<>>, run |-> con.run] /\ UNCHANGED <<granted, reach>>
  <2>1. con'.pc = "done" /\ con'.run = con.run /\ con'.todo = <<>>
    BY <1>3
  <2>2. Types'
    <3>1. con' \in [pc : {"idle", "grant", "apply", "done", "run"}, todo : Seq(Grant), run : Pids \cup {0}]
      <4>1. <<>> \in Seq(Grant)
        OBVIOUS
      <4> QED BY Zenon, <1>1, <1>3, <4>1
    <3>2. con'.pc # "apply"
      BY Zenon, <2>1
    <3>3. granted' = granted
      BY Zenon, <1>3
    <3> QED BY Zenon, <2>1, <3>1, <3>2, <3>3 DEF Types
  <2>3. Grows /\ Todo' \subseteq Todo
    BY <1>3, <2>1 DEF Grows, Todo
  <2> QED BY <2>1, <2>2, <2>3, QuietStep
<1>4. CASE /\ con' = [pc |-> "apply", todo |-> gs, run |-> con.run]
           /\ Passes(policy, pinned, live, B, P)
           /\ granted' = granted \cup P /\ reach' = reach \cup Diff(B, B \cup P)
  <2>1. con'.pc = "apply" /\ con'.run = con.run /\ con'.todo = gs /\ Todo' = P
    BY <1>4 DEF Todo
  <2>2. \A g \in P : g \in Grant /\ g.obj \in made
    BY <1>2 DEF Types
  <2>3. Grows /\ TablesStay
    BY Zenon, <1>4 DEF Grows, TablesStay, HasTable
  <2>4. Types'
    BY <1>1, <1>4, <2>1, <2>2 DEF Types
  <2>5. Held'
    BY <2>3, HeldFrame
  <2>6. \A p \in Pids : child[p] = NoCap
    BY Zenon DEF Deriving
  <2>7. Deriving'
    BY Zenon, <2>6 DEF Deriving
  <2>8. Waiting'
    <3>1. pending = <<>>
      BY DEF Waiting
    <3> QED BY Zenon, <3>1, <2>3, WaitingFrame
  <2>9. Applying'
    <3> SUFFICES ASSUME NEW g \in P PROVE HasTable(g.pid)' /\ g \in granted' /\ Shown(g)'
      BY Zenon, <2>1 DEF Applying
    <3>1. HasTable(g.pid)' /\ g \in granted'
      BY Zenon, <1>2, <1>4 DEF HasTable
    <3>2. Shown(g)'
      BY Zenon, <1>4, DiffShows DEF Shown
    <3> QED BY <3>1, <3>2
  <2>10. Unstarted'
    BY Zenon, <2>1 DEF Unstarted
  <2>11. RulesKept'
    <3> SUFFICES ASSUME LabelsFit(policy) PROVE Clean(policy, pinned, live, B \cup P, Active)
      BY Zenon, <2>1 DEF RulesKept, Active
    <3>1. Violations(policy, pinned, live, B \cup P) = {}
      BY <1>4, RulesHoldNow DEF Passes
    <3>2. P \in SUBSET Grant
      BY <1>2
    <3> QED BY Zenon, <3>1, <3>2, NoneIsClean
  <2>12. EffectsWereAllowed'
    BY <2>1, <2>3, EffectsFrame
  <2> QED BY Zenon, <2>4, <2>5, <2>7, <2>8, <2>9, <2>10, <2>11, <2>12
<1> QED BY Zenon, <1>3, <1>4 DEF ReviewGrants

-----------------------------------------------------------------------------
(* The console's commands. *)

\* At boot no agent holds a handle and nothing was granted, so the boot policy is kept.
LEMMA InitEstablishes ==
    ASSUME AuthInit
    PROVE  AuthInv
<1> USE DEF AuthInit
<1>1. con.pc = "idle" /\ con.todo = <<>> /\ con.run = 0
  BY DEF Idle
<1>2. Todo = {}
  BY <1>1 DEF Todo
<1>3. \A p \in Pids, h \in Slots : tables[p][h] = NoCap
  BY DEF EmptyTable
<1>4. Grants(tables) = {}
  BY <1>3, GrantsMember
<1>5. IsOffice(sc)
  BY Zenon, OfficesAssumption
<1>6. Types
  <2>1. procs \in [Pids -> ProcStates]
    BY DEF ProcStates
  <2>2. tables \in [Pids -> [Slots -> Cap \cup {NoCap}]] /\ child \in [Pids -> Cap \cup {NoCap}]
    BY DEF EmptyTable
  <2>3. live \subseteq made /\ made \subseteq Objects
    BY <1>5 DEF IsOffice
  <2>4. policy = [rules |-> policy.rules, labels |-> policy.labels]
    BY Zenon
  <2>5. staged \in [open : BOOLEAN, grants : Seq(Grant)] /\ Len(staged.grants) <= BatchRoom
    BY AuthorityAssumption DEF NoBatch
  <2>6. con \in [pc : {"idle", "grant", "apply", "done", "run"}, todo : Seq(Grant), run : Pids \cup {0}]
    BY DEF Idle
  <2>7. pending \in Seq(Requests) /\ Len(pending) <= PendingRoom
    BY AuthorityAssumption
  <2>8. confirmed \subseteq DOMAIN pinned /\ \A a \in granted : a \in Grant /\ a.obj \in made
    BY Zenon
  <2>9. \A k \in DOMAIN pinned : pinned[k] \subseteq Flags
    BY SMT
  <2> QED BY Zenon, <1>1, <1>5, <2>1, <2>2, <2>3, <2>4, <2>5, <2>6, <2>7, <2>8, <2>9 DEF Types
<1>7. Held /\ Deriving
  BY <1>3 DEF Held, Deriving
<1>8. Waiting /\ Applying
  BY <1>2 DEF Waiting, Applying
<1>9. Unstarted
  BY Zenon, <1>1, <1>3 DEF Unstarted
<1>10. RulesKept
  BY Zenon, <1>2, <1>4 DEF RulesKept, Clean
<1>11. EffectsWereAllowed
  BY DEF EffectsWereAllowed, EffectsWereGranted, UnattendedWasUngated
<1> QED BY Zenon, <1>6, <1>7, <1>8, <1>9, <1>10, <1>11 DEF AuthInv

\* Outside a run nothing is asked for, in the making, or pending.
LEMMA OutsideRun ==
    ASSUME AuthInv, con.pc # "run"
    PROVE  /\ pending = <<>>
           /\ \A p \in Pids : child[p] = NoCap /\ procs[p] \notin {"running", "blocked", "waiting"}
BY DEF AuthInv, Waiting, Deriving, Unstarted

\* The idle console has nothing to apply.
LEMMA IdleConsole ==
    ASSUME con = Idle
    PROVE  con.pc = "idle" /\ con.todo = <<>> /\ con.run = 0 /\ Todo = {}
BY DEF Idle, Todo

\* A process that was never started, or is gone, holds nothing.
LEMMA NoTableNoHandle ==
    ASSUME AuthInv, NEW p \in Pids, ~HasTable(p)
    PROVE  tables[p] = EmptyTable /\ \A g \in Grants(tables) : g.pid # p
<1>1. \A h \in Slots : tables[p][h] = NoCap
  BY DEF AuthInv, Held
<1>2. tables[p] \in [Slots -> Cap \cup {NoCap}]
  BY DEF AuthInv, Types
<1>3. tables[p] = EmptyTable
  BY <1>1, <1>2 DEF EmptyTable
<1>4. \A g \in Grants(tables) : g.pid # p
  BY <1>1, GrantsMember DEF View
<1> QED BY <1>3, <1>4

\* The spawn and exec commands make a process with an empty table, and name the grant to review
\* next.
LEMMA SpawnKeeps ==
    ASSUME AuthInv, NEW p \in Pids, NEW g \in Seq(Grant), NEW run \in BOOLEAN, CmdSpawn(p, g, run)
    PROVE  AuthInv'
<1> USE DEF CmdSpawn
<1>1. con.pc = "idle" /\ Todo = {}
  BY IdleConsole
<1>2. con'.pc = "grant" /\ con'.todo = g /\ con'.run \in {0, p} /\ Todo' = {}
  BY DEF Todo
<1>3. ~HasTable(p) /\ tables \in [Pids -> Handles] /\ procs \in [Pids -> ProcStates]
  BY DEF HasTable, AuthInv, Types, Handles
<1>4. tables' = tables /\ \A x \in Grants(tables) : x.pid # p
  BY <1>3, NoTableNoHandle
<1>5. /\ procs' \in [Pids -> ProcStates] /\ procs'[p] = "ready"
      /\ \A q \in Pids : q # p => procs'[q] = procs[q]
  BY <1>3 DEF ProcStates
<1>6. pending = <<>> /\ \A q \in Pids : child[q] = NoCap /\ procs[q] \notin {"running", "blocked", "waiting"}
  BY <1>1, OutsideRun
<1>7. Grows /\ TablesStay
  BY Zenon, <1>5 DEF Grows, TablesStay, HasTable
<1>8. Types'
  <2>1. IsOffice(sc')
    BY Zenon, SpendKeepsOffice DEF Spend, AuthInv, Types
  <2>2. con' \in [pc : {"idle", "grant", "apply", "done", "run"}, todo : Seq(Grant), run : Pids \cup {0}]
    BY Zenon
  <2> QED BY Zenon, <1>2, <1>4, <1>5, <2>1, <2>2 DEF AuthInv, Types
<1>9. Held'
  BY Zenon, <1>4, <1>7, HeldFrame DEF AuthInv
<1>10. Deriving'
  BY <1>6 DEF Deriving
<1>11. Waiting'
  BY Zenon, <1>5, <1>6, <1>7, WaitingFrame DEF AuthInv
<1>12. Applying'
  BY Zenon, <1>2 DEF Applying
<1>13. Unstarted'
  <2>1. \A q \in Pids : procs'[q] \notin {"running", "blocked", "waiting"}
    BY Zenon, <1>5, <1>6
  <2>2. \A q \in Pids, h \in Slots : procs'[q] = "ready" /\ tables'[q][h] # NoCap => tables'[q][h].perms # {}
    <3>1. \A h \in Slots : tables[p][h] = NoCap
      BY <1>3 DEF AuthInv, Held
    <3>2. ASSUME NEW q \in Pids, NEW h \in Slots, procs'[q] = "ready", tables'[q][h] # NoCap
          PROVE  tables'[q][h].perms # {}
      <4>1. tables'[q][h] = tables[q][h] /\ q # p
        BY Zenon, <1>4, <3>1, <3>2
      <4>2. procs[q] = "ready" /\ tables[q][h] # NoCap
        BY Zenon, <1>5, <3>2, <4>1
      <4>3. tables[q][h].perms # {}
        BY Zenon, <4>2 DEF AuthInv, Unstarted
      <4> QED BY Zenon, <4>1, <4>3
    <3> QED BY Zenon, <3>2
  <2> QED BY Zenon, <1>2, <1>5, <2>1, <2>2 DEF Unstarted
<1>14. ASSUME LabelsFit(policy) PROVE Clean(policy, pinned, live, Grants(tables), Active')
  <2> DEFINE G == Grants(tables)
  <2>0. LabelsFit(policy)
    BY Zenon, <1>14
  <2>1. Clean(policy, pinned, live, G, Active)
    BY Zenon, <1>1, <2>0 DEF AuthInv, RulesKept
  <2>2. \A h \in G : Counts(h, Active') => Counts(h, Active)
    BY Zenon, <1>4, <1>5 DEF Counts, Active
  <2>3. Clean(policy, pinned, live, G, Active')
    <3> HIDE DEF G
    <3> QED BY Zenon, <2>1, <2>2, CoveredIsClean
  <2> QED BY Zenon, <2>3
<1>15. EffectsWereAllowed'
  BY <1>2, <1>7, EffectsFrame DEF AuthInv
<1>16. RulesKept'
  BY <1>2, <1>4, <1>14 DEF RulesKept
<1> QED BY Zenon, <1>8, <1>9, <1>10, <1>11, <1>12, <1>13, <1>15, <1>16 DEF AuthInv

\* grant_handle, at once or into the open batch.
LEMMA GrantKeeps ==
    ASSUME AuthInv, con.pc \in {"idle", "grant"}, NEW g \in Grant, NEW answer,
           GrantHandle(g, con.run, answer), IsOffice(sc'),
           UNCHANGED <<procs, tables, child, live, made, policy, pinned, confirmed, pending, effects>>
    PROVE  AuthInv'
<1> DEFINE NewStaged == staged' \in [open : BOOLEAN, grants : Seq(Grant)] /\ Len(staged'.grants) <= BatchRoom
           Quiet == /\ con' = [pc |-> "done", todo |-> <<>>, run |-> con.run]
                    /\ UNCHANGED <<granted, reach>>
<1>1. ASSUME NewStaged, Quiet PROVE AuthInv'
  <2>1. con'.pc = "done" /\ con'.todo = <<>> /\ con'.run = con.run /\ con.run \in Pids \cup {0}
    BY Zenon, <1>1 DEF AuthInv, Types
  <2>2. Types'
    BY <1>1, <2>1 DEF AuthInv, Types
  <2>3. Grows /\ Todo' \subseteq Todo
    BY Zenon, <1>1, <2>1 DEF Grows, Todo
  <2> QED BY Zenon, <2>1, <2>2, <2>3, QuietStep
<1>2. CASE staged.open
  <2>1. staged \in [open : BOOLEAN, grants : Seq(Grant)] /\ Len(staged.grants) <= BatchRoom
    BY DEF AuthInv, Types
  <2>2. staged' = IF Len(staged.grants) < BatchRoom
                  THEN [staged EXCEPT !.grants = Append(staged.grants, g)] ELSE staged
    BY Zenon, <1>2 DEF GrantHandle
  <2>3. NewStaged
    <3>1. CASE Len(staged.grants) < BatchRoom
      <4>1. staged' = [staged EXCEPT !.grants = Append(staged.grants, g)]
        BY Zenon, <2>2, <3>1
      <4>2. staged.grants \in Seq(Grant) /\ staged.open \in BOOLEAN
        BY <2>1
      <4>3. Append(staged.grants, g) \in Seq(Grant) /\ Len(Append(staged.grants, g)) = Len(staged.grants) + 1
        BY <4>2
      <4>4. Len(staged.grants) \in Nat
        BY <4>2
      <4>5. Len(Append(staged.grants, g)) <= BatchRoom
        BY <3>1, <4>3, <4>4, AuthorityAssumption
      <4>6. staged' \in [open : BOOLEAN, grants : Seq(Grant)]
        BY Zenon, <2>1, <4>1, <4>3
      <4>7. staged'.grants = Append(staged.grants, g)
        BY <2>1, <4>1
      <4> QED BY <4>5, <4>6, <4>7
    <3>2. CASE ~(Len(staged.grants) < BatchRoom)
      BY Zenon, <2>1, <2>2, <3>2
    <3> QED BY <3>1, <3>2
  <2>4. Quiet
    BY <1>2 DEF GrantHandle
  <2> QED BY Zenon, <1>1, <2>3, <2>4
<1>3. CASE ~staged.open
  <2>1. staged' = staged /\ NewStaged
    BY <1>3 DEF GrantHandle, AuthInv, Types
  <2>2. CASE ~Proposed(g)
    BY Zenon, <1>1, <1>3, <2>1, <2>2 DEF GrantHandle
  <2>3. CASE Proposed(g)
    <3>1. ReviewGrants(<<g>>, con.run, answer)
      BY <1>3, <2>3 DEF GrantHandle
    <3>2. <<g>> \in Seq(Grant) /\ <<g>> # <<>> /\ \A i \in DOMAIN <<g>> : Proposed(<<g>>[i])
      BY <2>3
    <3> QED BY Zenon, <2>1, <3>1, <3>2, ReviewKeeps
  <2> QED BY <2>2, <2>3
<1> QED BY <1>2, <1>3

\* What the console can ask for is a grant.
LEMMA GrantsToAreGrants ==
    ASSUME IsOffice(sc), NEW p \in Pids
    PROVE  GrantsTo(p) \subseteq Grant
BY DEF IsOffice, GrantsTo, Grant

\* The grant command, for one process and one object.
LEMMA CmdGrantKeeps ==
    ASSUME AuthInv, NEW p \in Pids, NEW g \in GrantsTo(p), NEW answer, CmdGrant(g, answer)
    PROVE  AuthInv'
<1>1. g \in Grant /\ IsOffice(sc')
  BY Zenon, GrantsToAreGrants, SpendKeepsOffice DEF AuthInv, Types, CmdGrant, Spend
<1>2. con.pc = "idle" /\ con.run = 0
  BY IdleConsole DEF CmdGrant
<1> QED BY <1>1, <1>2, GrantKeeps DEF CmdGrant

\* The grant that spawn or exec names, if it names one.
LEMMA SpawnGrantKeeps ==
    ASSUME AuthInv, NEW answer, SpawnGrant(answer)
    PROVE  AuthInv'
<1> USE DEF SpawnGrant
<1>1. con \in [pc : {"idle", "grant", "apply", "done", "run"}, todo : Seq(Grant), run : Pids \cup {0}]
  BY DEF AuthInv, Types
<1>2. CASE con.todo = <<>>
  <2>1. con' = [con EXCEPT !.pc = "done"] /\ UNCHANGED <<staged, granted, reach>>
    BY <1>2
  <2>2. con'.pc = "done" /\ con'.todo = <<>> /\ con'.run = con.run
    BY <1>1, <1>2, <2>1
  <2>3. con' \in [pc : {"idle", "grant", "apply", "done", "run"}, todo : Seq(Grant), run : Pids \cup {0}]
    BY <1>1, <2>1
  <2>4. Types'
    BY <2>1, <2>2, <2>3 DEF AuthInv, Types
  <2>5. Grows /\ Todo' \subseteq Todo
    BY <2>1, <2>2 DEF Grows, Todo
  <2> QED BY <2>2, <2>4, <2>5, QuietStep
<1>3. CASE con.todo # <<>>
  <2>1. con.todo[1] \in Grant /\ IsOffice(sc')
    BY <1>1, <1>3 DEF AuthInv, Types
  <2> QED BY <1>3, <2>1, GrantKeeps
<1> QED BY <1>2, <1>3

\* apply_grant: the token is as reviewed, and goes where nothing was.
LEMMA ApplyGrantKeeps ==
    ASSUME LowestIsFree, AuthInv, ApplyGrant
    PROVE  AuthInv'
<1> DEFINE g == Head(con.todo)
           c == Issue([obj |-> g.obj, perms |-> g.mask, proof |-> NoProof])
<1> USE DEF ApplyGrant
<1>1. con \in [pc : {"idle", "grant", "apply", "done", "run"}, todo : Seq(Grant), run : Pids \cup {0}]
      /\ con.todo # <<>>
  BY DEF AuthInv, Types
<1>2. g \in Grant /\ g \in Todo
  BY <1>1 DEF Todo
<1>3. g.pid \in Pids /\ HasTable(g.pid) /\ g \in granted /\ Shown(g)
  BY <1>2 DEF AuthInv, Applying, Grant
<1>4. c \in Cap /\ Verify(c) /\ View(g.pid, c) = g /\ c.perms # {} /\ c # NoCap
  <2>1. [obj |-> g.obj, perms |-> g.mask, proof |-> NoProof] \in Cap
    BY <1>2 DEF Grant, Cap
  <2>2. c \in Cap /\ Verify(c) /\ c.obj = g.obj /\ c.perms = g.mask
    BY <2>1, IssueVerifies
  <2>3. g = [pid |-> g.pid, obj |-> g.obj, mask |-> g.mask] /\ g.mask # {}
    BY <1>2 DEF Grant
  <2> QED BY <2>2, <2>3, CapIsNotNone DEF View
<1>5. con' \in [pc : {"done", "apply"}, todo : Seq(Grant), run : Pids \cup {0}] /\ con'.run = con.run
      /\ (con'.pc = "apply" => con'.todo # <<>>) /\ (con'.pc = "done" => con'.todo = <<>>)
      /\ Todo' \subseteq Todo
  <2>1. CASE Len(con.todo) = 1
    <3>1. con' = [con EXCEPT !.pc = "done", !.todo = <<>>]
      BY <2>1
    <3>2. con'.pc = "done" /\ con'.todo = <<>> /\ con'.run = con.run
      BY Zenon, <1>1, <3>1
    <3>3. con' \in [pc : {"done", "apply"}, todo : Seq(Grant), run : Pids \cup {0}]
      <4>1. <<>> \in Seq(Grant)
        OBVIOUS
      <4> QED BY Zenon, <1>1, <3>1, <4>1
    <3>4. Todo' \subseteq Todo
      BY <3>2 DEF Todo
    <3> QED BY <3>2, <3>3, <3>4
  <2>2. CASE Len(con.todo) # 1
    <3>1. con' = [con EXCEPT !.todo = Tail(con.todo)]
      BY <2>2
    <3>2. con'.pc = "apply" /\ con'.todo = Tail(con.todo) /\ con'.run = con.run
      BY Zenon, <1>1, <3>1
    <3>3. Tail(con.todo) \in Seq(Grant) /\ Tail(con.todo) # <<>>
      <4>1. con.todo \in Seq(Grant) /\ con.todo # <<>>
        BY <1>1
      <4>2. Tail(con.todo) \in Seq(Grant) /\ Len(Tail(con.todo)) = Len(con.todo) - 1
        BY <4>1
      <4>3. Len(con.todo) \in Nat /\ Len(con.todo) # 0
        BY <4>1
      <4>4. Len(Tail(con.todo)) # 0
        BY <2>2, <4>2, <4>3
      <4>5. Len(<<>>) = 0
        OBVIOUS
      <4> QED BY Zenon, <4>2, <4>4, <4>5
    <3>4. \A i \in DOMAIN Tail(con.todo) : i + 1 \in DOMAIN con.todo /\ Tail(con.todo)[i] = con.todo[i + 1]
      BY <1>1
    <3>5. Todo' \subseteq Todo
      BY <3>2, <3>4 DEF Todo
    <3>6. con' \in [pc : {"done", "apply"}, todo : Seq(Grant), run : Pids \cup {0}]
      BY Zenon, <1>1, <3>1, <3>3
    <3> QED BY Zenon, <3>2, <3>3, <3>5, <3>6
  <2> QED BY <2>1, <2>2
<1> HIDE DEF c, g
<1>6. tables \in [Pids -> Handles]
  BY DEF AuthInv, Types, Handles
<1>7. /\ tables' \in [Pids -> Handles]
      /\ \A p \in Pids, h \in Slots :
           \/ tables'[p][h] = tables[p][h]
           \/ p = g.pid /\ tables[p][h] = NoCap /\ tables'[p][h] = c
  <2>1. CASE Free(tables[g.pid]) = {}
    <3>1. tables' = tables
      BY <2>1 DEF g
    <3> QED BY Zenon, <1>6, <3>1
  <2>2. CASE Free(tables[g.pid]) # {}
    <3>1. tables' = [tables EXCEPT ![g.pid] = InsertCap(tables[g.pid], c)]
      BY <2>2 DEF g, c
    <3>2. tables[g.pid] \in Handles
      BY <1>3, <1>6
    <3>3. InsertCap(tables[g.pid], c) \in Handles /\ Inserted(tables[g.pid], c, InsertCap(tables[g.pid], c))
      BY <1>4, <2>2, <3>2, InsertIntoFree
    <3> QED BY Zenon, <1>3, <1>6, <3>1, <3>3 DEF Inserted
  <2> QED BY Zenon, <2>1, <2>2
<1>8. pending = <<>> /\ \A p \in Pids : child[p] = NoCap /\ procs[p] \notin {"running", "blocked", "waiting"}
  BY OutsideRun
<1>9. Grows /\ TablesStay
  BY Zenon DEF Grows, TablesStay, HasTable
<1>10. Types'
  BY Zenon, <1>5, <1>7 DEF AuthInv, Types, Handles
<1>11. Held'
  <2> SUFFICES ASSUME NEW p \in Pids, NEW h \in Slots, tables'[p][h] # NoCap
               PROVE  /\ Verify(tables'[p][h]) /\ HasTable(p)'
                      /\ Backed(View(p, tables[p][h]))' /\ Shown(View(p, tables[p][h]))'
    BY Zenon DEF Held
  <2>1. CASE tables'[p][h] = tables[p][h]
    <3>1. Held /\ Grows /\ (HasTable(p) => HasTable(p)')
      BY Zenon, <1>9 DEF AuthInv, TablesStay
    <3> QED BY Zenon, <2>1, <3>1, StillHeld
  <2>2. CASE p = g.pid /\ tables'[p][h] = c
    <3>1. Backed(g) /\ Shown(g)
      BY Zenon, <1>3 DEF Backed, Narrower
    <3> QED BY Zenon, <1>3, <1>4, <2>2, <3>1 DEF HasTable, Backed, Shown
  <2> QED BY Zenon, <1>7, <2>1, <2>2
<1>12. Deriving'
  BY <1>8 DEF Deriving
<1>13. Waiting'
  BY <1>8, <1>9, WaitingFrame DEF AuthInv
<1>14. Applying'
  BY Zenon, <1>5, <1>9, ApplyingFrame DEF AuthInv
<1>15. Unstarted'
  <2>1. \A p \in Pids, h \in Slots : procs[p] = "ready" /\ tables'[p][h] # NoCap => tables'[p][h].perms # {}
    <3> SUFFICES ASSUME NEW p \in Pids, NEW h \in Slots, procs[p] = "ready", tables'[p][h] # NoCap
                 PROVE  tables'[p][h].perms # {}
      BY Zenon
    <3>1. CASE tables'[p][h] = tables[p][h]
      BY Zenon, <3>1 DEF AuthInv, Unstarted
    <3>2. CASE tables'[p][h] = c
      BY Zenon, <1>4, <3>2
    <3> QED BY Zenon, <1>7, <3>1, <3>2
  <2> QED BY Zenon, <1>5, <1>8, <2>1 DEF AuthInv, Unstarted
<1>16. RulesKept'
  <2>1. Grants(tables') \subseteq Grants(tables) \cup Todo
    <3> SUFFICES ASSUME NEW x \in Grants(tables') PROVE x \in Grants(tables) \cup Todo
      BY Zenon
    <3> HIDE DEF ApplyGrant
    <3>1. PICK p \in Pids, h \in Slots : tables'[p][h] # NoCap /\ x = View(p, tables'[p][h])
      BY Zenon, GrantsMember
    <3>2. CASE tables'[p][h] = tables[p][h]
      BY Zenon, <3>1, <3>2, GrantsMember
    <3>3. CASE p = g.pid /\ tables'[p][h] = c
      BY Zenon, <1>2, <1>4, <3>1, <3>3
    <3> QED BY <1>7, <3>2, <3>3
  <2>2. Active' \subseteq Active
    BY DEF Active
  <2> QED BY Zenon, <1>5, <2>1, <2>2, RulesFrame DEF AuthInv
<1>17. EffectsWereAllowed'
  BY <1>5, <1>9, EffectsFrame DEF AuthInv
<1> QED BY Zenon, <1>10, <1>11, <1>12, <1>13, <1>14, <1>15, <1>16, <1>17 DEF AuthInv

\* A command that runs nothing returns to the prompt.
LEMMA CommandEndsKeeps ==
    ASSUME AuthInv, CommandEnds
    PROVE  AuthInv'
<1> USE DEF CommandEnds
<1>1. con'.pc = "idle" /\ con'.todo = <<>> /\ con'.run = 0
  BY DEF Idle
<1>2. con' \in [pc : {"idle", "grant", "apply", "done", "run"}, todo : Seq(Grant), run : Pids \cup {0}]
  BY DEF Idle
<1>3. Types'
  BY Zenon, <1>1, <1>2 DEF AuthInv, Types
<1>4. Grows /\ Todo' \subseteq Todo
  BY <1>1 DEF Grows, Todo
<1> QED BY <1>1, <1>3, <1>4, QuietStep

\* run_scheduled: only processes that were ready start.
LEMMA RunKeeps ==
    ASSUME AuthInv, RunScheduled
    PROVE  AuthInv'
<1> USE DEF RunScheduled
<1>1. con.pc \in {"idle", "done"} /\ Todo = {}
  BY DEF Idle, Todo
<1>2. con'.pc = "run" /\ con'.todo = <<>> /\ con'.run = 0 /\ Todo' = {}
  BY DEF Idle, Todo
<1>3. pending = <<>> /\ \A p \in Pids : child[p] = NoCap /\ procs[p] \notin {"running", "blocked", "waiting"}
  BY <1>1, OutsideRun
<1>4. \A p \in Pids : p = con.run \/ (con = Idle /\ p \in Ready) => procs[p] = "ready"
  BY AuthorityAssumption DEF Ready, AuthInv, Unstarted
<1>5. /\ procs' \in [Pids -> ProcStates]
      /\ \A p \in Pids : procs'[p] = procs[p] \/ (procs[p] = "ready" /\ procs'[p] = "running")
  <2>1. procs \in [Pids -> ProcStates]
    BY DEF AuthInv, Types
  <2>2. \A p \in Pids : procs'[p] = IF p = con.run \/ (con = Idle /\ p \in Ready) THEN "running" ELSE procs[p]
    OBVIOUS
  <2> QED BY <1>4, <2>1, <2>2 DEF ProcStates
<1>6. IsOffice(sc')
  BY Zenon, SpendKeepsOffice DEF Spend, AuthInv, Types
<1>7. con' \in [pc : {"idle", "grant", "apply", "done", "run"}, todo : Seq(Grant), run : Pids \cup {0}]
  <2>1. con' = [pc |-> "run", todo |-> <<>>, run |-> 0]
    BY DEF Idle
  <2>2. <<>> \in Seq(Grant)
    OBVIOUS
  <2> HIDE DEF RunScheduled
  <2> QED BY <2>1, <2>2
<1>8. Grows /\ TablesStay
  BY <1>5 DEF Grows, TablesStay, HasTable
<1>9. Types'
  BY <1>2, <1>5, <1>6, <1>7 DEF AuthInv, Types
<1>10. Held'
  BY <1>8, HeldFrame DEF AuthInv
<1>11. Deriving'
  BY <1>3 DEF Deriving
<1>12. Waiting'
  BY <1>3, <1>5, <1>8, WaitingFrame DEF AuthInv
<1>13. Applying'
  BY <1>2 DEF Applying
<1>14. Unstarted'
  BY <1>2, <1>5 DEF AuthInv, Unstarted
<1>15. RulesKept'
  <2>1. Active' \subseteq Active
    BY <1>5 DEF Active
  <2> QED BY <1>1, <1>2, <2>1, RulesFrame DEF AuthInv
<1>16. EffectsWereAllowed'
  BY DEF EffectsWereAllowed, EffectsWereGranted, UnattendedWasUngated
<1> QED BY <1>9, <1>10, <1>11, <1>12, <1>13, <1>14, <1>15, <1>16 DEF AuthInv

\* A run ends when no process is running, blocked or waiting any more.
LEMMA RunEndsKeeps ==
    ASSUME AuthInv, RunEnds
    PROVE  AuthInv'
<1> USE DEF RunEnds
<1>1. con'.pc = "idle" /\ con'.todo = <<>> /\ con'.run = 0 /\ Todo' = {} /\ Todo = {}
  BY Zenon DEF Idle, Todo
<1>2. \A p \in Pids : child[p] = NoCap
  BY DEF AuthInv, Deriving
<1>3. pending = <<>>
  <2>1. pending \in Seq(Requests)
    BY DEF AuthInv, Types
  <2>2. \A i \in DOMAIN pending : pending[i] \in Requests
    BY <2>1
  <2>3. \A i \in DOMAIN pending : pending[i].pid \in Pids
    BY <2>2 DEF Requests
  <2>4. DOMAIN pending = {}
    BY <2>3 DEF AuthInv, Waiting
  <2> QED BY <2>1, <2>4
<1>4. con' \in [pc : {"idle", "grant", "apply", "done", "run"}, todo : Seq(Grant), run : Pids \cup {0}]
  BY DEF Idle
<1>5. Grows /\ TablesStay /\ Active' = Active
  BY DEF Grows, TablesStay, HasTable, Active
<1>6. Types'
  BY <1>1, <1>4 DEF AuthInv, Types
<1>7. Held'
  BY <1>5, HeldFrame DEF AuthInv
<1>8. Deriving'
  BY <1>2 DEF Deriving
<1>9. Waiting'
  BY <1>3, <1>5, WaitingFrame DEF AuthInv
<1>10. Applying'
  BY Zenon, <1>1 DEF Applying
<1>11. Unstarted'
  BY Zenon, <1>1 DEF AuthInv, Unstarted
<1>12. RulesKept'
  BY <1>1, <1>5, RulesFrame DEF AuthInv
<1>13. EffectsWereAllowed'
  BY <1>1, <1>5, EffectsFrame DEF AuthInv
<1> QED BY <1>6, <1>7, <1>8, <1>9, <1>10, <1>11, <1>12, <1>13 DEF AuthInv

\* reap clears the table of an exited process.
LEMMA ReapKeeps ==
    ASSUME AuthInv, NEW p \in Pids, CmdReap(p)
    PROVE  AuthInv'
<1> USE DEF CmdReap
<1>1. con.pc = "idle" /\ con.run = 0 /\ Todo = {} /\ Todo' = {}
  BY IdleConsole DEF Todo
<1>2. pending = <<>> /\ \A q \in Pids : child[q] = NoCap /\ procs[q] \notin {"running", "blocked", "waiting"}
  BY <1>1, OutsideRun
<1>3. tables \in [Pids -> Handles] /\ procs \in [Pids -> ProcStates]
  BY DEF AuthInv, Types, Handles
<1>4. /\ procs' \in [Pids -> ProcStates] /\ procs'[p] = "reaped"
      /\ \A q \in Pids : q # p => procs'[q] = procs[q]
  BY <1>3 DEF ProcStates
<1>5. /\ tables' \in [Pids -> Handles]
      /\ \A q \in Pids, h \in Slots : tables'[q][h] # NoCap => q # p /\ tables'[q][h] = tables[q][h]
  BY <1>3 DEF Handles, EmptyTable
<1>6. IsOffice(sc')
  BY Zenon, SpendKeepsOffice DEF Spend, AuthInv, Types
<1>7. Types'
  BY Zenon, <1>4, <1>5, <1>6 DEF AuthInv, Types, Handles
<1>8. Held'
  <2>1. ASSUME NEW q \in Pids, NEW h \in Slots, tables'[q][h] # NoCap
        PROVE  /\ Verify(tables'[q][h]) /\ HasTable(q)'
               /\ Backed(View(q, tables[q][h]))' /\ Shown(View(q, tables[q][h]))'
    <3>1. tables'[q][h] = tables[q][h] /\ procs'[q] = procs[q]
      BY Zenon, <1>4, <1>5, <2>1
    <3>2. HasTable(q) => HasTable(q)'
      BY Zenon, <3>1 DEF HasTable
    <3> QED BY Zenon, <2>1, <3>1, <3>2, StillHeld DEF AuthInv, Grows
  <2> QED BY Zenon, <2>1 DEF Held
<1>9. Deriving'
  BY Zenon, <1>2 DEF Deriving
<1>10. Waiting'
  BY <1>2, <1>4, WaitingFrame DEF AuthInv, Grows
<1>11. Applying'
  BY Zenon, <1>1 DEF Applying
<1>12. Unstarted'
  <2>1. "reaped" \notin {"ready", "running", "blocked", "waiting"}
    OBVIOUS
  <2>2. \A q \in Pids : procs'[q] \notin {"running", "blocked", "waiting"}
    BY Zenon, <1>2, <1>4, <2>1
  <2>3. \A q \in Pids, h \in Slots : procs'[q] = "ready" /\ tables'[q][h] # NoCap => tables'[q][h].perms # {}
    BY Zenon, <1>4, <1>5 DEF AuthInv, Unstarted
  <2> QED BY Zenon, <1>1, <2>2, <2>3 DEF Unstarted
<1>13. RulesKept'
  <2>1. Active' \subseteq Active
    BY <1>4 DEF Active
  <2>2. Grants(tables') \subseteq Grants(tables)
    BY Zenon, <1>5, GrantsShrink
  <2> QED BY Zenon, <1>1, <2>1, <2>2, RulesFrame DEF AuthInv
<1>14. EffectsWereAllowed'
  BY <1>1, EffectsFrame DEF AuthInv, Grows
<1> QED BY Zenon, <1>7, <1>8, <1>9, <1>10, <1>11, <1>12, <1>13, <1>14 DEF AuthInv

\* A command at once: it changes the policy, the pinned listing or the objects.
LEMMA IdleStep ==
    ASSUME AuthInv, con = Idle, Types', RulesKept',
           UNCHANGED <<procs, tables, child, con, pending, granted, reach, effects>>
    PROVE  AuthInv'
<1>1. con.pc = "idle" /\ con.run = 0 /\ Todo = {} /\ Todo' = {}
  BY IdleConsole DEF Todo
<1>2. Grows /\ TablesStay
  BY DEF Grows, TablesStay, HasTable
<1>3. Held'
  BY Zenon, <1>2, HeldFrame DEF AuthInv
<1>4. Deriving'
  BY DEF AuthInv, Deriving
<1>5. Waiting'
  <2>1. pending = <<>>
    BY <1>1, OutsideRun
  <2> QED BY <1>2, <2>1, WaitingFrame DEF AuthInv
<1>6. Applying'
  BY <1>1 DEF Applying
<1>7. Unstarted'
  BY DEF AuthInv, Unstarted
<1>8. EffectsWereAllowed'
  BY <1>1, <1>2, EffectsFrame DEF AuthInv
<1> QED BY <1>3, <1>4, <1>5, <1>6, <1>7, <1>8 DEF AuthInv

\* A command that leaves policy, listing and objects alone.
LEMMA IdleQuiet ==
    ASSUME AuthInv, con = Idle, Types',
           UNCHANGED <<procs, tables, child, con, live, policy, pinned, pending, granted, reach, effects>>
    PROVE  AuthInv'
<1>1. Todo' = Todo /\ Active' = Active
  BY DEF Todo, Active
<1>2. RulesKept'
  BY <1>1, RulesFrame DEF AuthInv
<1> QED BY <1>2, IdleStep

\* A handle names an object that exists or existed.
LEMMA HandleNamesMade ==
    ASSUME AuthInv, NEW g \in Grants(tables)
    PROVE  g.obj \in made
<1>1. Backed(g)
  BY GrantsMember DEF AuthInv, Held
<1>2. PICK a \in granted : Narrower(g, a)
  BY <1>1 DEF Backed
<1> QED BY <1>2 DEF Narrower, AuthInv, Types

\* An object that is gone has no kind, and fewer labels, as long as none is dropped.
LEMMA FewerLabels ==
    ASSUME NEW pol, LabelsFit(pol), NEW pins, \A k \in DOMAIN pins : pins[k] \subseteq Flags,
           NEW objs \in SUBSET Objects, NEW objs2 \in SUBSET objs, NEW o \in Objects
    PROVE  LabelsOf(pol, pins, objs2, o) \subseteq LabelsOf(pol, pins, objs, o)
<1>1. AllLabels(pol, pins, objs2, o) \subseteq AllLabels(pol, pins, objs, o)
  BY DEF AllLabels, Automatic, Attached
<1>2. objs2 \in SUBSET Objects
  BY Zenon
<1> QED BY Zenon, <1>1, <1>2, WholeLabels

\* Deleting an object leaves the handles to it in the tables.
LEMMA DeleteKeeps ==
    ASSUME AuthInv, NEW o, DeleteObject(o)
    PROVE  AuthInv'
<1> USE DEF DeleteObject
<1>1. IsOffice(sc')
  BY Zenon, SpendKeepsOffice DEF Spend, AuthInv, Types
<1>2. Types'
  BY <1>1 DEF AuthInv, Types
<1>3. RulesKept'
  <2> DEFINE G == Grants(tables)
  <2>1. Todo = {} /\ Todo' = {} /\ Active' = Active
    BY IdleConsole DEF Todo, Active
  <2>2. LabelsFit(policy) => Clean(policy, pinned, live, G, Active)
    BY <2>1 DEF AuthInv, RulesKept
  <2>3. ASSUME LabelsFit(policy), NEW h \in G
        PROVE  LabelsOf(policy, pinned, live', h.obj) \subseteq LabelsOf(policy, pinned, live, h.obj)
    <3>1. h.obj \in Objects /\ live \in SUBSET Objects /\ live' \in SUBSET live
      BY HandleNamesMade DEF AuthInv, Types
    <3>2. \A k \in DOMAIN pinned : pinned[k] \subseteq Flags
      BY Zenon DEF AuthInv, Types
    <3> QED BY Zenon, <2>3, <3>1, <3>2, FewerLabels
  <2>4. LabelsFit(policy) => Clean(policy, pinned, live', G, Active)
    <3> HIDE DEF G
    <3> QED BY Zenon, <2>2, <2>3, CoveredIsClean
  <2> QED BY <2>1, <2>4 DEF RulesKept
<1> QED BY <1>2, <1>3, IdleStep

\* policy begin and policy abort open and drop the batch, touching no table.
LEMMA BatchKeeps ==
    ASSUME AuthInv, PolicyBegin \/ PolicyAbort
    PROVE  AuthInv'
<1>1. IsOffice(sc')
  BY Zenon, SpendKeepsOffice DEF Spend, AuthInv, Types, PolicyBegin, PolicyAbort
<1>2. staged' \in [open : BOOLEAN, grants : Seq(Grant)] /\ Len(staged'.grants) <= BatchRoom
  <2>1. \E b \in BOOLEAN : staged' = [open |-> b, grants |-> <<>>]
    BY Zenon DEF PolicyBegin, PolicyAbort, NoBatch
  <2>2. <<>> \in Seq(Grant) /\ Len(<<>>) = 0
    BY SMTT(20)
  <2> QED BY <2>1, <2>2, AuthorityAssumption
<1>3. Types'
  BY Zenon, <1>1, <1>2 DEF AuthInv, Types, PolicyBegin, PolicyAbort
<1> QED BY <1>3, IdleQuiet DEF PolicyBegin, PolicyAbort

\* policy commit reviews the whole batch as one request.
LEMMA CommitKeeps ==
    ASSUME AuthInv, NEW answer, PolicyCommit(answer)
    PROVE  AuthInv'
<1> USE DEF PolicyCommit
<1>1. IsOffice(sc')
  BY Zenon, SpendKeepsOffice DEF Spend, AuthInv, Types
<1>2. staged' \in [open : BOOLEAN, grants : Seq(Grant)] /\ Len(staged'.grants) <= BatchRoom
  BY AuthorityAssumption DEF NoBatch
<1>3. con.pc = "idle" /\ con.run = 0
  BY IdleConsole
<1>4. CASE staged.grants # <<>> /\ \A i \in DOMAIN staged.grants : Proposed(staged.grants[i])
  <2>1. staged.grants \in Seq(Grant)
    BY Zenon DEF AuthInv, Types
  <2>2. ReviewGrants(staged.grants, con.run, answer)
    BY <1>3, <1>4
  <2> QED BY Zenon, <1>1, <1>2, <1>3, <1>4, <2>1, <2>2, ReviewKeeps
<1>5. CASE ~(staged.grants # <<>> /\ \A i \in DOMAIN staged.grants : Proposed(staged.grants[i]))
  <2>1. UNCHANGED <<con, granted, reach>>
    BY <1>5
  <2>2. Types'
    BY <1>1, <1>2, <2>1 DEF AuthInv, Types
  <2> QED BY <2>1, <2>2, IdleQuiet
<1> QED BY <1>4, <1>5

\* policy_edit: the candidate is checked against every handle.
LEMMA EditKeeps ==
    ASSUME AuthInv, NEW e, NEW answer, PolicyEdit(e, answer)
    PROVE  AuthInv'
<1> USE DEF PolicyEdit
<1>1. IsOffice(sc')
  BY Zenon, SpendKeepsOffice DEF Spend, AuthInv, Types
<1>2. policy' = [rules |-> policy'.rules, labels |-> policy'.labels]
  BY Zenon DEF AuthInv, Types, Candidate
<1>3. Types'
  BY <1>1, <1>2 DEF AuthInv, Types
<1>4. RulesKept'
  <2>1. con.pc = "idle" /\ Todo' = {} /\ Active' = Active
    BY IdleConsole DEF Todo, Active
  <2>2. Violations(policy', pinned, live, Grants(tables)) = {}
    BY DEF Editable
  <2>3. Grants(tables) \cup {} = Grants(tables)
    OBVIOUS
  <2>4. Clean(policy', pinned, live, Grants(tables), Active)
    BY <2>1, <2>2, <2>3, NoneIsClean
  <2> QED BY Zenon, <2>1, <2>3, <2>4 DEF RulesKept
<1> QED BY <1>3, <1>4, IdleStep

\* Turning the review on or off, or a new session of the link, changes no grant.
LEMMA SettingsKeep ==
    ASSUME AuthInv, (\E on \in BOOLEAN : SetReview(on)) \/ LinkSecure
    PROVE  AuthInv'
<1>1. IsOffice(sc')
  BY Zenon, SpendKeepsOffice DEF Spend, AuthInv, Types, SetReview, LinkSecure
<1>2. Types'
  BY <1>1 DEF AuthInv, Types, SetReview, LinkSecure
<1> QED BY <1>2, IdleQuiet DEF SetReview, LinkSecure

\* An object just created has an identifier no earlier one had.
LEMMA NewObjectsAreNew ==
    ASSUME NEW ks
    PROVE  NewObjects(ks) \subseteq Objects \ made
BY DEF NewObjects

\* review_listing: the handles held are judged with the new attributes, and the
\* objects made for it are nobody's yet.
LEMMA ListingKeeps ==
    ASSUME AuthInv, NEW listing, NEW answer, ReviewListing(listing, answer),
           \A k \in DOMAIN listing : listing[k] \subseteq Flags
    PROVE  AuthInv'
<1> USE DEF ReviewListing
<1> DEFINE accepted == DOMAIN listing # Same(listing) /\ ~sc.broken /\ ListingPasses(listing) /\ Confirm(answer)
           new == NewObjects(DOMAIN listing \ Same(listing))
           G == Grants(tables)
<1>1. IsOffice(sc')
  BY Zenon, SpendKeepsOffice DEF Spend, AuthInv, Types
<1>2. CASE ~accepted
  <2>1. confirmed' = confirmed \cup Same(listing) /\ UNCHANGED <<pinned, live, made>>
    BY Zenon, <1>2
  <2>2. Types'
    BY Zenon, <1>1, <2>1 DEF AuthInv, Types, Same
  <2> QED BY Zenon, <2>1, <2>2, IdleQuiet
<1>3. CASE accepted
  <2>1. /\ pinned' = Over(listing) /\ confirmed' = confirmed \cup DOMAIN listing
        /\ live' = live \cup new /\ made' = made \cup new
    BY <1>3
  <2>2. new \subseteq Objects \ made
    BY Zenon, NewObjectsAreNew
  <2>3. confirmed' \subseteq DOMAIN pinned' /\ \A k \in DOMAIN pinned' : pinned'[k] \subseteq Flags
    <3>1. /\ DOMAIN pinned' = DOMAIN pinned \cup DOMAIN listing
          /\ \A k \in DOMAIN pinned' : pinned'[k] = IF k \in DOMAIN listing THEN listing[k] ELSE pinned[k]
      BY Zenon, <2>1 DEF Over
    <3>2. confirmed \subseteq DOMAIN pinned /\ \A k \in DOMAIN pinned : pinned[k] \subseteq Flags
      BY Zenon DEF AuthInv, Types
    <3> QED BY <2>1, <3>1, <3>2
  <2>4. Types'
    <3> HIDE DEF new
    <3> QED BY Zenon, <1>1, <2>1, <2>2, <2>3 DEF AuthInv, Types
  <2>5. con.pc = "idle" /\ Todo' = {} /\ Active' = Active
    BY IdleConsole DEF Todo, Active
  <2>6. ASSUME LabelsFit(policy) PROVE Violations(policy, Over(listing), live, G) = {}
    BY <1>3, <2>6, RulesHoldNow DEF ListingPasses
  <2>7. LabelsFit(policy) => Clean(policy, Over(listing), live, G, Active)
    <3>1. Grants(tables) \cup {} = Grants(tables)
      BY Zenon
    <3> QED BY <2>5, <2>6, <3>1, NoneIsClean
  <2>8. \A h \in G : LabelsOf(policy, Over(listing), live', h.obj) \subseteq LabelsOf(policy, Over(listing), live, h.obj)
    <3> SUFFICES ASSUME NEW h \in G
                 PROVE  LabelsOf(policy, Over(listing), live', h.obj) \subseteq LabelsOf(policy, Over(listing), live, h.obj)
      OBVIOUS
    <3>1. h.obj \in made
      BY HandleNamesMade
    <3>2. h.obj \in live' <=> h.obj \in live
      BY Zenon, <2>1, <2>2, <3>1
    <3>3. /\ Automatic(Over(listing), live', h.obj) = Automatic(Over(listing), live, h.obj)
          /\ Attached(policy, live', h.obj) = Attached(policy, live, h.obj)
      BY <3>2 DEF Automatic, Attached
    <3> QED BY Zenon, <3>3 DEF LabelsOf, AllLabels, LabelsUpTo
  <2>9. LabelsFit(policy) => Clean(policy, pinned', live', G, Active)
    <3> HIDE DEF G, new
    <3> QED BY Zenon, <2>1, <2>7, <2>8, CoveredIsClean
  <2>10. RulesKept'
    BY <2>5, <2>9 DEF RulesKept
  <2> QED BY <2>4, <2>10, IdleStep
<1> QED BY <1>2, <1>3

-----------------------------------------------------------------------------
(* What agents do in a run. *)

\* The processes that move are in the run, and stay in it or exit.
ProcsMove ==
    \A p \in Pids : procs'[p] # procs[p] =>
        /\ procs[p] \in {"running", "blocked", "waiting"} /\ child[p] = NoCap
        /\ procs'[p] \in {"running", "blocked", "waiting", "exited"}

\* What no step of a run touches.
RunFrame ==
    /\ con.pc = "run" /\ IsOffice(sc')
    /\ UNCHANGED <<con, policy, pinned, live, made, staged, confirmed, granted, reach>>

\* A system call comes from a running process of a run.
LEMMA CallIsInRun ==
    ASSUME AuthInv, NEW p \in Pids, Calls(p)
    PROVE  con.pc = "run" /\ IsOffice(sc') /\ procs[p] = "running" /\ child[p] = NoCap
BY Zenon, SpendKeepsOffice DEF Calls, AuthInv, Types

\* A step of a run that changes tables as Held' and RulesKept' allow.
LEMMA TableStep ==
    ASSUME AuthInv, RunFrame, UNCHANGED <<procs, pending, effects>>,
           tables' \in [Pids -> Handles], child' \in [Pids -> Cap \cup {NoCap}],
           \A p \in Pids : tables'[p] # tables[p] => procs[p] = "running",
           Held', Deriving', RulesKept'
    PROVE  AuthInv'
<1> USE DEF RunFrame
<1>1. Todo' = {} /\ Grows
  BY Zenon DEF Todo, Grows
<1>2. Types'
  BY Zenon DEF AuthInv, Types, Handles
<1>3. Waiting'
  BY <1>1, WaitingFrame DEF AuthInv
<1>4. Applying'
  BY Zenon, <1>1 DEF Applying
<1>5. Unstarted'
  <2>1. ASSUME NEW p \in Pids, NEW h \in Slots, procs'[p] = "ready", tables'[p][h] # NoCap
        PROVE  tables'[p][h].perms # {}
    <3>1. procs[p] = "ready" /\ tables'[p] = tables[p]
      BY Zenon, <2>1
    <3> QED BY Zenon, <2>1, <3>1 DEF AuthInv, Unstarted
  <2> QED BY Zenon, <2>1 DEF AuthInv, Unstarted
<1>6. EffectsWereAllowed'
  BY <1>1, EffectsFrame DEF AuthInv
<1> QED BY Zenon, <1>2, <1>3, <1>4, <1>5, <1>6 DEF AuthInv

\* A step of a run that leaves the tables alone.
LEMMA RunStep ==
    ASSUME AuthInv, RunFrame, UNCHANGED <<tables, child>>,
           procs' \in [Pids -> ProcStates], ProcsMove,
           pending' \in Seq(Requests), Len(pending') <= PendingRoom,
           Waiting', EffectsWereAllowed'
    PROVE  AuthInv'
<1> USE DEF RunFrame
<1>1. Todo' = {} /\ Todo = {} /\ Grows
  BY DEF Todo, Grows
<1>2. Types'
  BY Zenon DEF AuthInv, Types
<1>3. TablesStay
  BY Zenon DEF TablesStay, HasTable, ProcsMove
<1>4. Held'
  BY <1>1, <1>3, HeldFrame DEF AuthInv
<1>5. Deriving'
  <2>1. \A p \in Pids : child[p] # NoCap => con'.pc = "run" /\ procs'[p] = "running"
    BY DEF AuthInv, Deriving, ProcsMove
  <2> QED BY Zenon, <2>1, DerivingFrame DEF AuthInv
<1>6. Applying'
  BY Zenon, <1>1 DEF Applying
<1>7. Unstarted'
  BY DEF AuthInv, Unstarted, ProcsMove
<1>8. RulesKept'
  <2>1. Active' \subseteq Active
    BY Zenon DEF Active, ProcsMove
  <2> QED BY <1>1, <2>1, RulesFrame DEF AuthInv
<1> QED BY Zenon, <1>2, <1>4, <1>5, <1>6, <1>7, <1>8 DEF AuthInv

\* sys_cap_derive, first lock: the narrower token is made and not yet in the table.
LEMMA DeriveKeeps ==
    ASSUME AuthInv, NEW p \in Pids, NEW h \in Slots, NEW mask \in sc.masks, CapDerive(p, h, mask)
    PROVE  AuthInv'
<1> USE DEF CapDerive
<1> DEFINE d == Attenuate(tables[p][h], mask)
<1>1. con.pc = "run" /\ IsOffice(sc') /\ procs[p] = "running" /\ RunFrame
  BY Zenon, CallIsInRun DEF RunFrame
<1>2. tables \in [Pids -> Handles] /\ child \in [Pids -> Cap \cup {NoCap}] /\ mask \in SUBSET Permission
  BY Zenon DEF AuthInv, Types, Handles, IsOffice
<1>3. tables[p][h] \in Cap
  BY Zenon, <1>2 DEF Handles
<1>4. d \in Cap /\ Narrower(View(p, d), View(p, tables[p][h]))
  BY Zenon, <1>2, <1>3, DerivedIsNarrower
<1> HIDE DEF d
<1>5. /\ child' \in [Pids -> Cap \cup {NoCap}] /\ child'[p] = d
      /\ \A q \in Pids : q # p => child'[q] = child[q]
  BY Zenon, <1>2, <1>4 DEF d
<1>6. Held'
  BY Zenon, HeldFrame DEF AuthInv, Grows, TablesStay, HasTable
<1>7. Deriving'
  BY Zenon, <1>1, <1>4, <1>5 DEF AuthInv, Deriving
<1>8. RulesKept'
  BY Zenon, RulesFrame DEF AuthInv, Active, Todo
<1> QED BY Zenon, <1>1, <1>2, <1>5, <1>6, <1>7, <1>8, TableStep

\* sys_cap_derive, second lock: the token goes into a free slot, if there is one.
LEMMA InsertKeeps ==
    ASSUME LowestIsFree, AuthInv, NEW p \in Pids, CapDeriveInsert(p)
    PROVE  AuthInv'
<1> USE DEF CapDeriveInsert
<1> DEFINE c == Issue(child[p])
<1>1. tables \in [Pids -> Handles] /\ child \in [Pids -> Cap \cup {NoCap}] /\ IsOffice(sc)
  BY Zenon DEF AuthInv, Types, Handles
<1>2. RunFrame /\ procs[p] = "running" /\ HasTable(p)
  BY Zenon, <1>1 DEF RunFrame, AuthInv, Deriving, HasTable
<1>3. PICK h \in Slots : tables[p][h] # NoCap /\ Narrower(View(p, child[p]), View(p, tables[p][h]))
  BY Zenon DEF AuthInv, Deriving
<1>4. c \in Cap /\ Verify(c) /\ View(p, c) = View(p, child[p])
  <2>1. child[p] \in Cap
    BY Zenon, <1>1
  <2> QED BY <2>1, IssueVerifies DEF View
<1> DEFINE v == View(p, c)
           w == View(p, tables[p][h])
<1>5. Narrower(v, w)
  BY Zenon, <1>3, <1>4
<1>6. w \in Grants(tables) /\ Backed(w) /\ Shown(w)
  BY Zenon, <1>3, GrantsMember DEF AuthInv, Held
<1>7. Backed(v) /\ Shown(v) /\ (Unattended(v) => Unattended(w))
  BY Zenon, <1>5, <1>6, BackedNarrower, ShownNarrower, UnattendedNarrower
<1>8. v.pid = p /\ w.pid = p /\ v.obj = w.obj
  BY Zenon, <1>5 DEF Narrower, View
<1> HIDE DEF c, v, w
<1>9. /\ tables' \in [Pids -> Handles]
      /\ \A q \in Pids, k \in Slots :
           \/ tables'[q][k] = tables[q][k]
           \/ q = p /\ tables[q][k] = NoCap /\ tables'[q][k] = c
  <2>1. CASE Free(tables[p]) = {}
    <3>1. tables' = tables
      BY Zenon, <2>1
    <3> QED BY Zenon, <1>1, <3>1
  <2>2. CASE Free(tables[p]) # {}
    <3>1. tables' = [tables EXCEPT ![p] = InsertCap(tables[p], c)]
      BY <2>2, <1>1 DEF c
    <3>2. tables[p] \in Handles
      BY <1>1
    <3>3. InsertCap(tables[p], c) \in Handles /\ Inserted(tables[p], c, InsertCap(tables[p], c))
      BY Zenon, <1>4, <2>2, <3>2, InsertIntoFree
    <3> QED BY <1>1, <3>1, <3>3 DEF Inserted
  <2> QED BY Zenon, <2>1, <2>2
<1>10. \A q \in Pids : tables'[q] # tables[q] => q = p
  BY <1>1, <1>9 DEF Handles
<1>11. /\ child' \in [Pids -> Cap \cup {NoCap}] /\ child'[p] = NoCap
       /\ \A q \in Pids : q # p => child'[q] = child[q]
  BY Zenon, <1>1
<1>12. Held'
  <2> SUFFICES ASSUME NEW q \in Pids, NEW k \in Slots, tables'[q][k] # NoCap
               PROVE  /\ Verify(tables'[q][k]) /\ HasTable(q)'
                      /\ Backed(View(q, tables[q][k]))' /\ Shown(View(q, tables[q][k]))'
    BY Zenon DEF Held
  <2>1. CASE tables'[q][k] = tables[q][k]
    <3>1. Held /\ Grows /\ (HasTable(q) => HasTable(q)')
      BY Zenon DEF AuthInv, Grows, HasTable
    <3> QED BY Zenon, <2>1, <3>1, StillHeld
  <2>2. CASE q = p /\ tables'[q][k] = c
    BY Zenon, <1>2, <1>4, <1>7, <2>2 DEF v, HasTable, Backed, Shown
  <2> QED BY Zenon, <1>9, <2>1, <2>2
<1>13. Deriving'
  <2> SUFFICES ASSUME NEW q \in Pids, child'[q] # NoCap
               PROVE  /\ con'.pc = "run" /\ procs'[q] = "running"
                      /\ \E k \in Slots : /\ tables'[q][k] # NoCap
                                          /\ Narrower(View(q, child'[q]), View(q, tables'[q][k]))
    BY DEF Deriving
  <2>1. q # p /\ child'[q] = child[q] /\ tables'[q] = tables[q]
    BY <1>10, <1>11
  <2> QED BY Zenon, <2>1 DEF AuthInv, Deriving
<1>14. RulesKept'
  <2> DEFINE G == Grants(tables)
             H == Grants(tables')
  <2>1. Todo = {} /\ Todo' = {} /\ Active' = Active /\ p \in Active
    BY Zenon, <1>2 DEF Todo, Active, RunFrame
  <2>2. LabelsFit(policy) => Clean(policy, pinned, live, G, Active)
    BY <2>1 DEF AuthInv, RulesKept
  <2>3. \A x \in H : x \in G \/ x = v
    <3> SUFFICES ASSUME NEW x \in H PROVE x \in G \/ x = v
      OBVIOUS
    <3> HIDE DEF CapDeriveInsert
    <3>1. PICK q \in Pids, k \in Slots : tables'[q][k] # NoCap /\ x = View(q, tables'[q][k])
      BY Zenon, GrantsMember
    <3>2. CASE tables'[q][k] = tables[q][k]
      BY Zenon, <3>1, <3>2, GrantsMember
    <3>3. CASE q = p /\ tables'[q][k] = c
      BY Zenon, <3>1, <3>3 DEF v
    <3> QED BY <1>9, <3>2, <3>3
  <2>4. \A x \in H : \E g \in G : /\ g.pid = x.pid /\ g.obj = x.obj
                                  /\ Counts(x, Active) => Counts(g, Active)
                                  /\ Unattended(x) => Unattended(g)
    <3> SUFFICES ASSUME NEW x \in H
                 PROVE  \E g \in G : /\ g.pid = x.pid /\ g.obj = x.obj
                                     /\ Counts(x, Active) => Counts(g, Active)
                                     /\ Unattended(x) => Unattended(g)
      OBVIOUS
    <3>1. CASE x \in G
      BY <3>1
    <3>2. CASE x = v
      <4>1. Counts(w, Active)
        BY Zenon, <1>8, <2>1 DEF Counts
      <4> QED BY Zenon, <1>6, <1>7, <1>8, <3>2, <4>1
    <3> QED BY Zenon, <2>3, <3>1, <3>2
  <2> HIDE DEF G, H
  <2>5. LabelsFit(policy) => Clean(policy, pinned, live, H, Active)
    BY Zenon, <2>2, <2>4, CoveredIsClean
  <2> QED BY Zenon, <2>1, <2>5 DEF RulesKept, H
<1> QED BY Zenon, <1>2, <1>9, <1>10, <1>11, <1>12, <1>13, <1>14, TableStep

\* cap_drop empties a slot of the caller's own table.
LEMMA DropKeeps ==
    ASSUME AuthInv, NEW p \in Pids, NEW h \in Slots, CapDrop(p, h)
    PROVE  AuthInv'
<1> USE DEF CapDrop
<1>1. con.pc = "run" /\ IsOffice(sc') /\ procs[p] = "running" /\ child[p] = NoCap /\ RunFrame
  BY Zenon, CallIsInRun DEF RunFrame
<1>2. tables \in [Pids -> Handles] /\ child \in [Pids -> Cap \cup {NoCap}]
  BY DEF AuthInv, Types, Handles
<1>3. tables' = [tables EXCEPT ![p] = [tables[p] EXCEPT ![h] = NoCap]]
  BY <1>2
<1>4. tables' \in [Pids -> Handles]
  <2>1. [tables[p] EXCEPT ![h] = NoCap] \in Handles
    BY <1>2 DEF Handles
  <2> QED BY Zenon, <1>2, <1>3, <2>1
<1>5. /\ \A q \in Pids : q # p => tables'[q] = tables[q]
      /\ \A q \in Pids, k \in Slots : tables'[q][k] # NoCap => tables'[q][k] = tables[q][k]
  <2> HIDE DEF CapDrop
  <2>1. tables'[p] = [tables[p] EXCEPT ![h] = NoCap] /\ \A q \in Pids : q # p => tables'[q] = tables[q]
    BY Zenon, <1>2, <1>3
  <2>2. tables[p] \in [Slots -> Cap \cup {NoCap}]
    BY Zenon, <1>2 DEF Handles
  <2>3. \A k \in Slots : tables'[p][k] # NoCap => tables'[p][k] = tables[p][k]
    BY Zenon, <2>1, <2>2
  <2> QED BY Zenon, <2>1, <2>3
<1>6. Held'
  <2> SUFFICES ASSUME NEW q \in Pids, NEW k \in Slots, tables'[q][k] # NoCap
               PROVE  /\ Verify(tables'[q][k]) /\ HasTable(q)'
                      /\ Backed(View(q, tables[q][k]))' /\ Shown(View(q, tables[q][k]))'
    BY Zenon DEF Held
  <2>1. Held /\ Grows /\ (HasTable(q) => HasTable(q)')
    BY Zenon DEF AuthInv, Grows, HasTable
  <2> QED BY Zenon, <1>5, <2>1, StillHeld
<1>7. Deriving'
  BY <1>1, <1>5 DEF AuthInv, Deriving
<1>8. RulesKept'
  <2>1. Grants(tables') \subseteq Grants(tables)
    <3> HIDE DEF CapDrop
    <3>1. \A q \in Pids, k \in Slots : tables'[q][k] # NoCap => tables'[q][k] = tables[q][k]
      BY Zenon, <1>5
    <3> QED BY Zenon, <3>1, GrantsShrink
  <2>2. Todo' = Todo /\ Active' = Active
    BY DEF Todo, Active
  <2> QED BY Zenon, <2>1, <2>2, RulesFrame DEF AuthInv
<1> QED BY Zenon, <1>1, <1>2, <1>4, <1>5, <1>6, <1>7, <1>8, TableStep

=============================================================================
