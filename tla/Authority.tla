------------------------------- MODULE Authority -------------------------------
(* What an agent may reach: capability tokens and handle tables (agent.rs,     *)
(* capability.rs), the policy and the review of every change to it             *)
(* (policy.rs), and what agents then do through their handles.                 *)
(*                                                                             *)
(* The console and the agents alternate: a command holds the kernel until it   *)
(* is over, and run_scheduled returns only when every agent it started has     *)
(* exited.  Inside a run the agents, one per CPU, and the CPU that applies     *)
(* approvals interleave; each lock of the code is one step.                    *)
EXTENDS Integers, Sequences, FiniteSets

CONSTANTS
    Pids,           \* 1 .. the number of processes ever spawned
    Slots,          \* 1 .. MAX_HANDLES (16)
    Objects,        \* object ids
    Kinds,          \* object kinds: names, tool:..., model:..., peer:...
    KindOf,         \* the kind each object is created with
    Prefix,         \* labels a kind carries by its prefix: tool, model, peer
    QueueRoom,      \* messages an object holds (8)
    PendingRoom,    \* MAX_PENDING (8)
    BatchRoom,      \* grants a batch holds (16)
    RuleRoom,       \* MAX_RULES (16)
    LabelRoom,      \* MAX_LABELS (32)
    LabelCap,       \* labels of one object that are kept (12)
    Offices         \* the scenarios: boot policy, and what is asked of it

ASSUME AuthorityAssumption ==
    /\ Pids \subseteq Nat \ {0} /\ Slots \subseteq Nat
    /\ KindOf \in [Objects -> Kinds] /\ DOMAIN Prefix = Kinds
    /\ "none" \notin Objects /\ PendingRoom \in Nat /\ BatchRoom \in Nat

Permission == {"read", "write", "execute", "send", "receive", "delete", "approval"}
Effect == {"execute", "send", "write", "delete"}   \* EFFECT_MASK
Gate == "approval"                                  \* RequiresApproval: a constraint
Flags == {"credential", "remote"}                  \* what a listing says of a tool

\* A scenario is a record of what may be asked: a grant names an
\* object and at least one permission, as parse_permissions demands; a derivation
\* may ask for any set of them.
IsOffice(s) ==
    /\ s = [rules |-> s.rules, labels |-> s.labels, objects |-> s.objects, grants |-> s.grants,
            masks |-> s.masks, edits |-> s.edits, listings |-> s.listings, signed |-> s.signed,
            broken |-> s.broken, ops |-> s.ops, commands |-> s.commands, calls |-> s.calls]
    /\ s.objects \subseteq Objects
    /\ s.grants \subseteq Objects \X ((SUBSET Permission) \ {{}}) /\ s.masks \subseteq SUBSET Permission
    /\ \A listing \in s.listings : \A k \in DOMAIN listing : listing[k] \subseteq Flags

ASSUME OfficesAssumption == \A s \in Offices : IsOffice(s)

VARIABLES
    sc,         \* the scenario, with the commands and calls still to come
    procs,      \* each process: none, ready, running, blocked on a human or
                \* waiting for a tool, exited, reaped
    tables,     \* TABLES: the handles of each process
    child,      \* the token a cap_derive holds between its two locks
    live,       \* objects in the kernel's table
    made,       \* ids given out: generate_id never gives one twice
    mail,       \* messages waiting in each object
    policy,     \* STATE.policy: rules and labels
    review,     \* STATE.review
    staged,     \* STATE.staged: the open batch, if any
    pinned,     \* MANIFEST: approved listing, kind -> flags
    confirmed,  \* kinds of MANIFEST confirmed in this session
    con,        \* the console's command: where it is, grants still to apply
    pending,    \* PENDING, oldest first
    granted,    \* history: grants that passed review
    reach,      \* history: lines of the reach diffs that were applied
    effects     \* history: what agents did in this run

authVars == <<sc, procs, tables, child, live, made, mail, policy, review, staged, pinned,
              confirmed, con, pending, granted, reach, effects>>

-----------------------------------------------------------------------------
(* Tokens. *)

NoProof == <<>>
NoCap == [obj |-> "none", perms |-> {}, proof |-> NoProof]

\* signable_digest covers the object and the permissions; the issuer signs it.
Issue(c) == [c EXCEPT !.proof = <<c.obj, c.perms>>]
Verify(c) == c.proof = <<c.obj, c.perms>>

\* Mutant: the approval constraint goes like any permission.
AttenuateDropsGate(parent, mask) == [parent EXCEPT !.perms = mask, !.proof = NoProof]

\* HandleTable::attenuate, for a mask that asks for nothing the parent lacks:
\* the gate is inherited and may be added; every change clears the proof.
Attenuate(parent, mask) ==
    [parent EXCEPT !.perms = mask \cup (parent.perms \cap {Gate}), !.proof = NoProof]

Escalates(parent, mask) == ~(mask \ {Gate} \subseteq parent.perms)

-----------------------------------------------------------------------------
(* Handle tables. *)

EmptyTable == [h \in Slots |-> NoCap]
HasTable(p) == procs[p] \notin {"none", "reaped"}
Free(t) == {h \in Slots : t[h] = NoCap}

\* The lowest free slot.
Lowest(t) == CHOOSE h \in Free(t) : \A k \in Free(t) : h <= k

\* HandleTable::insert, into a table with a free slot.
InsertCap(t, c) == [t EXCEPT ![Lowest(t)] = c]

\* current_grants: every handle every agent holds, as policy sees it.
Grants(tab) ==
    {[pid |-> x[1], obj |-> tab[x[1]][x[2]].obj, mask |-> tab[x[1]][x[2]].perms] :
        x \in {y \in Pids \X Slots : tab[y[1]][y[2]] # NoCap}}

-----------------------------------------------------------------------------
(* The policy: labels, rules and the reach diff. *)

Deny(l) == [rule |-> "deny", a |-> l, b |-> l]
Approval(l) == [rule |-> "approval", a |-> l, b |-> l]
Separate(a, b) == [rule |-> "separate", a |-> a, b |-> b]

\* The labels of an object's kind and listing; an object that is gone has no kind.
Automatic(pins, objs, o) ==
    IF o \in objs
    THEN Prefix[KindOf[o]] \cup (IF KindOf[o] \in DOMAIN pins THEN pins[KindOf[o]] ELSE {})
    ELSE {}

\* The places in the operator's list of labels that are about this object.
Attached(pol, objs, o) ==
    {i \in DOMAIN pol.labels : pol.labels[i][1] = o \/ (o \in objs /\ pol.labels[i][1] = KindOf[o])}

LabelsUpTo(pol, pins, objs, o, k) ==
    Automatic(pins, objs, o) \cup {pol.labels[i][2] : i \in {j \in Attached(pol, objs, o) : j <= k}}

AllLabels(pol, pins, objs, o) ==
    Automatic(pins, objs, o) \cup {pol.labels[i][2] : i \in Attached(pol, objs, o)}

\* Policy::labels_of: a list of LabelCap, filled with the automatic labels and then
\* in the operator's order; what does not fit is dropped.
LabelsOf(pol, pins, objs, o) ==
    IF Cardinality(AllLabels(pol, pins, objs, o)) <= LabelCap THEN AllLabels(pol, pins, objs, o)
    ELSE UNION {LabelsUpTo(pol, pins, objs, o, k) :
                  k \in {j \in 0..Len(pol.labels) : Cardinality(LabelsUpTo(pol, pins, objs, o, j)) <= LabelCap}}

Has(pol, pins, objs, g, l) == l \in LabelsOf(pol, pins, objs, g.obj)

Denied(pol, pins, objs, G, r) ==
    {<<"denied", g.pid, g.obj, r.a>> : g \in {x \in G : x.mask # {} /\ Has(pol, pins, objs, x, r.a)}}

NeedsApproval(pol, pins, objs, G, r) ==
    {<<"needs approval", g.pid, g.obj, r.a>> :
        g \in {x \in G : x.mask \cap Effect # {} /\ Gate \notin x.mask /\ Has(pol, pins, objs, x, r.a)}}

Separated(pol, pins, objs, G, r) ==
    {<<"separated", g.pid, r.a, r.b>> :
        g \in {x \in G : /\ x.mask # {} /\ Has(pol, pins, objs, x, r.a)
                         /\ \E y \in G : y.pid = x.pid /\ y.mask # {} /\ Has(pol, pins, objs, y, r.b)}}

\* Policy::violations.
Violations(pol, pins, objs, G) ==
    UNION {IF r.rule = "deny" THEN Denied(pol, pins, objs, G, r)
           ELSE IF r.rule = "approval" THEN NeedsApproval(pol, pins, objs, G, r)
           ELSE Separated(pol, pins, objs, G, r) : r \in pol.rules}

Masks(G, p, o) == UNION {g.mask : g \in {x \in G : x.pid = p /\ x.obj = o}}
Ungated(G, p, o) ==
    \E g \in G : g.pid = p /\ g.obj = o /\ Gate \notin g.mask /\ g.mask \cap Effect # {}

\* Mutant: only permissions not held before are new reach.
NewReachByMask(before, after, p, o) == (Masks(after, p, o) \ Masks(before, p, o)) \ {Gate} # {}

\* An ungated handle where only gated ones existed is also new reach.
NewReach(before, after, p, o) ==
    \/ (Masks(after, p, o) \ Masks(before, p, o)) \ {Gate} # {}
    \/ Ungated(after, p, o) /\ ~Ungated(before, p, o)

Change(before, after, p, o) ==
    LET added == (Masks(after, p, o) \ Masks(before, p, o)) \ {Gate}
    IN [pid |-> p, obj |-> o,
        perms |-> IF added # {} THEN added ELSE Masks(after, p, o) \cap Effect,
        gated |-> ~Ungated(after, p, o)]

\* diff: what `after` grants beyond `before`, per process and object.
Diff(before, after) ==
    {Change(before, after, x[1], x[2]) :
        x \in {y \in {<<g.pid, g.obj>> : g \in after} : NewReach(before, after, y[1], y[2])}}

\* confirm: the operator answers, by a typed y or by signatures, unless review
\* is off; with operator keys pinned it always takes signatures.
Confirm(answer) == answer \/ (~review /\ ~sc.signed)

\* Mutant: the rules are checked against the proposal alone.
PassesAlone(pol, pins, objs, before, proposed) == Violations(pol, pins, objs, proposed) = {}

\* review_grants: a proposal that breaks a rule no handle breaks yet is refused.
Passes(pol, pins, objs, before, proposed) ==
    Violations(pol, pins, objs, before \cup proposed) \subseteq Violations(pol, pins, objs, before)

-----------------------------------------------------------------------------
(* Console commands.  con.pc: idle, or a command's grants being applied. *)

\* run: the process to run once the command is over, 0 for none.
Idle == [pc |-> "idle", todo |-> <<>>, run |-> 0]
NoBatch == [open |-> FALSE, grants |-> <<>>]

Spend == sc.commands > 0 /\ sc' = [sc EXCEPT !.commands = @ - 1]

\* register and create_table; `spawn`, or `exec` with a grant and a run to follow.
CmdSpawn(p, g, run) ==
    /\ con = Idle /\ Spend
    /\ procs[p] = "none" /\ \A q \in Pids : q < p => procs[q] # "none"
    /\ procs' = [procs EXCEPT ![p] = "ready"]
    /\ tables' = [tables EXCEPT ![p] = EmptyTable]
    /\ con' = [pc |-> "grant", todo |-> g, run |-> IF run THEN p ELSE 0]
    /\ UNCHANGED <<child, live, made, mail, policy, review, staged, pinned, confirmed, pending,
                   granted, reach, effects>>

Proposed(g) == HasTable(g.pid) /\ g.obj \in live

\* review_grants for every grant of gs, then what is left to do: apply them.
ReviewGrants(gs, run, answer) ==
    LET before == Grants(tables)
        proposed == {gs[i] : i \in DOMAIN gs}
        ok == /\ ~sc.broken /\ Passes(policy, pinned, live, before, proposed)
              /\ Confirm(answer)
    IN  /\ con' = IF ok THEN [pc |-> "apply", todo |-> gs, run |-> run]
                        ELSE [pc |-> "done", todo |-> <<>>, run |-> run]
        /\ granted' = IF ok THEN granted \cup proposed ELSE granted
        /\ reach' = IF ok THEN reach \cup Diff(before, before \cup proposed) ELSE reach

\* grant_handle: staged while a batch is open, else reviewed.
GrantHandle(g, run, answer) ==
    IF staged.open
    THEN /\ staged' = IF Len(staged.grants) < BatchRoom
                      THEN [staged EXCEPT !.grants = Append(@, g)] ELSE staged
         /\ con' = [pc |-> "done", todo |-> <<>>, run |-> run]
         /\ UNCHANGED <<granted, reach>>
    ELSE /\ UNCHANGED staged
         /\ IF Proposed(g) THEN ReviewGrants(<<g>>, run, answer)
            ELSE /\ con' = [pc |-> "done", todo |-> <<>>, run |-> run]
                 /\ UNCHANGED <<granted, reach>>

CmdGrant(g, answer) ==
    /\ con = Idle /\ Spend
    /\ GrantHandle(g, 0, answer)
    /\ UNCHANGED <<procs, tables, child, live, made, mail, policy, review, pinned, confirmed,
                   pending, effects>>

\* The grant `exec` or `spawn` names, if it names one.
SpawnGrant(answer) ==
    /\ con.pc = "grant"
    /\ IF con.todo = <<>>
       THEN con' = [con EXCEPT !.pc = "done"] /\ UNCHANGED <<staged, granted, reach>>
       ELSE GrantHandle(con.todo[1], con.run, answer)
    /\ UNCHANGED <<sc, procs, tables, child, live, made, mail, policy, review, pinned, confirmed,
                   pending, effects>>

\* apply_grant, one after the other; a full table loses only that grant.
ApplyGrant ==
    /\ con.pc = "apply"
    /\ LET g == Head(con.todo)
           t == tables[g.pid]
       IN tables' = IF Free(t) = {} THEN tables
                    ELSE [tables EXCEPT ![g.pid] =
                            InsertCap(t, Issue([obj |-> g.obj, perms |-> g.mask, proof |-> NoProof]))]
    /\ con' = IF Len(con.todo) = 1 THEN [con EXCEPT !.pc = "done", !.todo = <<>>]
              ELSE [con EXCEPT !.todo = Tail(@)]
    /\ UNCHANGED <<sc, procs, child, live, made, mail, policy, review, staged, pinned, confirmed,
                   pending, granted, reach, effects>>

CommandEnds ==
    /\ con.pc = "done" /\ con.run = 0
    /\ con' = Idle
    /\ UNCHANGED <<sc, procs, tables, child, live, made, mail, policy, review, staged, pinned,
                   confirmed, pending, granted, reach, effects>>

Ready == {p \in Pids : procs[p] = "ready"}

\* run_deferred: `exec` runs the process it spawned, `run-all` every ready one.
RunScheduled ==
    /\ \/ con.pc = "done" /\ con.run # 0 /\ UNCHANGED sc
       \/ con = Idle /\ Ready # {} /\ Spend
    /\ procs' = [p \in Pids |-> IF p = con.run \/ (con = Idle /\ p \in Ready)
                               THEN "running" ELSE procs[p]]
    /\ con' = [Idle EXCEPT !.pc = "run"]
    /\ effects' = {}
    /\ UNCHANGED <<tables, child, live, made, mail, policy, review, staged, pinned, confirmed,
                   pending, granted, reach>>

RunEnds ==
    /\ con.pc = "run" /\ \A p \in Pids : procs[p] \notin {"running", "blocked", "waiting"}
    /\ con' = Idle
    /\ UNCHANGED <<sc, procs, tables, child, live, made, mail, policy, review, staged, pinned,
                   confirmed, pending, granted, reach, effects>>

\* reap: only an exited process, and its handles with it.
CmdReap(p) ==
    /\ con = Idle /\ Spend /\ procs[p] = "exited"
    /\ procs' = [procs EXCEPT ![p] = "reaped"]
    /\ tables' = [tables EXCEPT ![p] = EmptyTable]
    /\ UNCHANGED <<child, live, made, mail, policy, review, staged, pinned, confirmed, con, pending,
                   granted, reach, effects>>

DeleteObject(o) ==
    /\ con = Idle /\ Spend /\ o \in live
    /\ live' = live \ {o}
    /\ mail' = [mail EXCEPT ![o] = 0]
    /\ UNCHANGED <<procs, tables, child, made, policy, review, staged, pinned, confirmed, con,
                   pending, granted, reach, effects>>

PolicyBegin ==
    /\ con = Idle /\ Spend /\ ~staged.open
    /\ staged' = [open |-> TRUE, grants |-> <<>>]
    /\ UNCHANGED <<procs, tables, child, live, made, mail, policy, review, pinned, confirmed, con,
                   pending, granted, reach, effects>>

PolicyAbort ==
    /\ con = Idle /\ Spend /\ staged.open
    /\ staged' = NoBatch
    /\ UNCHANGED <<procs, tables, child, live, made, mail, policy, review, pinned, confirmed, con,
                   pending, granted, reach, effects>>

\* policy_commit: the batch is taken, whatever becomes of it.
PolicyCommit(answer) ==
    /\ con = Idle /\ Spend /\ staged.open
    /\ staged' = NoBatch
    /\ IF staged.grants # <<>> /\ \A i \in DOMAIN staged.grants : Proposed(staged.grants[i])
       THEN ReviewGrants(staged.grants, 0, answer)
       ELSE UNCHANGED <<con, granted, reach>>
    /\ UNCHANGED <<procs, tables, child, live, made, mail, policy, review, pinned, confirmed,
                   pending, effects>>

-----------------------------------------------------------------------------
(* Changes to the policy itself. *)

\* The candidate policy of an edit, or the policy as it is where the edit fails.
Candidate(e) ==
    CASE e.op = "add rule" /\ e.what \notin policy.rules /\ Cardinality(policy.rules) < RuleRoom ->
            [policy EXCEPT !.rules = @ \cup {e.what}]
      [] e.op = "del rule" -> [policy EXCEPT !.rules = @ \ {e.what}]
      [] e.op = "label" /\ (\A i \in DOMAIN policy.labels : policy.labels[i] # e.what)
           /\ Len(policy.labels) < LabelRoom -> [policy EXCEPT !.labels = Append(@, e.what)]
      [] e.op = "unlabel" -> [policy EXCEPT !.labels = SelectSeq(@, LAMBDA x : x # e.what)]
      [] OTHER -> policy

Editable(cand) == Violations(cand, pinned, live, Grants(tables)) = {}

PolicyEdit(e, answer) ==
    /\ con = Idle /\ Spend /\ ~sc.broken
    /\ Candidate(e) # policy /\ Editable(Candidate(e)) /\ Confirm(answer)
    /\ policy' = Candidate(e)
    /\ UNCHANGED <<procs, tables, child, live, made, mail, review, staged, pinned, confirmed, con,
                   pending, granted, reach, effects>>

\* set_review: not off while operator keys are pinned.
SetReview(on) ==
    /\ con = Idle /\ Spend /\ (on \/ ~sc.signed) /\ review # on
    /\ review' = on
    /\ UNCHANGED <<procs, tables, child, live, made, mail, policy, staged, pinned, confirmed, con,
                   pending, granted, reach, effects>>

-----------------------------------------------------------------------------
(* The gateway's listing. *)

\* link-secure: a new session, in which nothing is confirmed yet.
LinkSecure ==
    /\ con = Idle /\ Spend /\ confirmed # {}
    /\ confirmed' = {}
    /\ UNCHANGED <<procs, tables, child, live, made, mail, policy, review, staged, pinned, con,
                   pending, granted, reach, effects>>

Same(listing) == {k \in DOMAIN listing \cap DOMAIN pinned : listing[k] = pinned[k]}

\* The listing's attributes over the pinned ones.
Over(listing) ==
    [k \in DOMAIN pinned \cup DOMAIN listing |->
        IF k \in DOMAIN listing THEN listing[k] ELSE pinned[k]]

\* The same handles, seen with the listing's new attributes, break no more rules.
ListingPasses(listing) ==
    LET G == Grants(tables)
    IN Violations(policy, Over(listing), live, G) \subseteq Violations(policy, pinned, live, G)

\* register_object for each of ks that names no object yet.
NewObjects(ks) ==
    {(CHOOSE o \in Objects \ made : KindOf[o] = k) :
        k \in {x \in ks : /\ \A y \in live : KindOf[y] # x
                          /\ \E y \in Objects \ made : KindOf[y] = x}}

\* tools-sync, review_listing: what did not change is confirmed; what is new or
\* changed is pinned, and its object made, only if it passes and is approved.
ReviewListing(listing, answer) ==
    /\ con = Idle /\ Spend
    /\ IF DOMAIN listing # Same(listing) /\ ~sc.broken /\ ListingPasses(listing) /\ Confirm(answer)
       THEN /\ pinned' = Over(listing)
            /\ confirmed' = confirmed \cup DOMAIN listing
            /\ LET new == NewObjects(DOMAIN listing \ Same(listing))
               IN live' = live \cup new /\ made' = made \cup new
       ELSE /\ confirmed' = confirmed \cup Same(listing)
            /\ UNCHANGED <<pinned, live, made>>
    /\ UNCHANGED <<procs, tables, child, mail, policy, review, staged, con, pending, granted,
                   reach, effects>>

-----------------------------------------------------------------------------
(* System calls of agents, during a run. *)

Calls(p) ==
    /\ con.pc = "run" /\ procs[p] = "running" /\ child[p] = NoCap
    /\ sc.calls > 0 /\ sc' = [sc EXCEPT !.calls = @ - 1]

\* sys_cap_derive, first lock: the parent verifies and is attenuated.
CapDerive(p, h, mask) ==
    /\ Calls(p)
    /\ tables[p][h] # NoCap /\ Verify(tables[p][h]) /\ ~Escalates(tables[p][h], mask)
    /\ child' = [child EXCEPT ![p] = Attenuate(tables[p][h], mask)]
    /\ UNCHANGED <<procs, tables, live, made, mail, policy, review, staged, pinned, confirmed, con,
                   pending, granted, reach, effects>>

\* sys_cap_derive, second lock: the child is issued and inserted, if there is room.
CapDeriveInsert(p) ==
    /\ con.pc = "run" /\ child[p] # NoCap
    /\ tables' = IF Free(tables[p]) = {} THEN tables
                 ELSE [tables EXCEPT ![p] = InsertCap(@, Issue(child[p]))]
    /\ child' = [child EXCEPT ![p] = NoCap]
    /\ UNCHANGED <<sc, procs, live, made, mail, policy, review, staged, pinned, confirmed, con,
                   pending, granted, reach, effects>>

CapDrop(p, h) ==
    /\ Calls(p) /\ tables[p][h] # NoCap
    /\ tables' = [tables EXCEPT ![p][h] = NoCap]
    /\ UNCHANGED <<procs, child, live, made, mail, policy, review, staged, pinned, confirmed, con,
                   pending, granted, reach, effects>>

Did(p, c, perm, human) == effects \cup {[pid |-> p, obj |-> c.obj, perm |-> perm, human |-> human]}

\* perform_send, Kernel::send_message: verified and checked again.
Sends(c) == Verify(c) /\ "send" \in c.perms /\ c.obj \in live /\ mail[c.obj] < QueueRoom

PerformSend(p, c, human) ==
    IF Sends(c)
    THEN mail' = [mail EXCEPT ![c.obj] = @ + 1] /\ effects' = Did(p, c, "send", human)
    ELSE UNCHANGED <<mail, effects>>

Gated(c) == Gate \in c.perms

Request(p, c, action) == [pid |-> p, cap |-> c, action |-> action, answer |-> "none"]

\* enqueue: the request carries a copy of the token, and the process blocks
\* (BlockingCalls has the steps between the two).
Enqueue(p, c, action) ==
    IF Len(pending) < PendingRoom
    THEN /\ pending' = Append(pending, Request(p, c, action))
         /\ procs' = [procs EXCEPT ![p] = "blocked"]
    ELSE UNCHANGED <<pending, procs>>

\* sys_send_outcome.
Send(p, h) ==
    /\ Calls(p) /\ tables[p][h] # NoCap
    /\ LET c == tables[p][h]
       IN IF ~Gated(c)
          THEN PerformSend(p, c, FALSE) /\ UNCHANGED <<pending, procs>>
          ELSE /\ IF "send" \in c.perms THEN Enqueue(p, c, "send") ELSE UNCHANGED <<pending, procs>>
               /\ UNCHANGED <<mail, effects>>
    /\ UNCHANGED <<tables, child, live, made, policy, review, staged, pinned, confirmed, con,
                   granted, reach>>

\* sys_recv.
Recv(p, h) ==
    /\ Calls(p) /\ tables[p][h] # NoCap
    /\ LET c == tables[p][h]
       IN /\ Verify(c) /\ "receive" \in c.perms /\ c.obj \in live /\ mail[c.obj] > 0
          /\ mail' = [mail EXCEPT ![c.obj] = @ - 1]
    /\ UNCHANGED <<procs, tables, child, live, made, policy, review, staged, pinned, confirmed, con,
                   pending, granted, reach, effects>>

\* dispatch: the call goes to the gateway, or the link or the list of calls in
\* flight refuses it; the process waits for the result.
Dispatch(p, c, human) ==
    \/ effects' = Did(p, c, "execute", human) /\ procs' = [procs EXCEPT ![p] = "waiting"]
    \/ procs' = [procs EXCEPT ![p] = "running"] /\ UNCHANGED effects

\* sys_tool_call, prepare: verified, executable, and its listing confirmed in
\* this session.
ToolCall(p, h) ==
    /\ Calls(p) /\ tables[p][h] # NoCap
    /\ LET c == tables[p][h]
       IN /\ Verify(c) /\ c.obj \in live /\ "execute" \in c.perms /\ KindOf[c.obj] \in confirmed
          /\ IF Gated(c) THEN Enqueue(p, c, "tool") /\ UNCHANGED effects
             ELSE Dispatch(p, c, FALSE) /\ UNCHANGED pending
    /\ UNCHANGED <<tables, child, live, made, mail, policy, review, staged, pinned, confirmed, con,
                   granted, reach>>

\* The result, or the time-out, of a tool call.
ToolReturns(p) ==
    /\ procs[p] = "waiting"
    /\ procs' = [procs EXCEPT ![p] = "running"]
    /\ UNCHANGED <<sc, tables, child, live, made, mail, policy, review, staged, pinned, confirmed,
                   con, pending, granted, reach, effects>>

\* The operators' signatures on a request are in.
Sign(i, answer) ==
    /\ sc.signed /\ con.pc = "run" /\ i \in DOMAIN pending /\ pending[i].answer = "none"
    /\ pending' = [pending EXCEPT ![i].answer = answer]
    /\ UNCHANGED <<sc, procs, tables, child, live, made, mail, policy, review, staged, pinned,
                   confirmed, con, granted, reach, effects>>

\* Mutant: the oldest request is taken for the one that is decided.
TakeOldest(q, i) == [req |-> Head(q), rest |-> Tail(q)]

\* A Deque has no remove(i): the requests before it are rotated to the back.
Take(q, i) == [req |-> q[i], rest |-> SubSeq(q, i + 1, Len(q)) \o SubSeq(q, 1, i - 1)]

\* apply: perform the request if it was approved, and resume the agent.
Apply(r, approved) ==
    CASE ~approved ->
           procs' = [procs EXCEPT ![r.pid] = "running"] /\ UNCHANGED <<mail, effects>>
      [] approved /\ r.action = "send" ->
           /\ PerformSend(r.pid, r.cap, r.answer = "approve")
           /\ procs' = [procs EXCEPT ![r.pid] = "running"]
      [] approved /\ r.action = "tool" -> Dispatch(r.pid, r.cap, r.answer = "approve") /\ UNCHANGED mail

\* resolve_signed: the first request whose decision is in.
ResolveSigned ==
    /\ sc.signed /\ con.pc = "run"
    /\ \E i \in DOMAIN pending :
         /\ pending[i].answer # "none" /\ \A j \in 1..(i - 1) : pending[j].answer = "none"
         /\ pending' = Take(pending, i).rest
         /\ Apply(Take(pending, i).req, pending[i].answer = "approve")
    /\ UNCHANGED <<sc, tables, child, live, made, policy, review, staged, pinned, confirmed, con,
                   granted, reach>>

\* resolve_with: the person at the console decides the oldest request.
ResolveConsole(answer) ==
    /\ ~sc.signed /\ con.pc = "run" /\ pending # <<>>
    /\ pending' = Tail(pending)
    /\ Apply([Head(pending) EXCEPT !.answer = answer], answer = "approve")
    /\ UNCHANGED <<sc, tables, child, live, made, policy, review, staged, pinned, confirmed, con,
                   granted, reach>>

Exit(p) ==
    /\ con.pc = "run" /\ procs[p] = "running" /\ child[p] = NoCap
    /\ procs' = [procs EXCEPT ![p] = "exited"]
    /\ UNCHANGED <<sc, tables, child, live, made, mail, policy, review, staged, pinned, confirmed,
                   con, pending, granted, reach, effects>>

-----------------------------------------------------------------------------
\* load_boot_policy: a malformed policy, or lockdown, refuses every change.
AuthInit ==
    /\ sc \in Offices
    /\ procs = [p \in Pids |-> "none"]
    /\ tables = [p \in Pids |-> EmptyTable]
    /\ child = [p \in Pids |-> NoCap]
    /\ live = sc.objects /\ made = sc.objects
    /\ mail = [o \in Objects |-> 0]
    /\ policy = (IF sc.broken THEN [rules |-> {}, labels |-> <<>>]
                 ELSE [rules |-> sc.rules, labels |-> sc.labels])
    /\ review = TRUE
    /\ staged = NoBatch
    /\ pinned = <<>> /\ confirmed = {}
    /\ con = Idle /\ pending = <<>>
    /\ granted = {} /\ reach = {} /\ effects = {}

GrantsTo(p) == {[pid |-> p, obj |-> x[1], mask |-> x[2]] : x \in sc.grants}

Console(answer) ==
    \/ \E p \in Pids : \E g \in {<<>>} \cup {<<x>> : x \in GrantsTo(p)}, run \in BOOLEAN : CmdSpawn(p, g, run)
    \/ \E p \in Pids : \E g \in GrantsTo(p) : CmdGrant(g, answer)
    \/ SpawnGrant(answer)
    \/ ApplyGrant
    \/ CommandEnds
    \/ RunScheduled
    \/ RunEnds
    \/ "reap" \in sc.ops /\ \E p \in Pids : CmdReap(p)
    \/ "delete" \in sc.ops /\ \E o \in Objects : DeleteObject(o)
    \/ "batch" \in sc.ops /\ PolicyBegin
    \/ PolicyAbort
    \/ PolicyCommit(answer)
    \/ \E e \in sc.edits : PolicyEdit(e, answer)
    \/ "review" \in sc.ops /\ \E on \in BOOLEAN : SetReview(on)
    \/ LinkSecure
    \/ \E listing \in sc.listings : ReviewListing(listing, answer)

Agent(p) ==
    \/ \E h \in Slots, mask \in sc.masks : CapDerive(p, h, mask)
    \/ CapDeriveInsert(p)
    \/ \E h \in Slots : CapDrop(p, h) \/ Send(p, h) \/ Recv(p, h) \/ ToolCall(p, h)
    \/ ToolReturns(p)
    \/ Exit(p)

AuthNext ==
    \/ \E answer \in BOOLEAN : Console(answer)
    \/ \E p \in Pids : Agent(p)
    \/ ResolveSigned
    \/ \E answer \in {"approve", "deny"} :
         ResolveConsole(answer) \/ \E i \in 1..PendingRoom : Sign(i, answer)

AuthSpec == AuthInit /\ [][AuthNext]_authVars

-----------------------------------------------------------------------------
(* Properties. *)

Cap == [obj : Objects, perms : SUBSET Permission, proof : {NoProof} \cup (Objects \X SUBSET Permission)]

\* Every variable holds a value of its kind; every handle is a token the kernel
\* issuer signed as it stands; an agent is blocked exactly while its one request
\* waits; tokens are in the making only during a run.
AuthTypeOK ==
    /\ \A p \in Pids : \A h \in Slots :
        tables[p][h] # NoCap => tables[p][h] \in Cap /\ Verify(tables[p][h]) /\ HasTable(p)
    /\ \A p \in Pids : /\ child[p] # NoCap => child[p] \in Cap /\ procs[p] = "running"
                       /\ procs[p] = "blocked" <=> \E i \in DOMAIN pending : pending[i].pid = p
    /\ con.pc \in {"idle", "grant", "apply", "done", "run"}
    /\ con.pc # "run" => pending = <<>> /\ \A p \in Pids : child[p] = NoCap
    /\ con.pc = "apply" <=> con.todo # <<>> /\ con.pc # "grant"
    /\ confirmed \subseteq DOMAIN pinned /\ live \subseteq made /\ made \subseteq Objects
    /\ Len(staged.grants) <= BatchRoom /\ Len(pending) <= PendingRoom

\* Whatever an agent holds goes back to a grant that passed review, through
\* derivations that only took permissions away and never the approval
\* constraint ("a child may add it but never drop it", ARCHITECTURE.md).
HeldWasGranted ==
    \A g \in Grants(tables) : \E a \in granted :
        /\ a.pid = g.pid /\ a.obj = g.obj
        /\ g.mask \ {Gate} \subseteq a.mask /\ (Gate \in a.mask => Gate \in g.mask)

\* Under this policy no object of any kind, whatever a listing says of it, has
\* more labels than labels_of keeps.
LabelsFit(pol) ==
    \A o \in Objects : \A flags \in SUBSET Flags : \A objs \in {{}, Objects} :
        Cardinality(AllLabels(pol, [k \in Kinds |-> flags], objs, o)) <= LabelCap

\* src/policy.rs:23-38, "Rules are invariants over all agents' handles [...] A
\* change that would violate a rule is refused outright": no agent holds a handle
\* on a denied object, reaches two objects that are to be kept apart, or can act
\* without approval where a rule asks for it, whichever of an object's labels the
\* rule names.
EveryRuleHolds ==
    \A g \in Grants(tables), r \in policy.rules :
        LET Carries(h, l) == l \in AllLabels(policy, pinned, live, h.obj) IN
        g.mask # {} /\ Carries(g, r.a) =>
            /\ r.rule # "deny"
            /\ r.rule = "approval" => Gate \in g.mask \/ g.mask \cap Effect = {}
            /\ r.rule = "separate" =>
                  \A h \in Grants(tables) : h.pid = g.pid /\ h.mask # {} => ~Carries(h, r.b)

\* As long as labels_of drops no label, no handle of any agent ever breaks a rule
\* of the policy: not while a batch is half applied, not after a derivation, which
\* nobody reviews, and not after a change of the rules, the labels or the
\* gateway's listing under handles held already (src/policy.rs, violations).
RulesHold == LabelsFit(policy) => EveryRuleHolds

\* What an agent holds on an object was in the reach diffs of that object: every
\* permission it holds there was in a line of an applied diff, and if it can act
\* there without a human at all, some line for that object said so (src/policy.rs,
\* diff; which permission that line named is WideningIsShown).
ReachWasShown ==
    \A g \in Grants(tables) :
        /\ \A x \in g.mask \ {Gate} : \E c \in reach : c.pid = g.pid /\ c.obj = g.obj /\ x \in c.perms
        /\ Ungated({g}, g.pid, g.obj) => \E c \in reach : c.pid = g.pid /\ c.obj = g.obj /\ ~c.gated

\* An agent acts on an object only with a permission it was granted there.
EffectsWereGranted ==
    \A e \in effects : \E a \in granted : a.pid = e.pid /\ a.obj = e.obj /\ e.perm \in a.mask

\* What no human approved was done through a grant without the approval
\* constraint, and, as long as labels_of drops no label, on no object that an
\* approval rule covers, although requests are decided out of order and carry
\* copies of tokens (agent.rs, resolve_signed).
UnattendedWasUngated ==
    \A e \in effects : ~e.human =>
        /\ \E a \in granted : a.pid = e.pid /\ a.obj = e.obj /\ Gate \notin a.mask
        /\ LabelsFit(policy) => \A r \in policy.rules : con.pc = "run" /\ r.rule = "approval" =>
              r.a \notin AllLabels(policy, pinned, live, e.obj)

\* A handle keeps naming the same token until its process drops it or is reaped.
HandlesStand ==
    [][\A p \in Pids : \A h \in Slots :
        tables[p][h] # NoCap => tables'[p][h] \in {tables[p][h], NoCap}]_authVars

\* A handle stands for one token from its grant or derivation to its end, and
\* the token for no more than a grant that passed review gave (agent.rs).
HandlesSound == [](AuthTypeOK /\ HeldWasGranted) /\ HandlesStand

\* What an agent did, it was granted; what no human approved, it was granted
\* without the approval constraint (agent.rs send, recv, call; tools.rs).
EffectsWereAllowed == EffectsWereGranted /\ UnattendedWasUngated

\* "Nothing widens an agent's reach silently" (README.md): where an agent can use
\* a permission without a human, a line of a diff showed that permission ungated.
WideningIsShown ==
    \A g \in Grants(tables) : Gate \notin g.mask => \A x \in g.mask \cap Effect :
        \E c \in reach : c.pid = g.pid /\ c.obj = g.obj /\ x \in c.perms /\ ~c.gated
=============================================================================
