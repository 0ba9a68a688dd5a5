------------------------- MODULE BlockingCalls_inv -------------------------
(***************************************************************************)
(* The inductive invariant behind blocking calls, for every number of      *)
(* processes, CPUs and calls and every time-out; that the console's loop,  *)
(* and an agent up to its request, keep it.                                *)
(***************************************************************************)
EXTENDS BlockingCalls, TLAPS

RequestRecords == [id : Ids, kind : CallKinds, signed : BOOLEAN, unsendable : BOOLEAN]
OpenRecords == [id : Ids, late : BOOLEAN, outcome : {"none", "approved", "denied", "timedout"}]
Flights == [id : Ids, age : 0 .. Timeout + MaxLag + 1]
Stages == {"idle", "user", "enqueue", "opened", "send", "sent", "block"}
Calling == {"enqueue", "opened", "send", "sent", "block"}

\* TypeOK, with the functions of calls and answers spelled out.
Typed ==
    /\ TableTypeOK
    /\ pc \in [Cpus -> Stages]
    /\ kind \in [Procs -> CallKinds \cup {"none"}]
    /\ calls \in [Procs -> Nat] /\ rax \in [Procs -> Nat]
    /\ \A p \in Procs : calls[p] <= MaxCalls[p] /\ rax[p] <= calls[p]
    /\ pending \in Seq(RequestRecords)
    /\ open \subseteq OpenRecords
    /\ inflight \subseteq Flights
    /\ lag \in 0 .. MaxLag
    /\ atGateway \subseteq Ids /\ replies \subseteq Ids
    /\ approved \subseteq Ids /\ performed \in [Ids -> Nat]

\* A process keeps its slot; a CPU that is not idle runs a process of its own.
PlacedAt(c) ==
    IF pc[c] = "idle" THEN current[c] = NoPid
    ELSE current[c] \in Procs /\ slots[current[c] - 1].state = "Running"
Placed ==
    /\ \A i \in Slots : slots[i].pid = i + 1 /\ slots[i].state # "Free"
    /\ \A c \in Cpus : PlacedAt(c)
    /\ \A c, d \in Cpus : c # d /\ pc[c] # "idle" => current[d] # current[c]

\* Which return points are stacked where in run_scheduled.
Stacked ==
    \/ at \in {"resolve", "take", "apply"} /\ ret \in {<<"inflight">>, <<"choose">>}
    \/ /\ at \in {"recv", "expire"}
       /\ ret \in {<<"dispatch">>, <<"progressed">>, <<"ttl", "wait check">>,
                   <<"ttl", "take", "inflight">>, <<"ttl", "take", "choose">>}
    \/ at = "ttl" /\ ret \in {<<"wait check">>, <<"take", "inflight">>, <<"take", "choose">>}
    \/ /\ at \in {"top", "inflight", "dispatch", "agent", "outstanding", "choose", "choose tools",
                  "wait any", "wait check", "progress", "progressed", "release", "stuck", "over"}
       /\ ret = <<>>

\* A request is held only while its decision is applied; without application
\* processors the loop stands still while an agent runs.
LoopShape ==
    /\ Stacked
    /\ IF at = "apply" THEN held \in RequestRecords ELSE held = NoRequest
    /\ ~Supervise => \A c \in Cpus : pc[c] # "idle" => at = "agent" /\ \A d \in Cpus \ {c} : pc[d] = "idle"

\* rax answers the latest call exactly while the process is not in a call.
AnsweredAt(c) ==
    /\ pc[c] = "user" => rax[current[c]] = calls[current[c]]
    /\ pc[c] \in Calling => rax[current[c]] # calls[current[c]]
Answered ==
    /\ \A i \in Slots : slots[i].state = "Ready" => rax[i + 1] = calls[i + 1]
    /\ \A c \in Cpus : AnsweredAt(c)

\* The process has handed its request over and waits, or is about to.
Waits(p) == slots[p - 1].state = "Blocked" \/ \E c \in Cpus : current[c] = p /\ pc[c] = "block"

Requested(id) ==
    \/ \E k \in 1 .. Len(pending) : pending[k].id = id
    \/ held.id = id
    \/ \E e \in inflight : e.id = id

\* Every request is of its process's latest call, which is not answered yet.
Awaited ==
    \A id \in Ids : Requested(id) => id[2] = calls[id[1]] /\ rax[id[1]] # id[2] /\ Waits(id[1])

\* No two requests are of the same process.
OneEach ==
    /\ \A j, k \in 1 .. Len(pending) : pending[j].id[1] = pending[k].id[1] => j = k
    /\ \A e, f \in inflight : e.id[1] = f.id[1] => e = f
    /\ \A k \in 1 .. Len(pending) : \A e \in inflight : pending[k].id[1] # e.id[1]
    /\ \A k \in 1 .. Len(pending) : pending[k].id[1] # held.id[1]
    /\ \A e \in inflight : e.id[1] # held.id[1]

\* What is still to be decided has not been carried out.
Untouched ==
    /\ \A id \in Ids : id[2] > calls[id[1]] => performed[id] = 0
    /\ \A c \in Cpus : pc[c] \in {"enqueue", "opened"} =>
         Gated(kind[current[c]]) /\ performed[Call(current[c])] = 0
    /\ \A k \in 1 .. Len(pending) : performed[pending[k].id] = 0
    /\ held.id \in Ids => performed[held.id] = 0

\* The operators' approvals that have been counted are on record.
Vouched == GatedNeedsApproval /\ \A r \in open : r.outcome = "approved" => r.id \in approved

CallInv == Typed /\ Placed /\ LoopShape /\ Answered /\ Awaited /\ OneEach /\ Untouched /\ Vouched

\* Who waits has a request outstanding (so long as the CPU that answers requests is
\* the one that runs the agents).
HasRequest(p) == Queued(p) # {} \/ Held(p) \/ Flying(p) # {}
NoneLost == \A p \in Procs : Waits(p) => HasRequest(p)

-----------------------------------------------------------------------------
(* Processes, slots and calls. *)

\* Process p is in slot p - 1.
LEMMA ProcSlots ==
    /\ \A i \in Slots : i + 1 \in Procs /\ i \in Nat
    /\ \A p \in Procs : p - 1 \in Slots /\ p \in Nat /\ p # NoPid /\ (p - 1) + 1 = p
BY TableAssumption DEF Slots, Procs, NoPid

\* A call is named by its process and its number.
LEMMA CallIds ==
    /\ \A id \in Ids : id[1] \in Procs /\ id[2] \in 0 .. MaxCalls[id[1]] /\ id = <<id[1], id[2]>>
    /\ \A p \in Procs : \A n \in 0 .. MaxCalls[p] : <<p, n>> \in Ids
BY DEF Ids

\* No request is none of the requests.
LEMMA NoRequestIsNone == NoRequest.id \notin Ids /\ NoRequest.id[1] \notin Procs /\ NoRequest \notin RequestRecords
<1>1. NoRequest.id[1] = 0 /\ 0 \notin Procs
  BY DEF NoRequest, Procs
<1>2. NoRequest.id \notin Ids
  BY Zenon, <1>1, CallIds
<1> QED BY <1>1, <1>2 DEF RequestRecords

\* find gives the slot of the process.
LEMMA FoundAt ==
    ASSUME Placed, NEW p, NEW i \in Slots
    PROVE  Found(p, i) <=> p = i + 1
BY ProcSlots DEF Placed, Found, Holds

\* A process in ring 3, or still asking, waits for nothing.
LEMMA NotWaiting ==
    ASSUME CallInv, NEW c \in Cpus, pc[c] \notin {"idle", "block"}
    PROVE  current[c] \in Procs /\ ~Waits(current[c])
<1>1. current[c] \in Procs /\ slots[current[c] - 1].state = "Running"
  BY Zenon DEF CallInv, Placed, PlacedAt
<1>2. ASSUME NEW d \in Cpus, current[d] = current[c], pc[d] = "block" PROVE FALSE
  BY Zenon, <1>2 DEF CallInv, Placed
<1> QED BY Zenon, <1>1, <1>2 DEF Waits

\* Nor does one that is Ready.
LEMMA ReadyIsFree ==
    ASSUME CallInv, NEW i \in Slots, slots[i].state = "Ready"
    PROVE  ~Waits(i + 1) /\ \A d \in Cpus : current[d] # i + 1
<1>1. i + 1 \in Procs /\ (i + 1) - 1 = i /\ i + 1 # NoPid
  BY ProcSlots DEF Slots, NoPid
<1>2. ASSUME NEW d \in Cpus, current[d] = i + 1 PROVE FALSE
  <2>1. pc[d] # "idle"
    BY Zenon, <1>1, <1>2 DEF CallInv, Placed, PlacedAt
  <2>2. slots[current[d] - 1].state = "Running"
    BY Zenon, <2>1 DEF CallInv, Placed, PlacedAt
  <2> QED BY <1>1, <1>2, <2>2
<1> QED BY Zenon, <1>1, <1>2 DEF Waits

\* Who waits for nothing has no request.
LEMMA NoneRequested ==
    ASSUME CallInv, NEW p \in Procs, ~Waits(p)
    PROVE  \A id \in Ids : Requested(id) => id[1] # p
BY Zenon DEF CallInv, Awaited

\* A step of one CPU leaves the other CPUs and processes as they were.
LEMMA OneCpu ==
    ASSUME CallInv, NEW c \in Cpus,
           \A d \in Cpus \ {c} : pc'[d] = pc[d] /\ current'[d] = current[d],
           current'[c] \in {current[c], NoPid} \/ \A d \in Cpus : current[d] # current'[c],
           \A i \in Slots : slots'[i].pid = slots[i].pid /\ slots'[i].state # "Free",
           \A i \in Slots : i + 1 \notin {current[c], current'[c]} => slots'[i].state = slots[i].state,
           \A p \in Procs \ {current[c]} : calls'[p] = calls[p] /\ rax'[p] = rax[p],
           PlacedAt(c)', AnsweredAt(c)',
           \A i \in Slots : i + 1 \in {current[c], current'[c]} => slots'[i].state # "Ready"
    PROVE  /\ Placed' /\ Answered'
           /\ \A p \in Procs \ {current[c], current'[c]} : Waits(p) => Waits(p)'
<1>1. ASSUME NEW d \in Cpus \ {c}, pc[d] # "idle"
      PROVE  /\ current[d] \in Procs /\ current[d] # current[c] /\ current[d] # current'[c]
             /\ slots'[current[d] - 1].state = "Running"
  <2>1. current[d] \in Procs /\ slots[current[d] - 1].state = "Running"
    BY Zenon, <1>1 DEF CallInv, Placed, PlacedAt
  <2>2. current[d] # current[c] /\ current[d] # NoPid
    BY Zenon, <1>1, <2>1, ProcSlots DEF CallInv, Placed
  <2>3. current[d] # current'[c]
    BY Zenon, <2>2
  <2>4. current[d] - 1 \in Slots /\ (current[d] - 1) + 1 = current[d]
    BY Zenon, <2>1, ProcSlots
  <2>5. slots'[current[d] - 1].state = slots[current[d] - 1].state
    BY Zenon, <2>2, <2>3, <2>4
  <2> QED BY Zenon, <2>1, <2>2, <2>3, <2>5
<1>2. ASSUME NEW d \in Cpus PROVE PlacedAt(d)'
  <2>1. CASE d = c
    BY Zenon, <2>1
  <2>2. CASE d # c
    <3>1. pc'[d] = pc[d] /\ current'[d] = current[d]
      BY Zenon, <2>2
    <3>2. PlacedAt(d)
      BY Zenon DEF CallInv, Placed
    <3> QED BY Zenon, <1>1, <2>2, <3>1, <3>2 DEF PlacedAt
  <2> QED BY Zenon, <2>1, <2>2
<1>3. ASSUME NEW d \in Cpus, NEW e \in Cpus, d # e, pc'[d] # "idle" PROVE current'[e] # current'[d]
  <2>1. CASE d = c
    <3>1. e # c /\ current'[e] = current[e] /\ pc'[e] = pc[e]
      BY Zenon, <1>3, <2>1
    <3>2. CASE pc[e] # "idle"
      BY Zenon, <1>1, <2>1, <3>1, <3>2
    <3>3. CASE pc[e] = "idle"
      <4>1. current[e] = NoPid
        BY Zenon, <3>3 DEF CallInv, Placed, PlacedAt
      <4>2. current'[c] \in Procs
        BY Zenon, <1>3, <2>1 DEF PlacedAt
      <4> QED BY Zenon, <2>1, <3>1, <4>1, <4>2, ProcSlots
    <3> QED BY Zenon, <3>2, <3>3
  <2>2. CASE d # c
    <3>1. pc[d] # "idle" /\ current'[d] = current[d]
      BY Zenon, <1>3, <2>2
    <3>2. CASE e = c
      BY Zenon, <1>1, <2>2, <3>1, <3>2
    <3>3. CASE e # c
      <4>1. current'[e] = current[e]
        BY Zenon, <3>3
      <4>2. current[e] # current[d]
        BY Zenon, <1>3, <3>1 DEF CallInv, Placed
      <4> QED BY Zenon, <3>1, <4>1, <4>2
    <3> QED BY Zenon, <3>2, <3>3
  <2> QED BY Zenon, <2>1, <2>2
<1>4. Placed'
  <2>1. \A i \in Slots : slots'[i].pid = i + 1 /\ slots'[i].state # "Free"
    BY Zenon DEF CallInv, Placed
  <2> QED BY Zenon, <1>2, <1>3, <2>1 DEF Placed
<1>5. ASSUME NEW d \in Cpus PROVE AnsweredAt(d)'
  <2>1. CASE d = c
    BY Zenon, <2>1
  <2>2. CASE d # c
    <3>1. pc'[d] = pc[d] /\ current'[d] = current[d]
      BY Zenon, <2>2
    <3>2. AnsweredAt(d)
      BY Zenon DEF CallInv, Answered
    <3>3. CASE pc[d] = "idle"
      BY <3>1, <3>3 DEF AnsweredAt, Calling
    <3>4. CASE pc[d] # "idle"
      <4>1. rax'[current[d]] = rax[current[d]] /\ calls'[current[d]] = calls[current[d]]
        BY Zenon, <1>1, <2>2, <3>4
      <4> QED BY Zenon, <3>1, <3>2, <4>1 DEF AnsweredAt
    <3> QED BY Zenon, <3>3, <3>4
  <2> QED BY Zenon, <2>1, <2>2
<1>6. ASSUME NEW i \in Slots, slots'[i].state = "Ready" PROVE rax'[i + 1] = calls'[i + 1]
  <2>1. i + 1 \notin {current[c], current'[c]} /\ i + 1 \in Procs
    BY Zenon, <1>6, ProcSlots
  <2>2. slots[i].state = "Ready"
    BY Zenon, <1>6, <2>1
  <2>3. rax'[i + 1] = rax[i + 1] /\ calls'[i + 1] = calls[i + 1]
    BY Zenon, <2>1
  <2> QED BY Zenon, <2>2, <2>3 DEF CallInv, Answered
<1>7. ASSUME NEW p \in Procs \ {current[c], current'[c]}, Waits(p) PROVE Waits(p)'
  <2>1. CASE slots[p - 1].state = "Blocked"
    <3>1. p - 1 \in Slots /\ (p - 1) + 1 = p
      BY Zenon, ProcSlots
    <3>2. slots'[p - 1].state = "Blocked"
      BY Zenon, <2>1, <3>1
    <3> QED BY Zenon, <3>2 DEF Waits
  <2>2. ASSUME NEW d \in Cpus, current[d] = p, pc[d] = "block" PROVE Waits(p)'
    BY Zenon, <2>2 DEF Waits
  <2> QED BY Zenon, <1>7, <2>1, <2>2 DEF Waits
<1> QED BY Zenon, <1>4, <1>5, <1>6, <1>7 DEF Answered

-----------------------------------------------------------------------------
(* What the invariant says of every state. *)

\* The state the loop starts in, right after select.
LEMMA InitCalls == Init => CallInv
<1> SUFFICES ASSUME Init PROVE CallInv
  OBVIOUS
<1>1. TableTypeOK
  <2>1. \A i \in Slots : Homes[1 + (i % Len(Homes))] \in Nat
    BY TableAssumption, ProcSlots
  <2>2. slots \in [Slots -> Process]
    <3>1. ASSUME NEW i \in Slots
          PROVE  [FreeSlot EXCEPT !.pid = i + 1, !.state = "Ready",
                     !.scheduled = TRUE, !.home = Homes[1 + (i % Len(Homes))]] \in Process
      BY Zenon, <2>1, ProcSlots DEF FreeSlot, Process, States, NoPid
    <3> QED BY Zenon, <3>1 DEF Init
  <2>3. cursor \in [Cpus -> Slots]
    <3>1. MaxProcesses - 1 \in Slots
      BY TableAssumption DEF Slots
    <3> QED BY Zenon, <3>1 DEF Init
  <2>4. /\ current \in [Cpus -> Nat] /\ sliceUsed \in [Cpus -> Nat] /\ nextPid \in Nat \ {0}
        /\ slice \in Nat \ {0} /\ budget \in Budgets
    <3>1. /\ current = [c \in Cpus |-> NoPid] /\ sliceUsed = [c \in Cpus |-> 0]
          /\ nextPid = MaxProcesses + 1 /\ slice = DefaultSlice /\ budget = DefaultBudget
      BY Zenon DEF Init
    <3> QED BY <3>1, TableAssumption DEF NoPid, Budgets
  <2> QED BY Zenon, <2>2, <2>3, <2>4 DEF TableTypeOK
<1>2. \A i \in Slots : slots[i].pid = i + 1 /\ slots[i].state = "Ready"
  BY Zenon DEF Init, FreeSlot
<1>3. \A c \in Cpus : pc[c] = "idle" /\ current[c] = NoPid
  BY Zenon DEF Init
<1>4. /\ pending = <<>> /\ open = {} /\ inflight = {} /\ held = NoRequest /\ at = "top" /\ ret = <<>>
      /\ performed = [id \in Ids |-> 0] /\ approved = {} /\ Len(pending) = 0
  BY Zenon DEF Init
<1>5. \A k \in 1 .. Len(pending) : FALSE
  BY <1>4
<1>6. Typed
  <2>1. kind \in [Procs -> CallKinds \cup {"none"}] /\ calls \in [Procs -> Nat] /\ rax \in [Procs -> Nat]
    BY Zenon DEF Init
  <2>2. \A p \in Procs : calls[p] <= MaxCalls[p] /\ rax[p] <= calls[p]
    <3>1. calls = [p \in Procs |-> 0] /\ rax = [p \in Procs |-> 0]
      BY Zenon DEF Init
    <3> QED BY <3>1, CallAssumption
  <2>3. pending \in Seq(RequestRecords)
    BY <1>4
  <2>4. lag \in 0 .. MaxLag /\ performed \in [Ids -> Nat]
    <3>1. lag = 0
      BY Zenon DEF Init
    <3> QED BY <1>4, <3>1, CallAssumption
  <2>5. pc \in [Cpus -> Stages] /\ atGateway = {} /\ replies = {}
    BY Zenon DEF Init, Stages
  <2> QED BY Zenon, <1>1, <1>4, <2>1, <2>2, <2>3, <2>4, <2>5 DEF Typed
<1>7. Placed
  BY Zenon, <1>2, <1>3 DEF Placed, PlacedAt
<1>8. LoopShape
  BY Zenon, <1>3, <1>4 DEF LoopShape, Stacked
<1>9. Answered
  <2>1. \A i \in Slots : rax[i + 1] = calls[i + 1]
    BY Zenon, ProcSlots DEF Init
  <2> QED BY Zenon, <1>3, <2>1 DEF Answered, AnsweredAt, Calling
<1>10. Awaited
  BY Zenon, <1>4, <1>5, NoRequestIsNone DEF Awaited, Requested
<1>11. OneEach
  BY Zenon, <1>4, <1>5 DEF OneEach
<1>12. Untouched
  BY <1>3, <1>4, <1>5, NoRequestIsNone DEF Untouched
<1>13. Vouched
  BY <1>4 DEF Vouched, GatedNeedsApproval
<1> QED BY Zenon, <1>6, <1>7, <1>8, <1>9, <1>10, <1>11, <1>12, <1>13 DEF CallInv

\* All variables have their types.
LEMMA TypedIsTypeOK == CallInv => TypeOK
<1> SUFFICES ASSUME CallInv PROVE TypeOK
  OBVIOUS
<1>1. \A p \in Procs : calls[p] \in 0 .. MaxCalls[p] /\ rax[p] \in 0 .. calls[p]
  BY CallAssumption DEF CallInv, Typed
<1>2. held \in RequestRecords \cup {NoRequest}
  BY Zenon DEF CallInv, LoopShape
<1> QED BY Zenon, <1>1, <1>2 DEF CallInv, Typed, TypeOK, RequestRecords, OpenRecords, Flights, Stages

-----------------------------------------------------------------------------
(* Steps of the loop that move between its parts only. *)

LoopMove ==
    \/ Top \/ CheckInflight \/ NothingToDispatch \/ Outstanding \/ Resolve \/ NoneToTake \/ ReadNow
    \/ PollReturns \/ ChooseWait \/ ChooseTools \/ WaitAny \/ WaitCheck \/ WaitProgress
    \/ Progressed \/ Release

\* Return points go on the stack in front.
LEMMA StackOps ==
    /\ \A x : <<x>> \o <<>> = <<x>>
    /\ \A x, y : <<x, y>> \o <<>> = <<x, y>>
    /\ \A x, y, z : <<x, y>> \o <<z>> = <<x, y, z>>
<1>1. ASSUME NEW x PROVE <<x>> \o <<>> = <<x>>
  OBVIOUS
<1>2. ASSUME NEW x, NEW y PROVE <<x, y>> \o <<>> = <<x, y>>
  OBVIOUS
<1>3. ASSUME NEW x, NEW y, NEW z PROVE <<x, y>> \o <<z>> = <<x, y, z>>
  <2> DEFINE S == {x, y, z}
             q == <<x, y>> \o <<z>>
  <2>1. q \in Seq(S) /\ Len(q) = 3
    OBVIOUS
  <2>2. q[1] = x /\ q[2] = y /\ q[3] = z
    OBVIOUS
  <2> HIDE DEF q, S
  <2>3. q = <<x, y, z>>
    BY <2>1, <2>2
  <2> QED BY <2>3 DEF q
<1> QED BY Zenon, <1>1, <1>2, <1>3

\* The first of one or two return points, and what is left.
LEMMA StackTops ==
    /\ \A x : Head(<<x>>) = x /\ Tail(<<x>>) = <<>>
    /\ \A x, y : Head(<<x, y>>) = x /\ Tail(<<x, y>>) = <<y>>
<1>1. ASSUME NEW x PROVE Head(<<x>>) = x /\ Tail(<<x>>) = <<>>
  OBVIOUS
<1>2. ASSUME NEW x, NEW y PROVE Head(<<x, y>>) = x /\ Tail(<<x, y>>) = <<y>>
  OBVIOUS
<1> QED BY Zenon, <1>1, <1>2

\* A return goes to where the stack of return points says.
LEMMA ReturnIsStacked ==
    ASSUME Stacked, at \in {"take", "expire", "ttl"}, Return
    PROVE  Stacked' /\ at' \notin {"apply", "agent"}
<1>1. at' = Head(ret) /\ ret' = Tail(ret)
  BY Zenon DEF Return
<1>2. CASE at = "take"
  <2>1. ret \in {<<"inflight">>, <<"choose">>}
    BY <1>2 DEF Stacked
  <2>2. CASE ret = <<"inflight">>
    <3>1. at' = "inflight" /\ ret' = <<>>
      BY <1>1, <2>2
    <3> QED BY Zenon, <3>1 DEF Stacked
  <2>3. CASE ret = <<"choose">>
    <3>1. at' = "choose" /\ ret' = <<>>
      BY <1>1, <2>3
    <3> QED BY Zenon, <3>1 DEF Stacked
  <2> QED BY Zenon, <2>1, <2>2, <2>3
<1>3. CASE at = "expire"
  <2>1. ret \in {<<"dispatch">>, <<"progressed">>, <<"ttl", "wait check">>,
                  <<"ttl", "take", "inflight">>, <<"ttl", "take", "choose">>}
    BY Zenon, <1>3 DEF Stacked
  <2>2. CASE ret = <<"dispatch">>
    <3>1. at' = "dispatch" /\ ret' = <<>>
      BY <1>1, <2>2
    <3> QED BY Zenon, <3>1 DEF Stacked
  <2>3. CASE ret = <<"progressed">>
    <3>1. at' = "progressed" /\ ret' = <<>>
      BY <1>1, <2>3
    <3> QED BY Zenon, <3>1 DEF Stacked
  <2>4. CASE ret = <<"ttl", "wait check">>
    <3>1. at' = "ttl" /\ ret' = <<"wait check">>
      BY Zenon, <1>1, <2>4, StackTops
    <3> QED BY Zenon, <3>1 DEF Stacked
  <2>5. CASE ret = <<"ttl", "take", "inflight">>
    <3>1. at' = "ttl" /\ ret' = <<"take", "inflight">>
      BY <1>1, <2>5
    <3> QED BY Zenon, <3>1 DEF Stacked
  <2>6. CASE ret = <<"ttl", "take", "choose">>
    <3>1. at' = "ttl" /\ ret' = <<"take", "choose">>
      BY <1>1, <2>6
    <3> QED BY Zenon, <3>1 DEF Stacked
  <2> QED BY Zenon, <2>1, <2>2, <2>3, <2>4, <2>5, <2>6
<1>4. CASE at = "ttl"
  <2>1. ret \in {<<"wait check">>, <<"take", "inflight">>, <<"take", "choose">>}
    BY Zenon, <1>4 DEF Stacked
  <2>2. CASE ret = <<"wait check">>
    <3>1. at' = "wait check" /\ ret' = <<>>
      BY Zenon, <1>1, <2>2, StackTops
    <3> QED BY Zenon, <3>1 DEF Stacked
  <2>3. CASE ret = <<"take", "inflight">>
    <3>1. at' = "take" /\ ret' = <<"inflight">>
      BY <1>1, <2>3
    <3> QED BY Zenon, <3>1 DEF Stacked
  <2>4. CASE ret = <<"take", "choose">>
    <3>1. at' = "take" /\ ret' = <<"choose">>
      BY <1>1, <2>4
    <3> QED BY Zenon, <3>1 DEF Stacked
  <2> QED BY Zenon, <2>1, <2>2, <2>3, <2>4
<1> QED BY Zenon, <1>2, <1>3, <1>4

\* A step to another part leaves or takes the right return points.
LEMMA MovesAreStacked ==
    ASSUME Stacked, LoopMove
    PROVE  Stacked' /\ at \notin {"apply", "agent"} /\ at' # "apply"
<1>1. CASE Top \/ CheckInflight \/ Outstanding \/ WaitProgress
  <2>1. at \in {"top", "inflight", "outstanding", "progress"}
    BY Zenon, <1>1 DEF Top, CheckInflight, Outstanding, WaitProgress
  <2>2. ret = <<>>
    BY Zenon, <2>1 DEF Stacked
  <2>3. \/ at' \in {"inflight", "dispatch", "top", "over"} /\ ret' = ret
        \/ at' = "resolve" /\ ret' \in {<<"inflight">> \o ret, <<"choose">> \o ret}
        \/ at' = "recv" /\ ret' \in {<<"dispatch">> \o ret, <<"progressed">> \o ret}
    BY Zenon, <1>1 DEF Top, CheckInflight, Outstanding, WaitProgress, Goto, Gosub
  <2>4. \/ at' \in {"inflight", "dispatch", "top", "over"} /\ ret' = <<>>
        \/ at' = "resolve" /\ ret' \in {<<"inflight">>, <<"choose">>}
        \/ at' = "recv" /\ ret' \in {<<"dispatch">>, <<"progressed">>}
    BY Zenon, <2>2, <2>3, StackOps
  <2>5. Stacked'
    BY Zenon, <2>4 DEF Stacked
  <2> QED BY <2>1, <2>4, <2>5
<1>2. CASE NothingToDispatch \/ ChooseWait \/ ChooseTools \/ WaitCheck \/ Progressed \/ Release
  <2>1. /\ at \in {"dispatch", "choose", "choose tools", "wait check", "progressed", "release"}
        /\ at' \in {"outstanding", "wait any", "choose tools", "progress", "release", "top", "stuck"}
        /\ ret' = ret
    BY Zenon, <1>2 DEF NothingToDispatch, ChooseWait, ChooseTools, WaitCheck, Progressed, Release, Goto
  <2>2. ret' = <<>>
    BY Zenon, <2>1 DEF Stacked
  <2>3. Stacked'
    BY Zenon, <2>1, <2>2 DEF Stacked
  <2> QED BY Zenon, <2>1, <2>3
<1>3. CASE Resolve
  <2>1. /\ at = "resolve"
        /\ \/ at' = "recv" /\ ret' = <<"ttl", "take">> \o ret
           \/ at' = "take" /\ ret' = ret
    BY Zenon, <1>3 DEF Resolve, Goto
  <2>2. ret \in {<<"inflight">>, <<"choose">>}
    BY <2>1 DEF Stacked
  <2>3. \/ at' = "recv" /\ ret' \in {<<"ttl", "take", "inflight">>, <<"ttl", "take", "choose">>}
        \/ at' = "take" /\ ret' \in {<<"inflight">>, <<"choose">>}
    BY Zenon, <2>1, <2>2, StackOps
  <2>4. Stacked'
    BY Zenon, <2>3 DEF Stacked
  <2> QED BY <2>1, <2>3, <2>4
<1>4. CASE WaitAny
  <2>1. at = "wait any" /\ at' = "recv" /\ ret' = <<"ttl", "wait check">> \o ret
    BY Zenon, <1>4 DEF WaitAny
  <2>2. ret = <<>>
    BY Zenon, <2>1 DEF Stacked
  <2>3. ret' = <<"ttl", "wait check">>
    BY Zenon, <2>1, <2>2, StackOps
  <2>4. Stacked'
    BY Zenon, <2>1, <2>3 DEF Stacked
  <2> QED BY Zenon, <2>1, <2>4
<1>5. CASE ReadNow
  <2>1. at = "recv" /\ at' = "expire" /\ ret' = ret
    BY Zenon, <1>5 DEF ReadNow, Goto
  <2> QED BY Zenon, <2>1 DEF Stacked
<1>6. CASE NoneToTake \/ PollReturns
  <2>1. at \in {"take", "expire"} /\ Return
    BY Zenon, <1>6 DEF NoneToTake, PollReturns
  <2> QED BY <2>1, ReturnIsStacked
<1> QED BY Zenon, <1>1, <1>2, <1>3, <1>4, <1>5, <1>6 DEF LoopMove

\* The parts of the invariant that a step leaves alone with their variables.
LEMMA SameProcesses ==
    ASSUME CallInv, UNCHANGED <<slots, current, pc, calls, rax>>
    PROVE  Placed' /\ Answered' /\ \A p : Waits(p)' <=> Waits(p)
<1>1. Placed'
  BY Zenon DEF CallInv, Placed, PlacedAt
<1>2. Answered'
  BY Zenon DEF CallInv, Answered, AnsweredAt
<1> QED BY Zenon, <1>1, <1>2 DEF Waits

\* So are those about the requests.
LEMMA SameRequests ==
    ASSUME CallInv, UNCHANGED <<slots, current, pc, calls, rax, pending, held, inflight, kind, performed>>
    PROVE  Placed' /\ Answered' /\ Awaited' /\ OneEach' /\ Untouched'
<1>1. Awaited'
  BY Zenon, SameProcesses DEF CallInv, Awaited, Requested
<1>2. OneEach'
  BY Zenon DEF CallInv, OneEach
<1>3. Untouched'
  BY Zenon DEF CallInv, Untouched, Call
<1> QED BY Zenon, <1>1, <1>2, <1>3, SameProcesses

\* The loop moves on; nothing else changes.
LEMMA MovesKeep == ASSUME CallInv, LoopMove PROVE CallInv'
<1>1. /\ UNCHANGED <<tableVars, kind, calls, rax, pending, open, inflight, atGateway, replies,
                     held, approved, performed, pc>>
      /\ lag' = lag \/ lag' = 0
  BY Zenon DEF LoopMove, Top, CheckInflight, NothingToDispatch, Outstanding, Resolve, NoneToTake,
       ReadNow, PollReturns, ChooseWait, ChooseTools, WaitAny, WaitCheck, WaitProgress, Progressed,
       Release, callVars
<1>2. Stacked' /\ at \notin {"apply", "agent"} /\ at' # "apply"
  BY Zenon, MovesAreStacked DEF CallInv, LoopShape
<1>3. LoopShape'
  BY Zenon, <1>1, <1>2 DEF CallInv, LoopShape
<1>4. Placed' /\ Answered' /\ Awaited' /\ OneEach' /\ Untouched'
  BY Zenon, <1>1, SameRequests DEF tableVars
<1>5. lag' \in 0 .. MaxLag
  BY <1>1, CallAssumption DEF CallInv, Typed
<1>6. Typed'
  BY Zenon, <1>1, <1>5 DEF CallInv, Typed, TableTypeOK, tableVars
<1>7. Vouched'
  BY Zenon, <1>1 DEF CallInv, Vouched, GatedNeedsApproval
<1> QED BY Zenon, <1>3, <1>4, <1>6, <1>7 DEF CallInv

\* A signed decision arrives, a deadline passes, check_timeouts looks at the
\* deadlines: only the signed requests change.
LEMMA DecisionsKeep ==
    ASSUME CallInv, RecvDecision \/ CheckTimeouts \/ DeadlinePasses
    PROVE  CallInv'
<1>1. UNCHANGED <<tableVars, kind, calls, rax, pending, inflight, lag, atGateway, replies,
                  held, performed, pc>>
  BY Zenon DEF RecvDecision, CheckTimeouts, DeadlinePasses
<1>2. open' \subseteq OpenRecords /\ approved \subseteq approved' /\ approved' \subseteq Ids
  <2>1. CASE RecvDecision
    BY Zenon, <2>1 DEF RecvDecision, CallInv, Typed, OpenRecords
  <2>2. CASE CheckTimeouts
    BY Zenon, <2>2 DEF CheckTimeouts, CallInv, Typed, OpenRecords
  <2>3. CASE DeadlinePasses
    BY Zenon, <2>3 DEF DeadlinePasses, CallInv, Typed, OpenRecords
  <2> QED BY Zenon, <2>1, <2>2, <2>3
<1>3. \A r \in open' : r.outcome = "approved" => r.id \in approved'
  <2>1. CASE RecvDecision
    BY <2>1 DEF RecvDecision, CallInv, Typed, OpenRecords, Vouched
  <2>2. CASE CheckTimeouts
    BY Zenon, <2>2 DEF CheckTimeouts, CallInv, Typed, OpenRecords, Vouched
  <2>3. CASE DeadlinePasses
    BY Zenon, <2>3 DEF DeadlinePasses, CallInv, Typed, OpenRecords, Vouched
  <2> QED BY Zenon, <2>1, <2>2, <2>3
<1>4. LoopShape'
  <2>1. CASE UNCHANGED loopVars
    BY Zenon, <1>1, <2>1 DEF loopVars, CallInv, LoopShape, Stacked
  <2>2. CASE CheckTimeouts
    <3>1. Stacked' /\ at \notin {"apply", "agent"} /\ at' # "apply"
      <4>1. at = "ttl" /\ Return /\ Stacked
        BY Zenon, <2>2 DEF CheckTimeouts, CallInv, LoopShape
      <4> QED BY <4>1, ReturnIsStacked
    <3> QED BY Zenon, <1>1, <3>1 DEF CallInv, LoopShape
  <2> QED BY Zenon, <2>1, <2>2 DEF RecvDecision, DeadlinePasses
<1>5. Placed' /\ Answered' /\ Awaited' /\ OneEach' /\ Untouched'
  BY Zenon, <1>1, SameRequests DEF tableVars
<1>6. Typed'
  BY Zenon, <1>1, <1>2 DEF CallInv, Typed, TableTypeOK, tableVars
<1>7. Vouched'
  BY Zenon, <1>1, <1>2, <1>3 DEF CallInv, Vouched, GatedNeedsApproval
<1> QED BY Zenon, <1>4, <1>5, <1>6, <1>7 DEF CallInv

\* The gateway answers.
LEMMA GatewayKeeps == ASSUME CallInv, GatewayReplies PROVE CallInv'
<1>1. UNCHANGED <<tableVars, kind, calls, rax, pending, open, inflight, lag, held, approved,
                  performed, pc, loopVars>>
  BY Zenon DEF GatewayReplies
<1>2. atGateway' \subseteq Ids /\ replies' \subseteq Ids
  BY DEF GatewayReplies, CallInv, Typed
<1>3. LoopShape'
  BY Zenon, <1>1 DEF loopVars, CallInv, LoopShape, Stacked
<1>4. Placed' /\ Answered' /\ Awaited' /\ OneEach' /\ Untouched'
  BY Zenon, <1>1, SameRequests DEF tableVars
<1>5. Typed'
  BY Zenon, <1>1, <1>2 DEF CallInv, Typed, TableTypeOK, tableVars
<1>6. Vouched'
  BY Zenon, <1>1 DEF CallInv, Vouched, GatedNeedsApproval
<1> QED BY Zenon, <1>3, <1>4, <1>5, <1>6 DEF CallInv

-----------------------------------------------------------------------------
(* Steps of an agent CPU. *)

\* Requests stay as they are while nobody who waits is disturbed.
LEMMA RequestsKeep ==
    ASSUME CallInv, UNCHANGED <<pending, held, inflight>>,
           \A p \in Procs : Waits(p) => Waits(p)' /\ calls'[p] = calls[p] /\ rax'[p] = rax[p]
    PROVE  Awaited' /\ OneEach'
<1>1. \A id \in Ids : Requested(id)' <=> Requested(id)
  BY Zenon DEF Requested
<1>2. Awaited'
  BY Zenon, <1>1, CallIds DEF CallInv, Awaited
<1>3. OneEach'
  BY Zenon DEF CallInv, OneEach
<1> QED BY Zenon, <1>2, <1>3

\* So does what was carried out, while no CPU begins to ask.
LEMMA UntouchedKeep ==
    ASSUME CallInv, UNCHANGED <<kind, calls, performed, pending, held>>,
           \A d \in Cpus : pc'[d] \in {"enqueue", "opened"} =>
              pc[d] \in {"enqueue", "opened"} /\ current'[d] = current[d]
    PROVE  Untouched'
<1>1. \A p : Call(p)' = Call(p)
  BY Zenon DEF Call
<1> QED BY Zenon, <1>1 DEF CallInv, Untouched

\* The loop stands where it stood while an agent makes its call.
LEMMA InCall ==
    ASSUME CallInv, NEW c \in Cpus, NEW s \in Stages, pc[c] # "idle",
           pc' = [pc EXCEPT ![c] = s], UNCHANGED <<held, loopVars>>
    PROVE  LoopShape'
<1>1. \A d \in Cpus : pc'[d] # "idle" => pc[d] # "idle"
  BY Zenon DEF CallInv, Typed
<1>2. UNCHANGED <<at, ret>>
  BY Zenon DEF loopVars
<1> QED BY Zenon, <1>1, <1>2 DEF CallInv, LoopShape, Stacked

\* run_slot, on the slot of the process that is dispatched.
LEMMA DispatchedSlot ==
    ASSUME TableTypeOK, NEW i \in Slots, NEW c \in Cpus, slots' = [slots EXCEPT ![i] = Dispatched(slots[i], c)]
    PROVE  /\ slots' \in [Slots -> Process]
           /\ slots'[i].state = "Running" /\ slots'[i].pid = slots[i].pid
           /\ \A j \in Slots : j # i => slots'[j] = slots[j]
<1>1. slots \in [Slots -> Process] /\ slots[i] \in Process
  BY Zenon DEF TableTypeOK
<1>2. c \in Nat
  BY TableAssumption DEF Cpus
<1>3. /\ Dispatched(slots[i], c) \in Process /\ Dispatched(slots[i], c).state = "Running"
      /\ Dispatched(slots[i], c).pid = slots[i].pid
  BY Zenon, <1>1, <1>2 DEF Dispatched, Process, States
<1> QED BY Zenon, <1>1, <1>3

\* Leave, on the slot of the process that leaves its CPU.
LEMMA LeftSlot ==
    ASSUME TableTypeOK, NEW i \in Slots, NEW s \in States, NEW b \in BOOLEAN,
           slots' = [slots EXCEPT ![i].state = s, ![i].scheduled = @ /\ b]
    PROVE  /\ slots' \in [Slots -> Process]
           /\ slots'[i].state = s /\ slots'[i].pid = slots[i].pid
           /\ \A j \in Slots : j # i => slots'[j] = slots[j]
<1>1. slots \in [Slots -> Process] /\ slots[i] \in Process
  BY Zenon DEF TableTypeOK
<1> DEFINE q == [slots[i] EXCEPT !.state = s, !.scheduled = @ /\ b]
<1>2. q \in Process /\ q.state = s /\ q.pid = slots[i].pid
  BY Zenon, <1>1 DEF Process
<1>3. slots' = [slots EXCEPT ![i] = q]
  BY Zenon, <1>1 DEF Process
<1> HIDE DEF q
<1> QED BY Zenon, <1>1, <1>2, <1>3

\* A CPU dispatches a process that is Ready.
LEMMA EnterKeeps == ASSUME CallInv, NEW c \in Cpus, Enter(c) PROVE CallInv'
<1>1. PICK i \in Slots : DispatchNext(c, i)
  BY Zenon DEF Enter
<1>2. /\ UNCHANGED <<nextPid, slice, budget, callVars, ret>>
      /\ pc' = [pc EXCEPT ![c] = "user"]
      /\ slots' = [slots EXCEPT ![i] = Dispatched(slots[i], c)]
      /\ current' = [current EXCEPT ![c] = slots[i].pid]
      /\ cursor' = [cursor EXCEPT ![c] = i]
      /\ sliceUsed' = [sliceUsed EXCEPT ![c] = 0]
  BY Zenon, <1>1 DEF Enter, DispatchNext
<1>3. slots[i].state = "Ready" /\ pc[c] = "idle"
  BY Zenon, <1>1 DEF Enter, DispatchNext, NextRunnable, OwnQueue, Runnable
<1>4. /\ slots[i].pid = i + 1 /\ i + 1 \in Procs /\ (i + 1) - 1 = i
      /\ current[c] = NoPid
  <2>1. slots[i].pid = i + 1 /\ current[c] = NoPid
    BY Zenon, <1>3 DEF CallInv, Placed, PlacedAt
  <2> QED BY <2>1, ProcSlots
<1>5. ~Waits(i + 1) /\ \A d \in Cpus : current[d] # i + 1
  BY Zenon, <1>3, ReadyIsFree
<1>6. /\ slots' \in [Slots -> Process]
      /\ slots'[i].state = "Running" /\ slots'[i].pid = slots[i].pid
      /\ \A j \in Slots : j # i => slots'[j] = slots[j]
  <2>1. TableTypeOK
    BY Zenon DEF CallInv, Typed
  <2> QED BY Zenon, <1>2, <2>1, DispatchedSlot
<1>7. /\ pc'[c] = "user" /\ current'[c] = i + 1
      /\ \A d \in Cpus \ {c} : pc'[d] = pc[d] /\ current'[d] = current[d]
  BY Zenon, <1>2, <1>4 DEF CallInv, Typed, TableTypeOK
<1>8. UNCHANGED <<kind, calls, rax, pending, open, inflight, lag, atGateway, replies,
                  held, approved, performed>>
  BY Zenon, <1>2 DEF callVars
<1>9. Placed' /\ Answered' /\ \A p \in Procs \ {NoPid, i + 1} : Waits(p) => Waits(p)'
  <2>1. \A j \in Slots : j + 1 = i + 1 => j = i
    BY DEF Slots
  <2>2. \A j \in Slots : slots'[j].pid = slots[j].pid /\ slots'[j].state # "Free"
    BY Zenon, <1>6 DEF CallInv, Placed
  <2>3. \A j \in Slots : j + 1 \notin {current[c], current'[c]} => slots'[j].state = slots[j].state
    BY Zenon, <1>6, <1>7
  <2>4. PlacedAt(c)'
    BY Zenon, <1>4, <1>6, <1>7 DEF PlacedAt
  <2>5. AnsweredAt(c)'
    <3>1. rax[i + 1] = calls[i + 1]
      BY Zenon, <1>3 DEF CallInv, Answered
    <3> QED BY <1>7, <1>8, <3>1 DEF AnsweredAt, Calling
  <2>6. \A j \in Slots : j + 1 \in {current[c], current'[c]} => slots'[j].state # "Ready"
    <3>1. \A j \in Slots : j + 1 # NoPid
      BY DEF Slots, NoPid
    <3> QED BY Zenon, <1>4, <1>6, <1>7, <2>1, <3>1
  <2>7. \A p \in Procs \ {current[c]} : calls'[p] = calls[p] /\ rax'[p] = rax[p]
    BY Zenon, <1>8
  <2>8. current'[c] \in {current[c], NoPid} \/ \A d \in Cpus : current[d] # current'[c]
    BY Zenon, <1>5, <1>7
  <2>9. \A p \in Procs \ {current[c], current'[c]} : Waits(p) => Waits(p)'
    BY Zenon, <1>7, <2>2, <2>3, <2>4, <2>5, <2>6, <2>7, <2>8, OneCpu
  <2>10. Placed' /\ Answered'
    BY Zenon, <1>7, <2>2, <2>3, <2>4, <2>5, <2>6, <2>7, <2>8, OneCpu
  <2> QED BY Zenon, <1>4, <1>7, <2>9, <2>10
<1>10. Awaited' /\ OneEach'
  <2>1. \A p \in Procs : Waits(p) => Waits(p)' /\ calls'[p] = calls[p] /\ rax'[p] = rax[p]
    BY Zenon, <1>5, <1>8, <1>9, ProcSlots
  <2> QED BY Zenon, <1>8, <2>1, RequestsKeep
<1>11. Untouched'
  <2>1. \A d \in Cpus : pc'[d] \in {"enqueue", "opened"} =>
          pc[d] \in {"enqueue", "opened"} /\ current'[d] = current[d]
    BY <1>7
  <2> QED BY Zenon, <1>8, <2>1, UntouchedKeep
<1>12. LoopShape'
  <2>1. CASE Supervise
    <3>1. at' = at
      BY Zenon, <2>1 DEF Enter
    <3> QED BY Zenon, <1>2, <1>8, <2>1, <3>1 DEF CallInv, LoopShape, Stacked
  <2>2. CASE ~Supervise
    <3>1. at = "dispatch" /\ at' = "agent"
      BY Zenon, <2>2 DEF Enter, MayRun
    <3>2. ret = <<>> /\ held = NoRequest
      BY <3>1 DEF CallInv, LoopShape, Stacked
    <3>3. \A d \in Cpus : pc[d] = "idle"
      BY <2>2, <3>1 DEF CallInv, LoopShape
    <3>4. Stacked'
      BY Zenon, <1>2, <3>1, <3>2 DEF Stacked
    <3>5. \A d \in Cpus : pc'[d] # "idle" => d = c
      BY Zenon, <1>7, <3>3
    <3>6. \A d \in Cpus \ {c} : pc'[d] = "idle"
      BY Zenon, <1>7, <3>3
    <3>7. held' = NoRequest
      BY Zenon, <1>8, <3>2
    <3>8. at' # "apply"
      BY <3>1
    <3> QED BY Zenon, <3>1, <3>4, <3>5, <3>6, <3>7, <3>8 DEF LoopShape
  <2> QED BY Zenon, <2>1, <2>2
<1>13. Typed'
  <2>1. current' \in [Cpus -> Nat] /\ sliceUsed' \in [Cpus -> Nat] /\ cursor' \in [Cpus -> Slots]
    <3>1. slots[i].pid \in Nat
      BY <1>4 DEF Slots
    <3> QED BY <1>2, <3>1 DEF CallInv, Typed, TableTypeOK
  <2>2. TableTypeOK'
    BY Zenon, <1>2, <1>6, <2>1 DEF CallInv, Typed, TableTypeOK
  <2>3. pc' \in [Cpus -> Stages]
    BY <1>2 DEF CallInv, Typed, Stages
  <2> QED BY Zenon, <1>8, <2>2, <2>3 DEF CallInv, Typed
<1>14. Vouched'
  BY Zenon, <1>8 DEF CallInv, Vouched, GatedNeedsApproval
<1> QED BY Zenon, <1>9, <1>10, <1>11, <1>12, <1>13, <1>14 DEF CallInv

\* An agent leaves its CPU: it exits, or it blocks after its request was queued.
LEMMA LeaveKeeps ==
    ASSUME CallInv, NEW c \in Cpus, Exit(c) \/ Block(c)
    PROVE  CallInv'
<1>1. PICK s \in {"Zombie", "Blocked"}, b \in BOOLEAN :
        /\ Leave(c, s, b) /\ pc[c] # "idle"
        /\ s = "Zombie" => pc[c] = "user"
  <2>1. CASE Exit(c)
    <3>1. Leave(c, "Zombie", FALSE) /\ pc[c] = "user"
      BY Zenon, <2>1 DEF Exit, ExitCurrent
    <3> QED BY Zenon, <3>1
  <2>2. CASE Block(c)
    <3>1. Leave(c, "Blocked", TRUE) /\ pc[c] = "block"
      BY Zenon, <2>2 DEF Block, BlockCurrent
    <3> QED BY Zenon, <3>1
  <2> QED BY Zenon, <2>1, <2>2
<1>2. /\ UNCHANGED <<callVars, ret>> /\ pc' = [pc EXCEPT ![c] = "idle"] /\ Back
      /\ UNCHANGED <<sliceUsed, cursor, nextPid, slice, budget>>
      /\ current' = [current EXCEPT ![c] = NoPid]
  BY Zenon, <1>1 DEF Exit, Block, Leave
<1>3. PICK i \in Slots : /\ Found(current[c], i)
                         /\ slots' = [slots EXCEPT ![i].state = s, ![i].scheduled = @ /\ b]
  BY Zenon, <1>1 DEF Leave
<1>4. current[c] = i + 1 /\ i + 1 \in Procs /\ (i + 1) - 1 = i
  <2>1. current[c] = i + 1
    BY Zenon, <1>3, FoundAt DEF CallInv
  <2> QED BY <2>1, ProcSlots
<1>5. /\ slots' \in [Slots -> Process]
      /\ slots'[i].state = s /\ slots'[i].pid = slots[i].pid
      /\ \A j \in Slots : j # i => slots'[j] = slots[j]
  <2>1. TableTypeOK
    BY Zenon DEF CallInv, Typed
  <2>2. s \in States
    BY DEF States
  <2> QED BY Zenon, <1>3, <2>1, <2>2, LeftSlot
<1>6. /\ pc'[c] = "idle" /\ current'[c] = NoPid
      /\ \A d \in Cpus \ {c} : pc'[d] = pc[d] /\ current'[d] = current[d]
  BY Zenon, <1>2 DEF CallInv, Typed, TableTypeOK
<1>7. UNCHANGED <<kind, calls, rax, pending, open, inflight, lag, atGateway, replies,
                  held, approved, performed>>
  BY Zenon, <1>2 DEF callVars
<1>8. Placed' /\ Answered' /\ \A p \in Procs \ {i + 1, NoPid} : Waits(p) => Waits(p)'
  <2>1. \A j \in Slots : (j + 1 = i + 1 => j = i) /\ j + 1 # NoPid
    BY DEF Slots, NoPid
  <2>2. \A j \in Slots : slots'[j].pid = slots[j].pid /\ slots'[j].state # "Free"
    <3>1. s # "Free"
      OBVIOUS
    <3> QED BY Zenon, <1>5, <3>1 DEF CallInv, Placed
  <2>3. \A j \in Slots : j + 1 \notin {current[c], current'[c]} => slots'[j].state = slots[j].state
    BY Zenon, <1>4, <1>5
  <2>4. PlacedAt(c)'
    BY Zenon, <1>6 DEF PlacedAt
  <2>5. AnsweredAt(c)'
    BY <1>6 DEF AnsweredAt, Calling
  <2>6. \A j \in Slots : j + 1 \in {current[c], current'[c]} => slots'[j].state # "Ready"
    <3>1. s # "Ready"
      OBVIOUS
    <3> QED BY Zenon, <1>4, <1>5, <1>6, <2>1, <3>1
  <2>7. \A p \in Procs \ {current[c]} : calls'[p] = calls[p] /\ rax'[p] = rax[p]
    BY Zenon, <1>7
  <2>8. current'[c] \in {current[c], NoPid} \/ \A d \in Cpus : current[d] # current'[c]
    BY Zenon, <1>6
  <2>9. \A p \in Procs \ {current[c], current'[c]} : Waits(p) => Waits(p)'
    BY Zenon, <1>6, <2>2, <2>3, <2>4, <2>5, <2>6, <2>7, <2>8, OneCpu
  <2>10. Placed' /\ Answered'
    BY Zenon, <1>6, <2>2, <2>3, <2>4, <2>5, <2>6, <2>7, <2>8, OneCpu
  <2> QED BY Zenon, <1>4, <1>6, <2>9, <2>10
<1>9. Awaited' /\ OneEach'
  <2>1. Waits(i + 1) => Waits(i + 1)'
    <3>1. CASE s = "Blocked"
      BY Zenon, <1>4, <1>5, <3>1 DEF Waits
    <3>2. CASE s = "Zombie"
      <4>1. pc[c] \notin {"idle", "block"}
        BY <1>1, <3>2
      <4> QED BY Zenon, <1>4, <4>1, NotWaiting
    <3> QED BY <3>1, <3>2
  <2>2. \A p \in Procs : Waits(p) => Waits(p)' /\ calls'[p] = calls[p] /\ rax'[p] = rax[p]
    BY Zenon, <1>7, <1>8, <2>1, ProcSlots
  <2> QED BY Zenon, <1>7, <2>2, RequestsKeep
<1>10. Untouched'
  <2>1. \A d \in Cpus : pc'[d] \in {"enqueue", "opened"} =>
          pc[d] \in {"enqueue", "opened"} /\ current'[d] = current[d]
    BY <1>6
  <2> QED BY Zenon, <1>7, <2>1, UntouchedKeep
<1>11. LoopShape'
  <2>1. CASE Supervise
    <3>1. at' = at
      BY Zenon, <1>2, <2>1 DEF Back
    <3> QED BY Zenon, <1>2, <1>7, <2>1, <3>1 DEF CallInv, LoopShape, Stacked
  <2>2. CASE ~Supervise
    <3>1. at = "agent" /\ at' = "top" /\ \A d \in Cpus \ {c} : pc[d] = "idle"
      BY Zenon, <1>1, <1>2, <2>2 DEF Back, CallInv, LoopShape
    <3>2. ret = <<>> /\ held = NoRequest
      BY <3>1 DEF CallInv, LoopShape, Stacked
    <3>3. Stacked'
      BY Zenon, <1>2, <3>1, <3>2 DEF Stacked
    <3>4. \A d \in Cpus : pc'[d] = "idle"
      BY Zenon, <1>6, <3>1
    <3>5. held' = NoRequest
      BY Zenon, <1>7, <3>2
    <3>6. at' # "apply"
      BY <3>1
    <3> QED BY Zenon, <3>3, <3>4, <3>5, <3>6 DEF LoopShape
  <2> QED BY Zenon, <2>1, <2>2
<1>12. Typed'
  <2>1. current' \in [Cpus -> Nat]
    BY <1>2 DEF CallInv, Typed, TableTypeOK, NoPid
  <2>2. TableTypeOK'
    BY Zenon, <1>2, <1>5, <2>1 DEF CallInv, Typed, TableTypeOK
  <2>3. pc' \in [Cpus -> Stages]
    BY <1>2 DEF CallInv, Typed, Stages
  <2> QED BY Zenon, <1>7, <2>2, <2>3 DEF CallInv, Typed
<1>13. Vouched'
  BY Zenon, <1>7 DEF CallInv, Vouched, GatedNeedsApproval
<1> QED BY Zenon, <1>8, <1>9, <1>10, <1>11, <1>12, <1>13 DEF CallInv

\* A CPU goes on with a call of its process; only that process is concerned.
LEMMA OwnCall ==
    ASSUME CallInv, NEW c \in Cpus, NEW s \in Stages \ {"idle"}, pc[c] # "idle",
           pc' = [pc EXCEPT ![c] = s], UNCHANGED <<slots, current>>,
           \A q \in Procs \ {current[c]} : calls'[q] = calls[q] /\ rax'[q] = rax[q],
           AnsweredAt(c)'
    PROVE  /\ Placed' /\ Answered'
           /\ \A q \in Procs \ {current[c]} : Waits(q) => Waits(q)'
<1> DEFINE p == current[c]
<1>1. p \in Procs /\ slots[p - 1].state = "Running" /\ pc'[c] # "idle"
  BY Zenon DEF CallInv, Typed, Placed, PlacedAt
<1>2. \A j \in Slots : slots'[j].pid = slots[j].pid /\ slots'[j].state # "Free"
  BY Zenon DEF CallInv, Placed
<1>3. \A j \in Slots : j + 1 \notin {current[c], current'[c]} => slots'[j].state = slots[j].state
  OBVIOUS
<1>4. PlacedAt(c)'
  BY Zenon, <1>1 DEF PlacedAt
<1>5. \A j \in Slots : j + 1 \in {current[c], current'[c]} => slots'[j].state # "Ready"
  <2>1. ASSUME NEW j \in Slots, j + 1 = p PROVE j = p - 1
    BY <2>1 DEF Slots
  <2>2. "Running" # "Ready"
    OBVIOUS
  <2> QED BY Zenon, <1>1, <2>1, <2>2
<1>6. \A d \in Cpus \ {c} : pc'[d] = pc[d] /\ current'[d] = current[d]
  BY Zenon DEF CallInv, Typed
<1>7. current'[c] \in {current[c], NoPid} \/ \A d \in Cpus : current[d] # current'[c]
  BY Zenon
<1>8. \A q \in Procs \ {current[c], current'[c]} : Waits(q) => Waits(q)'
  BY Zenon, <1>2, <1>3, <1>4, <1>5, <1>6, <1>7, OneCpu
<1>9. Placed' /\ Answered'
  BY Zenon, <1>2, <1>3, <1>4, <1>5, <1>6, <1>7, OneCpu
<1> QED BY Zenon, <1>8, <1>9

\* A call begins: it has a number of its own.
LEMMA AskKeeps == ASSUME CallInv, NEW c \in Cpus, Ask(c) PROVE CallInv'
<1> DEFINE p == current[c]
<1>1. PICK k \in Kinds[p] :
        /\ kind' = [kind EXCEPT ![p] = k]
        /\ pc' = [pc EXCEPT ![c] = IF Gated(k) THEN "enqueue" ELSE "send"]
  BY Zenon DEF Ask
<1>2. /\ pc[c] = "user" /\ calls[p] < MaxCalls[p] /\ calls' = [calls EXCEPT ![p] = @ + 1]
      /\ UNCHANGED <<tableVars, rax, pending, open, inflight, lag, atGateway, replies,
                     held, approved, performed, loopVars>>
  BY Zenon DEF Ask
<1>3. p \in Procs /\ ~Waits(p)
  <2>1. pc[c] \notin {"idle", "block"}
    BY <1>2
  <2> QED BY Zenon, <2>1, NotWaiting
<1>4. k \in CallKinds
  BY Zenon, <1>1, <1>3, CallAssumption
<1>5. /\ calls' \in [Procs -> Nat] /\ calls'[p] = calls[p] + 1
      /\ \A q \in Procs \ {p} : calls'[q] = calls[q]
      /\ kind' \in [Procs -> CallKinds \cup {"none"}] /\ kind'[p] = k
      /\ \A q \in Procs \ {p} : kind'[q] = kind[q]
  BY <1>1, <1>2, <1>3, <1>4 DEF CallInv, Typed
<1> DEFINE s == IF Gated(k) THEN "enqueue" ELSE "send"
<1>6. s \in {"enqueue", "send"} /\ s \in Calling /\ s \in Stages /\ (s = "enqueue" => Gated(k))
  BY DEF Calling, Stages
<1>7. pc'[c] = s /\ \A d \in Cpus \ {c} : pc'[d] = pc[d]
  BY Zenon, <1>1 DEF CallInv, Typed
<1>8. pc' = [pc EXCEPT ![c] = s]
  BY Zenon, <1>1
<1> HIDE DEF s
<1>9. UNCHANGED <<slots, current>>
  BY Zenon, <1>2 DEF tableVars
<1>10. Placed' /\ Answered' /\ \A q \in Procs \ {p} : Waits(q) => Waits(q)'
  <2>1. AnsweredAt(c)'
    <3>1. rax[p] <= calls[p] /\ rax[p] \in Nat /\ calls[p] \in Nat
      BY Zenon, <1>3 DEF CallInv, Typed
    <3>2. rax'[p] = rax[p] /\ calls'[p] = calls[p] + 1
      BY Zenon, <1>2, <1>3, <1>5
    <3>3. rax'[p] # calls'[p]
      BY <3>1, <3>2
    <3> QED BY Zenon, <1>6, <1>7, <1>9, <3>3 DEF AnsweredAt, Calling
  <2>2. \A q \in Procs \ {current[c]} : calls'[q] = calls[q] /\ rax'[q] = rax[q]
    BY Zenon, <1>2, <1>5
  <2>3. pc[c] # "idle" /\ s \in Stages \ {"idle"}
    BY <1>2, <1>6
  <2>4. \A q \in Procs \ {current[c]} : Waits(q) => Waits(q)'
    BY Zenon, <1>8, <1>9, <2>1, <2>2, <2>3, OwnCall
  <2>5. Placed' /\ Answered'
    BY Zenon, <1>8, <1>9, <2>1, <2>2, <2>3, OwnCall
  <2> QED BY Zenon, <2>4, <2>5
<1>11. Awaited' /\ OneEach'
  <2>1. \A q \in Procs : Waits(q) => Waits(q)' /\ calls'[q] = calls[q] /\ rax'[q] = rax[q]
    BY Zenon, <1>2, <1>3, <1>5, <1>10
  <2> QED BY Zenon, <1>2, <2>1, RequestsKeep
<1>12. Untouched'
  <2>1. \A id \in Ids : id[2] > calls'[id[1]] => performed'[id] = 0
    <3>1. ASSUME NEW id \in Ids, id[2] > calls'[id[1]] PROVE id[2] > calls[id[1]]
      <4>1. calls[id[1]] \in Nat /\ id[2] \in Int /\ id[1] \in Procs
        BY CallIds DEF CallInv, Typed
      <4>2. CASE id[1] = p
        <5>1. calls'[id[1]] = calls[id[1]] + 1
          BY Zenon, <1>5, <4>2
        <5> QED BY <3>1, <4>1, <5>1
      <4>3. CASE id[1] # p
        BY Zenon, <1>5, <3>1, <4>1, <4>3
      <4> QED BY Zenon, <4>2, <4>3
    <3> QED BY Zenon, <1>2, <3>1 DEF CallInv, Untouched
  <2>2. ASSUME NEW d \in Cpus, pc'[d] \in {"enqueue", "opened"}
        PROVE  Gated(kind'[current'[d]]) /\ performed'[Call(current[d])'] = 0
    <3>1. CASE d = c
      <4>1. Gated(kind'[p])
        <5>1. s = "enqueue"
          BY Zenon, <1>6, <1>7, <2>2, <3>1
        <5> QED BY Zenon, <1>5, <1>6, <5>1
      <4>2. <<p, calls[p] + 1>> \in Ids /\ calls[p] + 1 > calls[p]
        <5>1. calls[p] + 1 \in 0 .. MaxCalls[p] /\ calls[p] + 1 > calls[p]
          BY <1>2, <1>3, CallAssumption DEF CallInv, Typed
        <5> QED BY Zenon, <1>3, <5>1, CallIds
      <4>3. performed[<<p, calls[p] + 1>>] = 0
        <5>1. <<p, calls[p] + 1>>[1] = p /\ <<p, calls[p] + 1>>[2] = calls[p] + 1
          OBVIOUS
        <5> QED BY Zenon, <4>2, <5>1 DEF CallInv, Untouched
      <4>4. Call(current[d])' = <<p, calls[p] + 1>> /\ current'[d] = p
        BY Zenon, <1>5, <1>9, <3>1 DEF Call
      <4> QED BY Zenon, <1>2, <4>1, <4>3, <4>4
    <3>2. CASE d # c
      <4>1. pc[d] \in {"enqueue", "opened"} /\ pc[d] # "idle" /\ pc[c] # "idle"
        BY Zenon, <1>2, <1>7, <2>2, <3>2
      <4>2. current[d] # p /\ current[d] \in Procs
        BY Zenon, <3>2, <4>1 DEF CallInv, Placed, PlacedAt
      <4>3. Call(current[d])' = Call(current[d]) /\ kind'[current'[d]] = kind[current[d]]
        BY Zenon, <1>5, <1>9, <4>2 DEF Call
      <4> QED BY Zenon, <1>2, <4>1, <4>3 DEF CallInv, Untouched
    <3> QED BY Zenon, <3>1, <3>2
  <2>3. \A k_1 \in 1 .. Len(pending') : performed'[pending'[k_1].id] = 0
    BY Zenon, <1>2 DEF CallInv, Untouched
  <2>4. held'.id \in Ids => performed'[held'.id] = 0
    BY Zenon, <1>2 DEF CallInv, Untouched
  <2> QED BY Zenon, <2>1, <2>2, <2>3, <2>4 DEF Untouched
<1>13. LoopShape'
  <2>1. pc[c] # "idle"
    BY <1>2
  <2> QED BY Zenon, <1>2, <1>6, <1>8, <2>1, InCall
<1>14. Typed'
  <2>1. pc' \in [Cpus -> Stages]
    BY Zenon, <1>6, <1>8 DEF CallInv, Typed
  <2>2. \A q \in Procs : calls'[q] <= MaxCalls[q] /\ rax'[q] <= calls'[q]
    <3>1. ASSUME NEW q \in Procs PROVE calls'[q] <= MaxCalls[q] /\ rax'[q] <= calls'[q]
      <4>1. /\ calls[q] \in Nat /\ rax[q] \in Nat /\ MaxCalls[q] \in Nat
            /\ calls[q] <= MaxCalls[q] /\ rax[q] <= calls[q] /\ rax'[q] = rax[q]
        BY Zenon, <1>2, CallAssumption DEF CallInv, Typed
      <4>2. CASE q = p
        <5>1. calls'[q] = calls[q] + 1 /\ calls[q] < MaxCalls[q]
          BY Zenon, <1>2, <1>5, <4>2
        <5> QED BY <4>1, <5>1
      <4>3. CASE q # p
        BY Zenon, <1>5, <4>1, <4>3
      <4> QED BY Zenon, <4>2, <4>3
    <3> QED BY Zenon, <3>1
  <2>3. TableTypeOK'
    BY Zenon, <1>2 DEF CallInv, Typed, TableTypeOK, tableVars
  <2> QED BY Zenon, <1>2, <1>5, <2>1, <2>2, <2>3 DEF CallInv, Typed
<1>15. Vouched'
  BY Zenon, <1>2 DEF CallInv, Vouched, GatedNeedsApproval
<1> QED BY Zenon, <1>10, <1>11, <1>12, <1>13, <1>14, <1>15 DEF CallInv

\* The handler refuses: the errno answers the call.
LEMMA RefuseKeeps ==
    ASSUME CallInv, NEW c \in Cpus, pc[c] \in Calling \ {"block"}, Refuse(c),
           UNCHANGED <<tableVars, kind, calls, pending, open, inflight, lag, atGateway, replies,
                       held, approved, performed, loopVars>>
    PROVE  CallInv'
<1> DEFINE p == current[c]
<1>1. p \in Procs /\ ~Waits(p) /\ pc[c] # "idle"
  <2>1. pc[c] \notin {"idle", "block"}
    BY DEF Calling
  <2> QED BY Zenon, <2>1, NotWaiting
<1>2. rax' = [rax EXCEPT ![p] = calls[p]] /\ pc' = [pc EXCEPT ![c] = "user"]
  BY Zenon DEF Refuse
<1>3. UNCHANGED <<slots, current>>
  BY Zenon DEF tableVars
<1>4. rax' \in [Procs -> Nat] /\ rax'[p] = calls[p] /\ \A q \in Procs \ {p} : rax'[q] = rax[q]
  BY Zenon, <1>1, <1>2 DEF CallInv, Typed
<1>5. "user" \in Stages /\ "user" \in Stages \ {"idle"} /\ "user" \notin Calling
  BY DEF Stages, Calling
<1>6. pc'[c] = "user" /\ \A d \in Cpus \ {c} : pc'[d] = pc[d]
  BY Zenon, <1>2 DEF CallInv, Typed
<1>7. AnsweredAt(c)'
  BY Zenon, <1>3, <1>4, <1>5, <1>6 DEF AnsweredAt
<1>8. Placed' /\ Answered'
  BY Zenon, <1>1, <1>2, <1>3, <1>4, <1>5, <1>7, OwnCall
<1>9. \A q \in Procs \ {current[c]} : Waits(q) => Waits(q)'
  BY Zenon, <1>1, <1>2, <1>3, <1>4, <1>5, <1>7, OwnCall
<1>10. Awaited' /\ OneEach'
  <2>1. \A q \in Procs : Waits(q) => Waits(q)' /\ calls'[q] = calls[q] /\ rax'[q] = rax[q]
    BY Zenon, <1>1, <1>4, <1>9
  <2> QED BY Zenon, <2>1, RequestsKeep
<1>11. Untouched'
  <2>1. \A d \in Cpus : pc'[d] \in {"enqueue", "opened"} =>
          pc[d] \in {"enqueue", "opened"} /\ current'[d] = current[d]
    BY <1>3, <1>6
  <2> QED BY Zenon, <2>1, UntouchedKeep
<1>12. LoopShape'
  BY Zenon, <1>1, <1>2, <1>5, InCall
<1>13. Typed'
  <2>1. pc' \in [Cpus -> Stages]
    BY Zenon, <1>2, <1>5 DEF CallInv, Typed
  <2>2. \A q \in Procs : calls'[q] <= MaxCalls[q] /\ rax'[q] <= calls'[q]
    <3>1. calls[p] <= calls[p]
      BY <1>1 DEF CallInv, Typed
    <3> QED BY Zenon, <1>4, <3>1 DEF CallInv, Typed
  <2>3. TableTypeOK'
    BY Zenon DEF CallInv, Typed, TableTypeOK, tableVars
  <2> QED BY Zenon, <1>4, <2>1, <2>2, <2>3 DEF CallInv, Typed
<1>14. Vouched'
  BY Zenon DEF CallInv, Vouched, GatedNeedsApproval
<1> QED BY Zenon, <1>8, <1>10, <1>11, <1>12, <1>13, <1>14 DEF CallInv

\* A call goes on in its handler: the parts about processes and the loop.
LEMMA HandlerGoesOn ==
    ASSUME CallInv, NEW c \in Cpus, pc[c] \in Calling, NEW s \in Calling, s # "enqueue",
           pc' = [pc EXCEPT ![c] = s],
           UNCHANGED <<tableVars, kind, calls, rax, lag, replies, held, approved, performed, loopVars>>
    PROVE  /\ Placed' /\ Answered' /\ LoopShape' /\ TableTypeOK' /\ pc' \in [Cpus -> Stages]
           /\ pc'[c] = s /\ \A d \in Cpus \ {c} : pc'[d] = pc[d]
           /\ \A q \in Procs : Waits(q) => q = current[c] \/ Waits(q)'
           /\ \A q : Call(q)' = Call(q)
<1>1. pc[c] # "idle" /\ s \in Stages /\ s \in Stages \ {"idle"} /\ s # "user"
  BY DEF Calling, Stages
<1>2. UNCHANGED <<slots, current>>
  BY Zenon DEF tableVars
<1>3. pc'[c] = s /\ \A d \in Cpus \ {c} : pc'[d] = pc[d]
  BY Zenon DEF CallInv, Typed
<1>4. AnsweredAt(c)'
  <2>1. rax[current[c]] # calls[current[c]]
    BY Zenon DEF CallInv, Answered, AnsweredAt
  <2> QED BY Zenon, <1>1, <1>2, <1>3, <2>1 DEF AnsweredAt
<1>5. Placed' /\ Answered'
  BY Zenon, <1>1, <1>2, <1>4, OwnCall
<1>6. \A q \in Procs \ {current[c]} : Waits(q) => Waits(q)'
  BY Zenon, <1>1, <1>2, <1>4, OwnCall
<1>7. LoopShape'
  BY Zenon, <1>1, InCall
<1>8. pc' \in [Cpus -> Stages]
  BY Zenon, <1>1 DEF CallInv, Typed
<1>9. TableTypeOK'
  BY Zenon DEF CallInv, Typed, TableTypeOK, tableVars
<1> QED BY Zenon, <1>3, <1>5, <1>6, <1>7, <1>8, <1>9 DEF Call

\* The request is sent to the operators, or the tool call to the gateway.
LEMMA SendKeeps ==
    ASSUME CallInv, NEW c \in Cpus, OpenSigned(c) \/ SendCall(c)
    PROVE  CallInv'
<1>1. CASE SendCall(c) /\ Refuse(c)
  <2>1. pc[c] \in Calling \ {"block"}
    BY <1>1 DEF SendCall, Calling
  <2>2. UNCHANGED <<tableVars, kind, calls, pending, open, inflight, lag, replies,
                    held, approved, performed, loopVars>>
    BY Zenon, <1>1 DEF SendCall
  <2>3. CASE UNCHANGED atGateway
    BY Zenon, <1>1, <2>1, <2>2, <2>3, RefuseKeeps
  <2>4. CASE pc' = [pc EXCEPT ![c] = "sent"]
    <3>1. pc' = [pc EXCEPT ![c] = "user"] /\ "user" # "sent"
      BY <1>1 DEF Refuse
    <3>2. pc'[c] = "user" /\ pc'[c] = "sent"
      BY Zenon, <2>4, <3>1 DEF CallInv, Typed
    <3> QED BY <3>2
  <2> QED BY Zenon, <1>1, <2>3, <2>4 DEF SendCall
<1>2. CASE OpenSigned(c) \/ (SendCall(c) /\ ~Refuse(c))
  <2>1. /\ UNCHANGED <<tableVars, kind, calls, rax, pending, inflight, lag, replies,
                       held, approved, performed, loopVars>>
        /\ \/ /\ pc[c] = "enqueue" /\ pc' = [pc EXCEPT ![c] = "opened"] /\ UNCHANGED atGateway
              /\ open' = open \cup {[id |-> Call(current[c]), late |-> FALSE, outcome |-> "none"]}
           \/ /\ pc[c] = "send" /\ pc' = [pc EXCEPT ![c] = "sent"] /\ UNCHANGED open
              /\ atGateway' = atGateway \cup {Call(current[c])}
    BY Zenon, <1>2 DEF OpenSigned, SendCall
  <2>2. PICK s \in {"opened", "sent"} :
          /\ pc' = [pc EXCEPT ![c] = s] /\ pc[c] \in {"enqueue", "send"}
          /\ s = "opened" => pc[c] = "enqueue"
    BY <2>1
  <2>3. pc[c] \in Calling /\ s \in Calling /\ s # "enqueue" /\ pc[c] \notin {"idle", "block"}
    BY <2>2 DEF Calling
  <2>4. /\ Placed' /\ Answered' /\ LoopShape' /\ TableTypeOK' /\ pc' \in [Cpus -> Stages]
        /\ pc'[c] = s /\ \A d \in Cpus \ {c} : pc'[d] = pc[d]
        /\ \A q \in Procs : Waits(q) => q = current[c] \/ Waits(q)'
    BY Zenon, <2>1, <2>2, <2>3, HandlerGoesOn
  <2>5. current[c] \in Procs /\ ~Waits(current[c])
    BY Zenon, <2>3, NotWaiting
  <2>6. Awaited' /\ OneEach'
    BY Zenon, <2>1, <2>4, <2>5, RequestsKeep
  <2>7. Untouched'
    <3>1. \A d \in Cpus : pc'[d] \in {"enqueue", "opened"} =>
            pc[d] \in {"enqueue", "opened"} /\ current'[d] = current[d]
      <4>1. UNCHANGED current
        BY Zenon, <2>1 DEF tableVars
      <4> QED BY <2>2, <2>4, <4>1
    <3> QED BY Zenon, <2>1, <3>1, UntouchedKeep
  <2>8. Call(current[c]) \in Ids
    <3>1. calls[current[c]] \in 0 .. MaxCalls[current[c]]
      BY <2>5, CallAssumption DEF CallInv, Typed
    <3> QED BY Zenon, <2>5, <3>1, CallIds DEF Call
  <2>9. open' \subseteq OpenRecords /\ atGateway' \subseteq Ids
    <3>1. [id |-> Call(current[c]), late |-> FALSE, outcome |-> "none"] \in OpenRecords
      BY <2>8 DEF OpenRecords
    <3>2. open \subseteq OpenRecords /\ atGateway \subseteq Ids
      BY Zenon DEF CallInv, Typed
    <3> QED BY Zenon, <2>1, <2>8, <3>1, <3>2
  <2>10. Typed'
    BY Zenon, <2>1, <2>4, <2>9 DEF CallInv, Typed
  <2>11. Vouched'
    <3>1. \A r \in open' : r \in open \/ r.outcome = "none"
      BY <2>1
    <3>2. "none" # "approved"
      OBVIOUS
    <3> QED BY Zenon, <2>1, <3>1, <3>2 DEF CallInv, Vouched, GatedNeedsApproval
  <2> QED BY Zenon, <2>4, <2>6, <2>7, <2>10, <2>11 DEF CallInv
<1> QED BY Zenon, <1>1, <1>2

\* Append, element by element.
LEMMA Appended ==
    ASSUME NEW S, NEW q \in Seq(S), NEW x \in S
    PROVE  /\ Append(q, x) \in Seq(S) /\ Len(Append(q, x)) = Len(q) + 1
           /\ \A k \in 1 .. Len(q) : Append(q, x)[k] = q[k]
           /\ Append(q, x)[Len(q) + 1] = x
           /\ \A k \in 1 .. Len(Append(q, x)) : k \in 1 .. Len(q) \/ k = Len(q) + 1
           /\ Len(q) + 1 \notin 1 .. Len(q) /\ Len(q) + 1 \in 1 .. Len(Append(q, x))
<1>1. Append(q, x) \in Seq(S) /\ Len(Append(q, x)) = Len(q) + 1 /\ Len(q) \in Nat
  OBVIOUS
<1>2. \A k \in 1 .. Len(q) : Append(q, x)[k] = q[k]
  OBVIOUS
<1>3. Append(q, x)[Len(q) + 1] = x
  OBVIOUS
<1>4. /\ \A k \in 1 .. Len(Append(q, x)) : k \in 1 .. Len(q) \/ k = Len(q) + 1
      /\ Len(q) + 1 \notin 1 .. Len(q) /\ Len(q) + 1 \in 1 .. Len(Append(q, x))
  BY <1>1
<1> QED BY Zenon, <1>1, <1>2, <1>3, <1>4

\* Every request is of a call.
LEMMA RequestIds ==
    ASSUME CallInv
    PROVE  /\ \A k \in 1 .. Len(pending) : pending[k] \in RequestRecords /\ pending[k].id \in Ids
           /\ \A e \in inflight : e.id \in Ids
           /\ held.id \in Ids \/ held = NoRequest
<1>1. \A k \in 1 .. Len(pending) : pending[k] \in RequestRecords
  BY DEF CallInv, Typed
<1>2. \A r \in RequestRecords : r.id \in Ids
  BY Zenon DEF RequestRecords
<1>3. \A e \in inflight : e.id \in Ids
  BY Zenon DEF CallInv, Typed, Flights
<1> QED BY Zenon, <1>1, <1>2, <1>3 DEF CallInv, LoopShape

\* The call a process is making, and that nobody has its request yet.
LEMMA OwnRequest ==
    ASSUME CallInv, NEW c \in Cpus, pc[c] \in Calling \ {"block"}
    PROVE  /\ current[c] \in Procs /\ Call(current[c]) \in Ids
           /\ Call(current[c])[1] = current[c] /\ Call(current[c])[2] = calls[current[c]]
           /\ rax[current[c]] # calls[current[c]]
           /\ \A k \in 1 .. Len(pending) : pending[k].id[1] # current[c]
           /\ \A e \in inflight : e.id[1] # current[c]
           /\ held.id[1] # current[c]
           /\ ~Waits(current[c]) /\ ~ \E id \in Ids : Requested(id) /\ id[1] = current[c]
<1>1. pc[c] \notin {"idle", "block"} /\ pc[c] \in Calling
  BY DEF Calling
<1>2. current[c] \in Procs /\ ~Waits(current[c])
  BY Zenon, <1>1, NotWaiting
<1>3. \A id \in Ids : Requested(id) => id[1] # current[c]
  BY Zenon, <1>2, NoneRequested
<1>4. calls[current[c]] \in 0 .. MaxCalls[current[c]]
  BY <1>2, CallAssumption DEF CallInv, Typed
<1>5. Call(current[c]) \in Ids
  BY Zenon, <1>2, <1>4, CallIds DEF Call
<1>6. Call(current[c])[1] = current[c] /\ Call(current[c])[2] = calls[current[c]]
  BY DEF Call
<1>7. rax[current[c]] # calls[current[c]]
  BY Zenon, <1>1 DEF CallInv, Answered, AnsweredAt
<1>8. held.id[1] # current[c]
  BY Zenon, <1>2, <1>3, RequestIds, NoRequestIsNone DEF Requested
<1> QED BY Zenon, <1>2, <1>3, <1>5, <1>6, <1>7, <1>8, RequestIds DEF Requested

-----------------------------------------------------------------------------
(* Steps of the loop that take, decide and answer requests. *)

\* unblock, for the process of a request: it answers that process's latest
\* call, or is lost on a process that is not Blocked yet.
LEMMA AnswerFacts ==
    ASSUME CallInv, NEW id \in Ids, Requested(id), Answer(id), UNCHANGED <<pc, calls>>
    PROVE  /\ Placed' /\ Answered' /\ TableTypeOK'
           /\ rax' \in [Procs -> Nat] /\ \A p \in Procs : rax'[p] <= calls[p]
           /\ UNCHANGED current
           /\ \A p \in Procs : p # id[1] => rax'[p] = rax[p] /\ (Waits(p) => Waits(p)')
           /\ \A p \in Procs : Waits(p)' => Waits(p)
           /\ (\A c \in Cpus : pc[c] = "idle") => ~Waits(id[1])'
<1>1. /\ id[1] \in Procs /\ id[1] - 1 \in Slots /\ (id[1] - 1) + 1 = id[1]
      /\ id[2] = calls[id[1]] /\ Waits(id[1])
  BY Zenon, CallIds, ProcSlots DEF CallInv, Awaited
<1>2. CASE Unblock(id[1]) /\ rax' = [rax EXCEPT ![id[1]] = id[2]]
  <2>1. PICK i \in Slots : /\ Found(id[1], i) /\ slots[i].state = "Blocked"
                           /\ slots' = [slots EXCEPT ![i].state = "Ready"]
    BY Zenon, <1>2 DEF Unblock
  <2>2. UNCHANGED <<current, sliceUsed, cursor, nextPid, slice, budget>>
    BY Zenon, <1>2 DEF Unblock
  <2>3. id[1] = i + 1 /\ i = id[1] - 1
    <3>1. id[1] = i + 1
      BY Zenon, <2>1, FoundAt DEF CallInv
    <3> QED BY <3>1 DEF Slots
  <2>4. /\ slots' \in [Slots -> Process]
        /\ slots'[i].state = "Ready" /\ slots'[i].pid = slots[i].pid
        /\ \A j \in Slots : j # i => slots'[j] = slots[j]
    <3>1. slots \in [Slots -> Process] /\ slots[i] \in Process
      BY Zenon DEF CallInv, Typed, TableTypeOK
    <3> DEFINE q == [slots[i] EXCEPT !.state = "Ready"]
    <3>2. q \in Process /\ q.state = "Ready" /\ q.pid = slots[i].pid
      BY <3>1 DEF Process, States
    <3>3. slots' = [slots EXCEPT ![i] = q]
      BY Zenon, <2>1
    <3> HIDE DEF q
    <3> QED BY Zenon, <3>1, <3>2, <3>3
  <2>5. /\ rax' \in [Procs -> Nat] /\ rax'[id[1]] = calls[id[1]]
        /\ \A p \in Procs : p # id[1] => rax'[p] = rax[p]
    BY Zenon, <1>1, <1>2 DEF CallInv, Typed
  <2>6. ASSUME NEW d \in Cpus, pc[d] # "idle"
        PROVE  /\ current[d] \in Procs /\ current[d] # id[1]
               /\ slots'[current[d] - 1] = slots[current[d] - 1]
    <3>1. current[d] \in Procs /\ slots[current[d] - 1].state = "Running" /\ current[d] - 1 \in Slots
      BY Zenon, <2>6, ProcSlots DEF CallInv, Placed, PlacedAt
    <3>2. current[d] - 1 # i
      BY <2>1, <3>1
    <3> QED BY Zenon, <2>3, <2>4, <3>1, <3>2
  <2>7. Placed'
    <3>1. \A j \in Slots : slots'[j].pid = j + 1 /\ slots'[j].state # "Free"
      <4>1. "Ready" # "Free"
        OBVIOUS
      <4> QED BY Zenon, <2>4, <4>1 DEF CallInv, Placed
    <3>2. \A c \in Cpus : PlacedAt(c)'
      BY Zenon, <2>2, <2>6 DEF CallInv, Placed, PlacedAt
    <3> QED BY Zenon, <2>2, <3>1, <3>2 DEF CallInv, Placed
  <2>8. Answered'
    <3>1. ASSUME NEW j \in Slots, slots'[j].state = "Ready" PROVE rax'[j + 1] = calls[j + 1]
      <4>1. CASE j = i
        BY Zenon, <2>3, <2>5, <4>1
      <4>2. CASE j # i
        <5>1. j + 1 \in Procs /\ j + 1 # id[1]
          BY <2>3, <4>2, ProcSlots DEF Slots
        <5> QED BY Zenon, <2>4, <2>5, <3>1, <4>2, <5>1 DEF CallInv, Answered
      <4> QED BY Zenon, <4>1, <4>2
    <3>2. ASSUME NEW d \in Cpus PROVE AnsweredAt(d)'
      <4>1. AnsweredAt(d)
        BY Zenon DEF CallInv, Answered
      <4>2. CASE pc[d] = "idle"
        BY <4>2 DEF AnsweredAt, Calling
      <4>3. CASE pc[d] # "idle"
        <5>1. rax'[current[d]] = rax[current[d]]
          BY Zenon, <2>5, <2>6, <4>3
        <5> QED BY Zenon, <2>2, <4>1, <5>1 DEF AnsweredAt
      <4> QED BY Zenon, <4>2, <4>3
    <3> QED BY Zenon, <3>1, <3>2 DEF Answered
  <2>9. TableTypeOK'
    BY Zenon, <2>2, <2>4 DEF CallInv, Typed, TableTypeOK
  <2>10. ASSUME NEW p \in Procs, p # id[1] PROVE Waits(p)' <=> Waits(p)
    <3>1. slots'[p - 1] = slots[p - 1]
      <4>1. p - 1 \in Slots /\ p - 1 # i
        BY <2>3, <2>10, ProcSlots DEF Slots
      <4> QED BY Zenon, <2>4, <4>1
    <3> QED BY Zenon, <2>2, <3>1 DEF Waits
  <2>11. \A p \in Procs : Waits(p)' => Waits(p)
    BY Zenon, <1>1, <2>10
  <2>12. \A p \in Procs : rax'[p] <= calls[p]
    <3>1. calls[id[1]] <= calls[id[1]]
      BY <1>1 DEF CallInv, Typed
    <3> QED BY Zenon, <2>5, <3>1 DEF CallInv, Typed
  <2>13. (\A c \in Cpus : pc[c] = "idle") => ~Waits(id[1])'
    <3>1. slots'[id[1] - 1].state # "Blocked" /\ "idle" # "block"
      BY <2>3, <2>4
    <3> QED BY Zenon, <3>1 DEF Waits
  <2> QED BY Zenon, <2>2, <2>5, <2>7, <2>8, <2>9, <2>10, <2>11, <2>12, <2>13
<1>3. CASE /\ \A i \in Slots : Found(id[1], i) => slots[i].state # "Blocked"
           /\ UNCHANGED <<tableVars, rax>>
  <2>1. UNCHANGED <<slots, current, sliceUsed, cursor, nextPid, slice, budget>>
    BY Zenon, <1>3 DEF tableVars
  <2>2. Placed' /\ Answered' /\ \A p : Waits(p)' <=> Waits(p)
    BY Zenon, <1>3, <2>1, SameProcesses
  <2>3. TableTypeOK'
    BY Zenon, <2>1 DEF CallInv, Typed, TableTypeOK
  <2>4. (\A c \in Cpus : pc[c] = "idle") => ~Waits(id[1])
    <3>1. slots[id[1] - 1].state # "Blocked" /\ "idle" # "block"
      BY <1>1, <1>3, FoundAt DEF CallInv
    <3> QED BY Zenon, <3>1 DEF Waits
  <2> QED BY Zenon, <1>3, <2>1, <2>2, <2>3, <2>4 DEF CallInv, Typed
<1> QED BY Zenon, <1>2, <1>3 DEF Answer

\* The request that was answered is gone; the others are awaited as before.
LEMMA OthersAwaited ==
    ASSUME CallInv, NEW id \in Ids, UNCHANGED calls,
           \A x \in Ids : Requested(x)' => Requested(x) /\ x[1] # id[1],
           \A p \in Procs : p # id[1] => rax'[p] = rax[p] /\ (Waits(p) => Waits(p)')
    PROVE  Awaited'
BY Zenon, CallIds DEF CallInv, Awaited

\* Time passes: the calls in flight grow older.
LEMMA TimeKeeps == ASSUME CallInv, TimePasses PROVE CallInv'
<1>1. UNCHANGED <<tableVars, kind, calls, rax, pending, open, atGateway, replies, held,
                  approved, performed, pc, loopVars>>
  BY Zenon DEF TimePasses
<1>2. lag' \in 0 .. MaxLag
  BY CallAssumption DEF TimePasses, CallInv, Typed
<1> DEFINE Older(e) == [e EXCEPT !.age = IF @ > Timeout + MaxLag THEN @ ELSE @ + 1]
<1>3. inflight' = {Older(e) : e \in inflight}
  BY Zenon DEF TimePasses
<1>4. ASSUME NEW e \in inflight PROVE Older(e) \in Flights /\ Older(e).id = e.id
  <2>1. e \in Flights
    BY Zenon DEF CallInv, Typed
  <2>2. e.age \in 0 .. Timeout + MaxLag + 1 /\ e.id \in Ids
    BY Zenon, <2>1 DEF Flights
  <2>3. (IF e.age > Timeout + MaxLag THEN e.age ELSE e.age + 1) \in 0 .. Timeout + MaxLag + 1
    BY <2>2, CallAssumption
  <2> QED BY <2>1, <2>2, <2>3 DEF Flights
<1> HIDE DEF Older
<1>5. inflight' \subseteq Flights
  BY Zenon, <1>3, <1>4
<1>6. \A f \in inflight' : \E e \in inflight : f = Older(e) /\ f.id = e.id
  BY Zenon, <1>3, <1>4
<1>7. UNCHANGED <<slots, current>>
  BY Zenon, <1>1 DEF tableVars
<1>8. Placed' /\ Answered' /\ \A p : Waits(p)' <=> Waits(p)
  BY Zenon, <1>1, <1>7, SameProcesses
<1>9. Awaited'
  <2>1. \A id \in Ids : Requested(id)' => Requested(id)
    BY Zenon, <1>1, <1>6 DEF Requested
  <2> QED BY Zenon, <1>1, <1>8, <2>1 DEF CallInv, Awaited
<1>10. OneEach'
  <2>1. ASSUME NEW e \in inflight', NEW f \in inflight', e.id[1] = f.id[1] PROVE e = f
    <3>1. PICK x \in inflight : e = Older(x) /\ e.id = x.id
      BY Zenon, <1>6
    <3>2. PICK y \in inflight : f = Older(y) /\ f.id = y.id
      BY Zenon, <1>6
    <3>3. x = y
      BY Zenon, <2>1, <3>1, <3>2 DEF CallInv, OneEach
    <3> QED BY Zenon, <3>1, <3>2, <3>3
  <2>2. ASSUME NEW f \in inflight'
        PROVE  f.id[1] # held.id[1] /\ \A k \in 1 .. Len(pending) : pending[k].id[1] # f.id[1]
    <3>1. PICK x \in inflight : f.id = x.id
      BY Zenon, <1>6
    <3> QED BY Zenon, <3>1 DEF CallInv, OneEach
  <2> QED BY Zenon, <1>1, <2>1, <2>2 DEF CallInv, OneEach
<1>11. Untouched'
  BY Zenon, <1>1, <1>7, UntouchedKeep
<1>12. LoopShape'
  BY Zenon, <1>1 DEF CallInv, LoopShape, Stacked, loopVars
<1>13. Typed'
  BY Zenon, <1>1, <1>2, <1>5 DEF CallInv, Typed, TableTypeOK, tableVars
<1>14. Vouched'
  BY Zenon, <1>1 DEF CallInv, Vouched, GatedNeedsApproval
<1> QED BY Zenon, <1>8, <1>9, <1>10, <1>11, <1>12, <1>13, <1>14 DEF CallInv

\* Concatenation, element by element.
LEMMA Joined ==
    ASSUME NEW S, NEW x \in Seq(S), NEW y \in Seq(S)
    PROVE  /\ x \o y \in Seq(S) /\ Len(x \o y) = Len(x) + Len(y)
           /\ \A j \in 1 .. Len(x) : (x \o y)[j] = x[j]
           /\ \A j \in Len(x) + 1 .. Len(x) + Len(y) : (x \o y)[j] = y[j - Len(x)]
<1>1. x \o y \in Seq(S) /\ Len(x \o y) = Len(x) + Len(y)
  OBVIOUS
<1>2. ASSUME NEW j \in 1 .. Len(x) PROVE (x \o y)[j] = x[j]
  OBVIOUS
<1>3. ASSUME NEW j \in Len(x) + 1 .. Len(x) + Len(y) PROVE (x \o y)[j] = y[j - Len(x)]
  OBVIOUS
<1> QED BY Zenon, <1>1, <1>2, <1>3

\* r holds what q holds but for place k: place j of r was place Rot[j] of q.
Rotation(q, k, r) ==
    \E Rot \in [1 .. Len(r) -> (1 .. Len(q)) \ {k}] :
      /\ \A i, j \in 1 .. Len(r) : Rot[i] = Rot[j] => i = j
      /\ \A j \in 1 .. Len(r) : r[j] = q[Rot[j]]
      /\ \A m \in (1 .. Len(q)) \ {k} : \E j \in 1 .. Len(r) : Rot[j] = m

\* The oldest request, or the first that is decided, is taken; the ones before
\* it go to the back.
LEMMA Rotated ==
    ASSUME NEW S, NEW q \in Seq(S), NEW k \in 1 .. Len(q)
    PROVE  /\ SubSeq(q, k + 1, Len(q)) \o SubSeq(q, 1, k - 1) \in Seq(S)
           /\ Rotation(q, k, SubSeq(q, k + 1, Len(q)) \o SubSeq(q, 1, k - 1))
<1> DEFINE n == Len(q)
           a == SubSeq(q, k + 1, n)
           b == SubSeq(q, 1, k - 1)
           r == a \o b
           Rot == [j \in 1 .. Len(r) |-> IF j <= n - k THEN j + k ELSE j - (n - k)]
<1>1. n \in Nat /\ k \in 1 .. n
  OBVIOUS
<1>2. a \in Seq(S) /\ Len(a) = n - k /\ \A j \in 1 .. n - k : a[j] = q[j + k]
  <2>1. k + 1 \in Int /\ n \in Int /\ (k + 1 <= n + 1) /\ k + 1 >= 1
    BY <1>1
  <2>2. a \in Seq(S)
    BY <1>1
  <2>3. Len(a) = n - k
    BY <1>1
  <2>4. ASSUME NEW j \in 1 .. n - k PROVE a[j] = q[j + k]
    BY <1>1
  <2> QED BY Zenon, <2>2, <2>3, <2>4
<1>3. b \in Seq(S) /\ Len(b) = k - 1 /\ \A j \in 1 .. k - 1 : b[j] = q[j]
  <2>2. b \in Seq(S)
    BY <1>1
  <2>3. Len(b) = k - 1
    BY <1>1
  <2>4. ASSUME NEW j \in 1 .. k - 1 PROVE b[j] = q[j]
    BY <1>1
  <2> QED BY Zenon, <2>2, <2>3, <2>4
<1> HIDE DEF a, b
<1>4. /\ r \in Seq(S) /\ Len(r) = n - 1
      /\ \A j \in 1 .. n - k : r[j] = a[j]
      /\ \A j \in n - k + 1 .. n - 1 : r[j] = b[j - (n - k)]
  <2>1. /\ r \in Seq(S) /\ Len(r) = Len(a) + Len(b)
        /\ \A j \in 1 .. Len(a) : r[j] = a[j]
        /\ \A j \in Len(a) + 1 .. Len(a) + Len(b) : r[j] = b[j - Len(a)]
    BY Zenon, <1>2, <1>3, Joined
  <2>2. (n - k) + (k - 1) = n - 1
    BY <1>1
  <2> QED BY Zenon, <1>2, <1>3, <2>1, <2>2
<1> HIDE DEF r
<1>5. ASSUME NEW j \in 1 .. Len(r)
      PROVE  (IF j <= n - k THEN j + k ELSE j - (n - k)) \in (1 .. n) \ {k}
  BY <1>1, <1>4
<1>6. Rot \in [1 .. Len(r) -> (1 .. Len(q)) \ {k}]
  BY Zenon, <1>5
<1>7. ASSUME NEW i \in 1 .. Len(r), NEW j \in 1 .. Len(r), Rot[i] = Rot[j] PROVE i = j
  BY <1>1, <1>4, <1>7
<1>8. ASSUME NEW j \in 1 .. Len(r) PROVE r[j] = q[Rot[j]]
  <2>1. CASE j <= n - k
    <3>1. j \in 1 .. n - k /\ Rot[j] = j + k
      BY <1>1, <1>4, <2>1
    <3> QED BY Zenon, <1>2, <1>4, <3>1
  <2>2. CASE ~(j <= n - k)
    <3>1. j \in n - k + 1 .. n - 1 /\ Rot[j] = j - (n - k) /\ j - (n - k) \in 1 .. k - 1
      BY <1>1, <1>4, <2>2
    <3> QED BY Zenon, <1>3, <1>4, <3>1
  <2> QED BY Zenon, <2>1, <2>2
<1>9. ASSUME NEW m \in (1 .. n) \ {k} PROVE \E j \in 1 .. Len(r) : Rot[j] = m
  <2>1. CASE m > k
    <3>1. m - k \in 1 .. Len(r) /\ Rot[m - k] = m
      BY <1>1, <1>4, <2>1
    <3> QED BY Zenon, <3>1
  <2>2. CASE ~(m > k)
    <3>1. m + (n - k) \in 1 .. Len(r) /\ ~(m + (n - k) <= n - k) /\ (m + (n - k)) - (n - k) = m
      BY <1>1, <1>4, <2>2
    <3>2. Rot[m + (n - k)] = m
      BY Zenon, <3>1
    <3> QED BY Zenon, <3>1, <3>2
  <2> QED BY Zenon, <2>1, <2>2
<1> HIDE DEF Rot
<1>10. r \in Seq(S)
  BY Zenon, <1>4
<1>11. Rotation(q, k, r)
  BY Zenon, <1>6, <1>7, <1>8, <1>9 DEF Rotation
<1> QED BY Zenon, <1>10, <1>11 DEF r, a, b

\* A request is taken off the queue; it is still somebody's to answer.
LEMMA TakeKeeps == ASSUME CallInv, TakeRequest PROVE CallInv'
<1>1. PICK k \in 1 .. Len(pending) :
        held' = pending[k] /\ pending' = SubSeq(pending, k + 1, Len(pending)) \o SubSeq(pending, 1, k - 1)
  BY Zenon DEF TakeRequest
<1>2. /\ at = "take" /\ at' = "apply" /\ ret' = ret
      /\ UNCHANGED <<tableVars, kind, calls, rax, open, inflight, lag, atGateway, replies,
                     approved, performed, pc>>
  BY Zenon DEF TakeRequest, Goto
<1>3. pending \in Seq(RequestRecords) /\ held = NoRequest
  <2>1. at # "apply"
    BY <1>2
  <2> QED BY Zenon, <2>1 DEF CallInv, Typed, LoopShape
<1>4. pending' \in Seq(RequestRecords) /\ Rotation(pending, k, pending')
  BY Zenon, <1>1, <1>3, Rotated
<1>5. PICK Rot \in [1 .. Len(pending') -> (1 .. Len(pending)) \ {k}] :
        /\ \A i, j \in 1 .. Len(pending') : Rot[i] = Rot[j] => i = j
        /\ \A j \in 1 .. Len(pending') : pending'[j] = pending[Rot[j]]
  BY Zenon, <1>4 DEF Rotation
<1>6. \A j \in 1 .. Len(pending') :
        /\ Rot[j] \in 1 .. Len(pending) /\ Rot[j] # k
        /\ pending'[j].id = pending[Rot[j]].id /\ pending'[j].id[1] = pending[Rot[j]].id[1]
  BY Zenon, <1>5
<1>7. held' \in RequestRecords /\ held'.id = pending[k].id /\ held'.id[1] = pending[k].id[1]
  BY Zenon, <1>1, RequestIds
<1>8. UNCHANGED <<slots, current>>
  BY Zenon, <1>2 DEF tableVars
<1>9. Placed' /\ Answered' /\ \A p : Waits(p)' <=> Waits(p)
  BY Zenon, <1>2, <1>8, SameProcesses
<1>10. Awaited'
  <2>1. ASSUME NEW id \in Ids, Requested(id)' PROVE Requested(id)
    <3>1. CASE \E j \in 1 .. Len(pending') : pending'[j].id = id
      <4>1. PICK j \in 1 .. Len(pending') : pending'[j].id = id
        BY Zenon, <3>1
      <4>2. Rot[j] \in 1 .. Len(pending) /\ pending[Rot[j]].id = id
        BY Zenon, <1>6, <4>1
      <4> QED BY Zenon, <4>2 DEF Requested
    <3>2. CASE held'.id = id
      BY Zenon, <1>7, <3>2 DEF Requested
    <3>3. CASE \E e \in inflight' : e.id = id
      BY Zenon, <1>2, <3>3 DEF Requested
    <3> QED BY Zenon, <2>1, <3>1, <3>2, <3>3 DEF Requested
  <2> QED BY Zenon, <1>2, <1>9, <2>1 DEF CallInv, Awaited
<1>11. OneEach'
  <2>1. ASSUME NEW i \in 1 .. Len(pending'), NEW j \in 1 .. Len(pending'),
               pending'[i].id[1] = pending'[j].id[1]
        PROVE  i = j
    <3>1. pending[Rot[i]].id[1] = pending[Rot[j]].id[1]
      BY Zenon, <1>6, <2>1
    <3>2. Rot[i] = Rot[j]
      BY Zenon, <1>6, <3>1 DEF CallInv, OneEach
    <3> QED BY Zenon, <1>5, <3>2
  <2>2. ASSUME NEW j \in 1 .. Len(pending')
        PROVE  pending'[j].id[1] # held'.id[1] /\ \A e \in inflight : pending'[j].id[1] # e.id[1]
    <3>1. pending[Rot[j]].id[1] # pending[k].id[1] /\ \A e \in inflight : pending[Rot[j]].id[1] # e.id[1]
      BY Zenon, <1>6 DEF CallInv, OneEach
    <3> QED BY Zenon, <1>6, <1>7, <3>1
  <2>3. \A e \in inflight : e.id[1] # held'.id[1]
    <3>1. \A e \in inflight : pending[k].id[1] # e.id[1]
      BY Zenon DEF CallInv, OneEach
    <3> QED BY Zenon, <1>7, <3>1
  <2> QED BY Zenon, <1>2, <2>1, <2>2, <2>3 DEF CallInv, OneEach
<1>12. Untouched'
  <2>1. \A p : Call(p)' = Call(p)
    BY Zenon, <1>2 DEF Call
  <2>2. \A j \in 1 .. Len(pending') : performed[pending'[j].id] = 0
    <3>1. \A m \in 1 .. Len(pending) : performed[pending[m].id] = 0
      BY Zenon DEF CallInv, Untouched
    <3>2. ASSUME NEW j \in 1 .. Len(pending') PROVE performed[pending'[j].id] = 0
      <4>1. pending'[j].id = pending[Rot[j]].id /\ performed[pending[Rot[j]].id] = 0
        BY Zenon, <1>6, <3>1
      <4> QED BY Zenon, <4>1
    <3> QED BY Zenon, <3>2
  <2>3. performed[held'.id] = 0
    BY Zenon, <1>7 DEF CallInv, Untouched
  <2> QED BY Zenon, <1>2, <1>8, <2>1, <2>2, <2>3 DEF CallInv, Untouched
<1>13. LoopShape'
  <2>1. ret \in {<<"inflight">>, <<"choose">>} /\ at # "agent"
    BY <1>2 DEF CallInv, LoopShape, Stacked
  <2>2. Stacked'
    BY Zenon, <1>2, <2>1 DEF Stacked
  <2> QED BY Zenon, <1>2, <1>7, <2>1, <2>2 DEF CallInv, LoopShape
<1>14. Typed'
  BY Zenon, <1>2, <1>4 DEF CallInv, Typed, TableTypeOK, tableVars
<1>15. Vouched'
  BY Zenon, <1>2 DEF CallInv, Vouched, GatedNeedsApproval
<1> QED BY Zenon, <1>9, <1>10, <1>11, <1>12, <1>13, <1>14, <1>15 DEF CallInv

\* A result arrives for a call in flight, or a call expires: it is answered once.
LEMMA AnsweredKeeps == ASSUME CallInv, RecvReply \/ Expire PROVE CallInv'
<1>1. UNCHANGED <<kind, calls, pending, open, lag, atGateway, held, approved, performed, pc, at, ret>>
  BY Zenon DEF RecvReply, Expire
<1>2. \/ UNCHANGED <<inflight, tableVars, rax>>
      \/ \E id \in Ids : /\ inflight' = {e \in inflight : e.id # id}
                         /\ Answer(id) /\ \E e \in inflight : e.id = id
  <2>1. CASE RecvReply
    <3>1. PICK id \in replies :
            /\ inflight' = {e \in inflight : e.id # id}
            /\ IF inflight' # inflight THEN Answer(id) ELSE UNCHANGED <<tableVars, rax>>
      BY Zenon, <2>1 DEF RecvReply
    <3>2. CASE inflight' = inflight
      BY Zenon, <3>1, <3>2
    <3>3. CASE inflight' # inflight
      <4>1. \E e \in inflight : e.id = id
        BY Zenon, <3>1, <3>3
      <4>2. id \in Ids
        BY Zenon, <4>1, RequestIds
      <4> QED BY Zenon, <3>1, <3>3, <4>1, <4>2
    <3> QED BY Zenon, <3>2, <3>3
  <2>2. CASE Expire
    <3>1. PICK e \in inflight : inflight' = inflight \ {e} /\ Answer(e.id)
      BY Zenon, <2>2 DEF Expire
    <3>2. \A f \in inflight : f.id = e.id => f = e
      BY Zenon DEF CallInv, OneEach
    <3>3. inflight' = {f \in inflight : f.id # e.id}
      BY Zenon, <3>1, <3>2
    <3> QED BY Zenon, <3>1, <3>3, RequestIds
  <2> QED BY Zenon, <2>1, <2>2
<1>3. replies' \subseteq Ids
  <2>1. replies' \subseteq replies
    BY Zenon DEF RecvReply, Expire
  <2> QED BY Zenon, <2>1 DEF CallInv, Typed
<1>4. LoopShape'
  BY Zenon, <1>1 DEF CallInv, LoopShape, Stacked
<1>5. Vouched'
  BY Zenon, <1>1 DEF CallInv, Vouched, GatedNeedsApproval
<1>6. inflight' \subseteq inflight
  BY Zenon, <1>2
<1>7. OneEach'
  BY Zenon, <1>1, <1>6 DEF CallInv, OneEach
<1>8. inflight' \subseteq Flights
  BY Zenon, <1>6 DEF CallInv, Typed
<1>9. CASE UNCHANGED <<inflight, tableVars, rax>>
  <2>1. Placed' /\ Answered' /\ Awaited' /\ Untouched'
    BY Zenon, <1>1, <1>9, SameRequests DEF tableVars
  <2>2. Typed'
    BY Zenon, <1>1, <1>3, <1>9 DEF CallInv, Typed, TableTypeOK, tableVars
  <2> QED BY Zenon, <1>4, <1>5, <1>7, <2>1, <2>2 DEF CallInv
<1>10. ASSUME NEW id \in Ids, inflight' = {e \in inflight : e.id # id}, Answer(id),
              \E e \in inflight : e.id = id
       PROVE  CallInv'
  <2>1. Requested(id)
    BY Zenon, <1>10 DEF Requested
  <2>2. /\ Placed' /\ Answered' /\ TableTypeOK'
        /\ rax' \in [Procs -> Nat] /\ \A p \in Procs : rax'[p] <= calls[p]
        /\ UNCHANGED current
        /\ \A p \in Procs : p # id[1] => rax'[p] = rax[p] /\ (Waits(p) => Waits(p)')
    BY Zenon, <1>1, <1>10, <2>1, AnswerFacts
  <2>3. ASSUME NEW x \in Ids, Requested(x)' PROVE Requested(x) /\ x[1] # id[1]
    <3>1. PICK e \in inflight : e.id = id
      BY Zenon, <1>10
    <3>2. CASE \E f \in inflight' : f.id = x
      <4>1. PICK f \in inflight' : f.id = x
        BY Zenon, <3>2
      <4>2. f \in inflight /\ f # e
        BY Zenon, <1>10, <3>1, <4>1
      <4>3. f.id[1] # e.id[1]
        BY Zenon, <4>2 DEF CallInv, OneEach
      <4> QED BY Zenon, <3>1, <4>1, <4>2, <4>3 DEF Requested
    <3>3. CASE held.id = x
      <4>1. e.id[1] # held.id[1]
        BY Zenon DEF CallInv, OneEach
      <4> QED BY Zenon, <3>1, <3>3, <4>1 DEF Requested
    <3>4. CASE \E k \in 1 .. Len(pending) : pending[k].id = x
      <4>1. PICK k \in 1 .. Len(pending) : pending[k].id = x
        BY Zenon, <3>4
      <4>2. pending[k].id[1] # e.id[1]
        BY Zenon DEF CallInv, OneEach
      <4> QED BY Zenon, <3>1, <4>1, <4>2 DEF Requested
    <3> QED BY Zenon, <1>1, <2>3, <3>2, <3>3, <3>4 DEF Requested
  <2>4. Awaited'
    BY Zenon, <1>1, <2>2, <2>3, OthersAwaited
  <2>5. Untouched'
    BY Zenon, <1>1, <2>2, UntouchedKeep
  <2>6. \A p \in Procs : calls'[p] <= MaxCalls[p] /\ rax'[p] <= calls'[p]
    BY Zenon, <1>1, <2>2 DEF CallInv, Typed
  <2>7. Typed'
    BY Zenon, <1>1, <1>3, <1>8, <2>2, <2>6 DEF CallInv, Typed
  <2> QED BY Zenon, <1>4, <1>5, <1>7, <2>2, <2>4, <2>5, <2>7 DEF CallInv
<1> QED BY Zenon, <1>2, <1>9, <1>10

\* While a decision is applied, the request it is about is held.
LEMMA HeldRequest ==
    ASSUME CallInv, at = "apply"
    PROVE  /\ held.id \in Ids /\ Requested(held.id) /\ performed[held.id] = 0
           /\ held.id[1] \in Procs /\ held.id[2] = calls[held.id[1]] /\ rax[held.id[1]] # held.id[2]
           /\ \A k \in 1 .. Len(pending) : pending[k].id # held.id
           /\ \A d \in Cpus : pc[d] \in {"enqueue", "opened"} => Call(current[d]) # held.id
<1>1. held.id \in Ids
  BY Zenon DEF CallInv, LoopShape, RequestRecords
<1>2. Requested(held.id)
  BY Zenon DEF Requested
<1>3. held.id[2] = calls[held.id[1]] /\ rax[held.id[1]] # held.id[2]
  BY Zenon, <1>1, <1>2 DEF CallInv, Awaited
<1>4. \A k \in 1 .. Len(pending) : pending[k].id # held.id
  BY Zenon DEF CallInv, OneEach
<1>5. ASSUME NEW d \in Cpus, pc[d] \in {"enqueue", "opened"} PROVE Call(current[d]) # held.id
  <2>1. pc[d] \in Calling \ {"block"}
    BY <1>5 DEF Calling
  <2>2. Call(current[d])[1] = current[d] /\ held.id[1] # current[d]
    BY Zenon, <2>1, OwnRequest
  <2> QED BY Zenon, <2>2
<1> QED BY Zenon, <1>1, <1>2, <1>3, <1>4, <1>5, CallIds DEF CallInv, Untouched

\* What applying a decision does to what was carried out: nothing, or the held
\* request once, and then it was approved.
LEMMA AppliedOnce ==
    ASSUME CallInv, Apply
    PROVE  /\ approved \subseteq approved' /\ approved' \subseteq Ids
           /\ \/ UNCHANGED performed
              \/ performed' = [performed EXCEPT ![held.id] = @ + 1] /\ held.id \in approved'
<1>1. at = "apply"
  BY Zenon DEF Apply, Deny, ApproveSend, ApproveTool
<1>2. held.id \in Ids /\ approved \subseteq Ids
  BY Zenon, <1>1, HeldRequest DEF CallInv, Typed
<1>3. CASE Deny
  BY Zenon, <1>2, <1>3 DEF Deny
<1>4. CASE ApproveSend \/ ApproveTool
  <2>1. Decision(TRUE) /\ Approved
    BY Zenon, <1>4 DEF ApproveSend, ApproveTool
  <2>2. UNCHANGED performed \/ performed' = [performed EXCEPT ![held.id] = @ + 1]
    BY Zenon, <1>4 DEF ApproveSend, ApproveTool
  <2>3. CASE ~signedMode
    <3>1. approved' = approved \cup {held.id}
      BY Zenon, <2>1, <2>3 DEF Approved
    <3> QED BY Zenon, <1>2, <2>2, <3>1
  <2>4. CASE signedMode
    <3>1. approved' = approved /\ Outcome(held.id) = {"approved"}
      BY Zenon, <2>1, <2>4 DEF Approved, Decision
    <3>2. \E r \in open : r.id = held.id /\ r.outcome = "approved"
      BY Zenon, <3>1 DEF Outcome
    <3>3. held.id \in approved
      BY Zenon, <3>2 DEF CallInv, Vouched
    <3> QED BY Zenon, <1>2, <2>2, <3>1, <3>3
  <2> QED BY Zenon, <2>3, <2>4
<1> QED BY Zenon, <1>3, <1>4 DEF Apply

\* A decision is applied: the action is carried out or not, and the agent is
\* answered, or its tool call goes in flight.
LEMMA ApplyKeeps == ASSUME CallInv, Apply PROVE CallInv'
<1> DEFINE h == held.id
           e0 == [id |-> h, age |-> 0]
<1>1. /\ at = "apply" /\ at' = "take" /\ ret' = ret /\ held' = NoRequest
      /\ open' \subseteq open /\ UNCHANGED <<kind, calls, pending, lag, replies, pc>>
  BY Zenon DEF Apply, Deny, ApproveSend, ApproveTool, Goto
<1>2. /\ h \in Ids /\ Requested(h) /\ performed[h] = 0
      /\ h[1] \in Procs /\ h[2] = calls[h[1]] /\ rax[h[1]] # h[2]
      /\ \A k \in 1 .. Len(pending) : pending[k].id # h
      /\ \A d \in Cpus : pc[d] \in {"enqueue", "opened"} => Call(current[d]) # h
  BY Zenon, <1>1, HeldRequest
<1>3. \/ Answer(h) /\ UNCHANGED <<inflight, atGateway>>
      \/ /\ inflight' = inflight \cup {e0} /\ atGateway' = atGateway \cup {h}
         /\ UNCHANGED <<tableVars, rax>>
  BY Zenon DEF Apply, Deny, ApproveSend, ApproveTool, Pushed
<1>4. e0 \in Flights /\ e0.id = h
  BY <1>2, CallAssumption DEF Flights
<1> HIDE DEF e0
<1>5. /\ approved \subseteq approved' /\ approved' \subseteq Ids
      /\ \/ UNCHANGED performed
         \/ performed' = [performed EXCEPT ![h] = @ + 1] /\ h \in approved'
  BY Zenon, AppliedOnce
<1>6. performed' \in [Ids -> Nat] /\ \A id \in Ids : id # h => performed'[id] = performed[id]
  <2>1. performed \in [Ids -> Nat]
    BY Zenon DEF CallInv, Typed
  <2> QED BY <1>2, <1>5, <2>1
<1>7. UNCHANGED current
  BY Zenon, <1>3 DEF Answer, Unblock, tableVars
<1>8. Untouched'
  <2>1. ASSUME NEW id \in Ids, id[2] > calls[id[1]] PROVE performed'[id] = 0
    <3>1. id # h
      <4>1. calls[h[1]] \in Nat
        BY Zenon, <1>2 DEF CallInv, Typed
      <4>2. ~(calls[h[1]] > calls[h[1]])
        BY <4>1
      <4> QED BY Zenon, <1>2, <2>1, <4>2
    <3> QED BY Zenon, <1>6, <2>1, <3>1 DEF CallInv, Untouched
  <2>2. ASSUME NEW d \in Cpus, pc[d] \in {"enqueue", "opened"}
        PROVE  Gated(kind[current[d]]) /\ performed'[Call(current[d])] = 0
    <3>1. pc[d] \in Calling \ {"block"}
      BY <2>2 DEF Calling
    <3>2. Call(current[d]) \in Ids /\ Call(current[d]) # h
      BY Zenon, <1>2, <2>2, <3>1, OwnRequest
    <3> QED BY Zenon, <1>6, <2>2, <3>2 DEF CallInv, Untouched
  <2>3. ASSUME NEW k \in 1 .. Len(pending) PROVE performed'[pending[k].id] = 0
    BY Zenon, <1>2, <1>6, RequestIds DEF CallInv, Untouched
  <2>4. \A p : Call(p)' = Call(p)
    BY Zenon, <1>1 DEF Call
  <2>5. held'.id \notin Ids
    BY Zenon, <1>1, NoRequestIsNone
  <2> QED BY Zenon, <1>1, <1>7, <2>1, <2>2, <2>3, <2>4, <2>5 DEF Untouched
<1>9. Vouched'
  <2>1. ASSUME NEW id \in Ids, performed'[id] > 0 PROVE id \in approved'
    <3>1. CASE performed' = performed
      BY Zenon, <1>5, <2>1, <3>1 DEF CallInv, Vouched, GatedNeedsApproval
    <3>2. CASE id = h /\ h \in approved'
      BY Zenon, <3>2
    <3>3. CASE id # h
      BY Zenon, <1>5, <1>6, <2>1, <3>3 DEF CallInv, Vouched, GatedNeedsApproval
    <3> QED BY Zenon, <1>5, <3>1, <3>2, <3>3
  <2>2. \A r \in open' : r.outcome = "approved" => r.id \in approved'
    BY Zenon, <1>1, <1>5 DEF CallInv, Vouched
  <2> QED BY Zenon, <2>1, <2>2 DEF Vouched, GatedNeedsApproval
<1>10. LoopShape'
  <2>1. ret \in {<<"inflight">>, <<"choose">>} /\ at # "agent" /\ at' # "apply"
    BY <1>1 DEF CallInv, LoopShape, Stacked
  <2>2. Stacked'
    BY Zenon, <1>1, <2>1 DEF Stacked
  <2> QED BY Zenon, <1>1, <2>1, <2>2 DEF CallInv, LoopShape
<1>11. open' \subseteq OpenRecords
  BY Zenon, <1>1 DEF CallInv, Typed
<1>12. NoRequest.id \notin Ids /\ \A id \in Ids : NoRequest.id[1] # id[1]
  BY Zenon, NoRequestIsNone, CallIds
<1>13. CASE Answer(h) /\ UNCHANGED <<inflight, atGateway>>
  <2>1. /\ Placed' /\ Answered' /\ TableTypeOK'
        /\ rax' \in [Procs -> Nat] /\ \A p \in Procs : rax'[p] <= calls[p]
        /\ \A p \in Procs : p # h[1] => rax'[p] = rax[p] /\ (Waits(p) => Waits(p)')
    <3>1. ASSUME NEW id \in Ids, id = h
          PROVE  /\ Placed' /\ Answered' /\ TableTypeOK'
                 /\ rax' \in [Procs -> Nat] /\ \A p \in Procs : rax'[p] <= calls[p]
                 /\ \A p \in Procs : p # id[1] => rax'[p] = rax[p] /\ (Waits(p) => Waits(p)')
      <4>1. Requested(id) /\ Answer(id)
        BY Zenon, <1>2, <1>13, <3>1
      <4> QED BY Zenon, <1>1, <4>1, AnswerFacts
    <3> QED BY Zenon, <1>2, <3>1
  <2>2. ASSUME NEW x \in Ids, Requested(x)' PROVE Requested(x) /\ x[1] # h[1]
    <3>1. x # held'.id
      BY Zenon, <1>1, <1>12
    <3>2. CASE \E e \in inflight : e.id = x
      <4>1. PICK e \in inflight : e.id = x
        BY Zenon, <3>2
      <4>2. e.id[1] # h[1]
        BY Zenon DEF CallInv, OneEach
      <4> QED BY Zenon, <4>1, <4>2 DEF Requested
    <3>3. CASE \E k \in 1 .. Len(pending) : pending[k].id = x
      <4>1. PICK k \in 1 .. Len(pending) : pending[k].id = x
        BY Zenon, <3>3
      <4>2. pending[k].id[1] # h[1]
        BY Zenon DEF CallInv, OneEach
      <4> QED BY Zenon, <4>1, <4>2 DEF Requested
    <3> QED BY Zenon, <1>1, <1>13, <2>2, <3>1, <3>2, <3>3 DEF Requested
  <2>3. Awaited'
    <3>1. ASSUME NEW id \in Ids, id = h PROVE Awaited'
      <4>1. \A x \in Ids : Requested(x)' => Requested(x) /\ x[1] # id[1]
        BY Zenon, <2>2, <3>1
      <4>2. \A p \in Procs : p # id[1] => rax'[p] = rax[p] /\ (Waits(p) => Waits(p)')
        BY Zenon, <2>1, <3>1
      <4> QED BY Zenon, <1>1, <4>1, <4>2, OthersAwaited
    <3> QED BY Zenon, <1>2, <3>1
  <2>4. OneEach'
    BY Zenon, <1>1, <1>12, <1>13, RequestIds DEF CallInv, OneEach
  <2>5. \A p \in Procs : calls'[p] <= MaxCalls[p] /\ rax'[p] <= calls'[p]
    BY Zenon, <1>1, <2>1 DEF CallInv, Typed
  <2>6. Typed'
    BY Zenon, <1>1, <1>5, <1>6, <1>11, <1>13, <2>1, <2>5 DEF CallInv, Typed
  <2> QED BY Zenon, <1>8, <1>9, <1>10, <2>1, <2>3, <2>4, <2>6 DEF CallInv
<1>14. CASE /\ inflight' = inflight \cup {e0} /\ atGateway' = atGateway \cup {h}
            /\ UNCHANGED <<tableVars, rax>>
  <2>1. UNCHANGED <<slots, current>>
    BY Zenon, <1>14 DEF tableVars
  <2>2. Placed' /\ Answered' /\ \A p : Waits(p)' <=> Waits(p)
    BY Zenon, <1>1, <1>14, <2>1, SameProcesses
  <2>3. ASSUME NEW x \in Ids, Requested(x)' PROVE Requested(x)
    <3>1. x # held'.id
      BY Zenon, <1>1, <1>12
    <3>2. CASE \E e \in inflight' : e.id = x
      BY Zenon, <1>4, <1>14, <3>2 DEF Requested
    <3> QED BY Zenon, <1>1, <2>3, <3>1, <3>2 DEF Requested
  <2>4. Awaited'
    BY Zenon, <1>1, <1>14, <2>2, <2>3 DEF CallInv, Awaited
  <2>5. e0.id[1] = h[1]
    BY Zenon, <1>4
  <2>6. OneEach'
    <3>1. ASSUME NEW e \in inflight', NEW f \in inflight', e.id[1] = f.id[1] PROVE e = f
      <4>1. (e \in inflight /\ e.id[1] # h[1]) \/ e = e0
        BY Zenon, <1>14 DEF CallInv, OneEach
      <4>2. (f \in inflight /\ f.id[1] # h[1]) \/ f = e0
        BY Zenon, <1>14 DEF CallInv, OneEach
      <4> QED BY Zenon, <2>5, <3>1, <4>1, <4>2 DEF CallInv, OneEach
    <3>2. ASSUME NEW k \in 1 .. Len(pending), NEW e \in inflight' PROVE pending[k].id[1] # e.id[1]
      BY Zenon, <1>14, <2>5 DEF CallInv, OneEach
    <3>3. ASSUME NEW e \in inflight' PROVE e.id[1] # NoRequest.id[1]
      BY Zenon, <1>2, <1>4, <1>12, <1>14, RequestIds
    <3>4. ASSUME NEW k \in 1 .. Len(pending) PROVE pending[k].id[1] # NoRequest.id[1]
      BY Zenon, <1>12, RequestIds
    <3>5. \A j, k \in 1 .. Len(pending) : pending[j].id[1] = pending[k].id[1] => j = k
      BY Zenon DEF CallInv, OneEach
    <3> QED BY Zenon, <1>1, <3>1, <3>2, <3>3, <3>4, <3>5 DEF OneEach
  <2>7. inflight' \subseteq Flights /\ atGateway' \subseteq Ids
    BY Zenon, <1>2, <1>4, <1>14 DEF CallInv, Typed
  <2>8. Typed'
    BY Zenon, <1>1, <1>5, <1>6, <1>11, <1>14, <2>7 DEF CallInv, Typed, TableTypeOK, tableVars
  <2> QED BY Zenon, <1>8, <1>9, <1>10, <2>2, <2>4, <2>6, <2>8 DEF CallInv
<1> QED BY Zenon, <1>3, <1>13, <1>14

-----------------------------------------------------------------------------
(* Without application processors no answer is lost. *)

\* Where the request of a process may be.
LEMMA WhereRequest ==
    ASSUME NEW p
    PROVE  HasRequest(p) <=> \/ \E k \in 1 .. Len(pending) : pending[k].id[1] = p
                             \/ held.id[1] = p
                             \/ \E e \in inflight : e.id[1] = p
BY Zenon DEF HasRequest, Queued, Held, Flying

\* Nobody begins to wait, and the requests stay.
LEMMA NoneLostKept ==
    ASSUME NoneLost, \A p \in Procs : Waits(p)' => Waits(p), UNCHANGED <<pending, held, inflight>>
    PROVE  NoneLost'
<1>1. \A p \in Procs : HasRequest(p) => HasRequest(p)'
  BY Zenon DEF HasRequest, Queued, Held, Flying
<1> QED BY Zenon, <1>1 DEF NoneLost

\* A request that is added takes no other away.
LEMMA MoreRequests ==
    ASSUME NEW p, HasRequest(p),
           \A k \in 1 .. Len(pending) : k \in 1 .. Len(pending') /\ pending'[k] = pending[k],
           UNCHANGED held, inflight \subseteq inflight'
    PROVE  HasRequest(p)'
<1>1. CASE \E k \in 1 .. Len(pending) : pending[k].id[1] = p
  BY Zenon, <1>1 DEF HasRequest, Queued
<1>2. CASE held.id[1] = p \/ \E e \in inflight : e.id[1] = p
  BY Zenon, <1>2 DEF HasRequest, Held, Flying
<1> QED BY Zenon, <1>1, <1>2, WhereRequest

\* A CPU that does not come to "block" makes nobody wait.
LEMMA NoneBegins ==
    ASSUME CallInv, NEW c \in Cpus, UNCHANGED <<slots, current>>, NEW s, s # "block",
           pc' = [pc EXCEPT ![c] = s]
    PROVE  \A p \in Procs : Waits(p)' => Waits(p)
<1>1. pc'[c] = s /\ \A d \in Cpus \ {c} : pc'[d] = pc[d]
  BY Zenon DEF CallInv, Typed
<1> QED BY Zenon, <1>1 DEF Waits

\* Without application processors the process of a request is Blocked when the
\* answer comes, so unblock finds it.
LEMMA AnswerIsHeard ==
    ASSUME CallInv, ~Supervise, at # "agent", NEW id \in Ids, Requested(id), Answer(id), UNCHANGED <<pc, calls>>
    PROVE  ~Waits(id[1])' /\ \A p \in Procs : Waits(p)' => Waits(p) /\ p # id[1]
<1>1. \A c \in Cpus : pc[c] = "idle"
  BY Zenon DEF CallInv, LoopShape
<1>2. ~Waits(id[1])'
  BY Zenon, <1>1, AnswerFacts
<1>3. \A p \in Procs : Waits(p)' => Waits(p)
  BY Zenon, AnswerFacts
<1> QED BY Zenon, <1>2, <1>3

\* Nor does the loop lose a request.
LEMMA LoopLosesNone ==
    ASSUME CallInv, ~Supervise, NoneLost,
           TakeRequest \/ Apply \/ RecvReply \/ Expire \/ TimePasses
    PROVE  NoneLost'
<1>1. CASE TakeRequest
  <2>1. PICK k \in 1 .. Len(pending) :
          held' = pending[k] /\ pending' = SubSeq(pending, k + 1, Len(pending)) \o SubSeq(pending, 1, k - 1)
    BY Zenon, <1>1 DEF TakeRequest
  <2>2. UNCHANGED <<slots, current, pc, inflight>> /\ at = "take"
    BY Zenon, <1>1 DEF TakeRequest, tableVars
  <2>3. pending \in Seq(RequestRecords) /\ held = NoRequest
    <3>1. at # "apply"
      BY <2>2
    <3> QED BY Zenon, <3>1 DEF CallInv, Typed, LoopShape
  <2>4. Rotation(pending, k, pending')
    BY Zenon, <2>1, <2>3, Rotated
  <2>5. PICK Rot \in [1 .. Len(pending') -> (1 .. Len(pending)) \ {k}] :
          /\ \A j \in 1 .. Len(pending') : pending'[j] = pending[Rot[j]]
          /\ \A m \in (1 .. Len(pending)) \ {k} : \E j \in 1 .. Len(pending') : Rot[j] = m
    BY Zenon, <2>4 DEF Rotation
  <2>6. ASSUME NEW p \in Procs, Waits(p)' PROVE HasRequest(p)'
    <3>1. HasRequest(p)
      BY Zenon, <2>2, <2>6 DEF NoneLost, Waits
    <3>2. CASE pending[k].id[1] = p
      BY Zenon, <2>1, <3>2 DEF HasRequest, Held
    <3>3. ASSUME NEW m \in (1 .. Len(pending)) \ {k}, pending[m].id[1] = p PROVE HasRequest(p)'
      <4>1. PICK j \in 1 .. Len(pending') : Rot[j] = m
        BY Zenon, <2>5
      <4>2. pending'[j] = pending[m]
        BY Zenon, <2>5, <4>1
      <4>3. pending'[j].id[1] = p
        BY Zenon, <3>3, <4>2
      <4> QED BY Zenon, <4>3 DEF HasRequest, Queued
    <3>4. CASE \E e \in inflight : e.id[1] = p
      BY Zenon, <2>2, <3>4 DEF HasRequest, Flying
    <3>5. held.id[1] # p
      BY Zenon, <2>3, NoRequestIsNone
    <3> QED BY Zenon, <3>1, <3>2, <3>3, <3>4, <3>5, WhereRequest
  <2> QED BY Zenon, <2>6 DEF NoneLost
<1>2. CASE Apply
  <2>1. at = "apply" /\ at # "agent" /\ UNCHANGED <<pc, calls, pending>>
    <3>1. at = "apply" /\ UNCHANGED <<pc, calls, pending>>
      BY Zenon, <1>2 DEF Apply, Deny, ApproveSend, ApproveTool
    <3> QED BY <3>1
  <2>2. held.id \in Ids /\ Requested(held.id)
    BY Zenon, <2>1, HeldRequest
  <2>3. \/ Answer(held.id) /\ UNCHANGED inflight
        \/ inflight' = inflight \cup {[id |-> held.id, age |-> 0]} /\ UNCHANGED tableVars
    BY Zenon, <1>2 DEF Apply, Deny, ApproveSend, ApproveTool, Pushed
  <2>4. ASSUME NEW p \in Procs, HasRequest(p), p # held.id[1], inflight \subseteq inflight'
        PROVE  HasRequest(p)'
    <3>1. (\E k \in 1 .. Len(pending) : pending[k].id[1] = p) \/ \E e \in inflight : e.id[1] = p
      BY Zenon, <2>4, WhereRequest
    <3> QED BY Zenon, <2>1, <2>4, <3>1 DEF HasRequest, Queued, Flying
  <2>5. CASE Answer(held.id) /\ UNCHANGED inflight
    <3>1. ASSUME NEW p \in Procs, Waits(p)' PROVE HasRequest(p)'
      <4>1. ASSUME NEW id \in Ids, id = held.id PROVE Waits(p) /\ p # held.id[1]
        <5>1. Requested(id) /\ Answer(id)
          BY Zenon, <2>2, <2>5, <4>1
        <5>2. Waits(p) /\ p # id[1]
          BY Zenon, <2>1, <3>1, <5>1, AnswerIsHeard
        <5> QED BY Zenon, <4>1, <5>2
      <4>2. Waits(p) /\ p # held.id[1]
        BY Zenon, <2>2, <4>1
      <4>3. HasRequest(p)
        BY Zenon, <4>2 DEF NoneLost
      <4> QED BY Zenon, <2>4, <2>5, <4>2, <4>3
    <3> QED BY Zenon, <3>1 DEF NoneLost
  <2>6. CASE inflight' = inflight \cup {[id |-> held.id, age |-> 0]} /\ UNCHANGED tableVars
    <3>1. ASSUME NEW p \in Procs, Waits(p)' PROVE HasRequest(p)'
      <4>1. HasRequest(p)
        BY Zenon, <2>1, <2>6, <3>1 DEF NoneLost, Waits, tableVars
      <4>2. CASE p = held.id[1]
        <5>1. [id |-> held.id, age |-> 0] \in inflight'
          BY Zenon, <2>6
        <5>2. [id |-> held.id, age |-> 0].id = held.id
          OBVIOUS
        <5>3. \E e \in inflight' : e.id[1] = p
          BY Zenon, <4>2, <5>1, <5>2
        <5> QED BY Zenon, <5>3 DEF HasRequest, Flying
      <4>3. CASE p # held.id[1]
        BY Zenon, <2>4, <2>6, <4>1, <4>3
      <4> QED BY Zenon, <4>2, <4>3
    <3> QED BY Zenon, <3>1 DEF NoneLost
  <2> QED BY Zenon, <2>3, <2>5, <2>6
<1>3. CASE RecvReply \/ Expire
  <2>1. at # "agent" /\ UNCHANGED <<pc, calls, pending, held>>
    <3>1. at \in {"recv", "expire"} /\ UNCHANGED <<pc, calls, pending, held>>
      BY Zenon, <1>3 DEF RecvReply, Expire
    <3> QED BY <3>1
  <2>2. \/ UNCHANGED <<inflight, tableVars>>
        \/ \E e \in inflight : /\ \A f \in inflight : f.id[1] # e.id[1] => f \in inflight'
                               /\ Answer(e.id)
    <3>1. CASE RecvReply
      <4>1. PICK id \in replies :
              /\ inflight' = {e \in inflight : e.id # id}
              /\ IF inflight' # inflight THEN Answer(id) ELSE UNCHANGED <<tableVars, rax>>
        BY Zenon, <3>1 DEF RecvReply
      <4>2. CASE inflight' = inflight
        BY Zenon, <4>1, <4>2
      <4>3. CASE inflight' # inflight
        <5>1. PICK e \in inflight : e.id = id
          BY Zenon, <4>1, <4>3
        <5> QED BY Zenon, <4>1, <4>3, <5>1
      <4> QED BY Zenon, <4>2, <4>3
    <3>2. CASE Expire
      BY Zenon, <3>2 DEF Expire
    <3> QED BY Zenon, <1>3, <3>1, <3>2
  <2>3. CASE UNCHANGED <<inflight, tableVars>>
    <3>1. \A p \in Procs : Waits(p)' => Waits(p)
      BY Zenon, <2>1, <2>3 DEF Waits, tableVars
    <3> QED BY Zenon, <2>1, <2>3, <3>1, NoneLostKept
  <2>4. ASSUME NEW e \in inflight, \A f \in inflight : f.id[1] # e.id[1] => f \in inflight', Answer(e.id)
        PROVE  NoneLost'
    <3>1. e.id \in Ids /\ Requested(e.id)
      BY Zenon, RequestIds DEF Requested
    <3>2. ASSUME NEW p \in Procs, Waits(p)' PROVE HasRequest(p)'
      <4>1. Waits(p) /\ p # e.id[1]
        BY Zenon, <2>1, <2>4, <3>1, <3>2, AnswerIsHeard
      <4>2. HasRequest(p)
        BY Zenon, <4>1 DEF NoneLost
      <4>3. CASE (\E k \in 1 .. Len(pending) : pending[k].id[1] = p) \/ held.id[1] = p
        BY Zenon, <2>1, <4>3 DEF HasRequest, Queued, Held
      <4>4. CASE \E f \in inflight : f.id[1] = p
        <5>1. PICK f \in inflight : f.id[1] = p
          BY Zenon, <4>4
        <5>2. f \in inflight'
          BY Zenon, <2>4, <4>1, <5>1
        <5> QED BY Zenon, <5>1, <5>2 DEF HasRequest, Flying
      <4> QED BY Zenon, <4>2, <4>3, <4>4, WhereRequest
    <3> QED BY Zenon, <3>2 DEF NoneLost
  <2> QED BY Zenon, <2>2, <2>3, <2>4
<1>4. CASE TimePasses
  <2>1. UNCHANGED <<slots, current, pc, pending, held>>
    BY Zenon, <1>4 DEF TimePasses, tableVars
  <2>2. ASSUME NEW e \in inflight PROVE \E f \in inflight' : f.id = e.id
    <3> DEFINE f == [e EXCEPT !.age = IF @ > Timeout + MaxLag THEN @ ELSE @ + 1]
    <3>1. f \in inflight'
      BY Zenon, <1>4 DEF TimePasses
    <3>2. f.id = e.id
      BY DEF CallInv, Typed, Flights
    <3> QED BY Zenon, <3>1, <3>2
  <2>3. ASSUME NEW p \in Procs, Waits(p)' PROVE HasRequest(p)'
    <3>1. HasRequest(p)
      BY Zenon, <2>1, <2>3 DEF NoneLost, Waits
    <3>2. CASE (\E k \in 1 .. Len(pending) : pending[k].id[1] = p) \/ held.id[1] = p
      BY Zenon, <2>1, <3>2 DEF HasRequest, Queued, Held
    <3>3. CASE \E e \in inflight : e.id[1] = p
      <4>1. PICK e \in inflight : e.id[1] = p
        BY Zenon, <3>3
      <4>2. PICK f \in inflight' : f.id = e.id
        BY Zenon, <2>2
      <4>3. f.id[1] = p
        BY Zenon, <4>1, <4>2
      <4> QED BY Zenon, <4>3 DEF HasRequest, Flying
    <3> QED BY Zenon, <3>1, <3>2, <3>3, WhereRequest
  <2> QED BY Zenon, <2>3 DEF NoneLost
<1> QED BY Zenon, <1>1, <1>2, <1>3, <1>4
=============================================================================
