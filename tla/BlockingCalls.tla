----------------------------- MODULE BlockingCalls -----------------------------
(***************************************************************************)
(* Blocking syscalls and the loop that answers them.  An agent asks for a  *)
(* gated send or a tool call (src/agent.rs, src/tools.rs), its request is  *)
(* queued (PENDING) or in flight (INFLIGHT), and only then does            *)
(* src/syscall.rs block_current make it Blocked.  The console's CPU, in    *)
(* run_scheduled (src/process.rs:781-825), asks the human or collects      *)
(* signed decisions, receives tool results, expires calls and unblocks.    *)
(* One run is modelled, from the state right after select.                 *)
(*                                                                          *)
(* Time is the age of each call; `lag` is how long ago poll read `now`.     *)
(* Preemption is AgentCpu's subject and left out: a syscall is not          *)
(* preempted.                                                               *)
(***************************************************************************)
EXTENDS ProcessTable

CONSTANTS
    SignedModes,  \* values signed_mode() may have: whether operator keys are pinned
    Kinds,        \* the kinds of calls each process makes
    MaxCalls,     \* bound: blocking calls of each process
    MaxPending,   \* MAX_PENDING
    MaxInflight,  \* capacity of INFLIGHT
    Timeout,      \* CALL_TIMEOUT_MS, in units of time
    MaxLag,       \* bound: time that passes between reading `now` and using it
    TscBits       \* width of the time-stamp counter (64 in the code)

CallKinds == {"gated send", "gated tool", "tool"}
Gated(kind) == kind \in {"gated send", "gated tool"}

VARIABLES
    pc,        \* where each agent CPU is
    kind,      \* the call each process is making
    calls,     \* how many calls it has made; its latest call is <<pid, calls[pid]>>
    rax,       \* the call that the value in its rax answers
    pending,   \* PENDING
    open,      \* approvals::OPEN: signed requests
    inflight,  \* INFLIGHT
    lag,
    atGateway, \* tool calls the gateway is working on
    replies,   \* results on their way back
    at, ret,   \* where run_scheduled is, and its stack of return points
    done,      \* poll() has finished a call
    signedMode, \* signed_mode(), settled at boot
    held,      \* the request resolve_* has taken off the queue
    approved,  \* calls that a human or the operators approved
    performed  \* how often the action of each gated call was carried out

callVars == <<kind, calls, rax, pending, open, inflight, lag, atGateway, replies,
              held, approved, performed>>
loopVars == <<at, ret, done, signedMode>>
vars == <<tableVars, callVars, loopVars, pc>>

Supervise == 0 \notin Cpus
NoRequest == [id |-> <<0, 0>>, kind |-> "none", signed |-> FALSE, unsendable |-> FALSE]
Call(p) == <<p, calls[p]>>
Procs == 1 .. MaxProcesses

\* PENDING and INFLIGHT have as many places as the process table has slots.
ASSUME CallAssumption ==
    /\ \A p \in Procs : Kinds[p] \subseteq CallKinds /\ MaxCalls[p] \in Nat
    /\ MaxPending \in Nat /\ MaxPending >= MaxProcesses
    /\ MaxInflight \in Nat /\ MaxInflight >= MaxProcesses
    /\ Timeout \in Nat /\ MaxLag \in Nat /\ TscBits \in Nat
    /\ SignedModes \subseteq BOOLEAN

Ids == UNION {{p} \X (0 .. MaxCalls[p]) : p \in Procs}

Init ==
    /\ slots = [i \in Slots |-> [FreeSlot EXCEPT !.pid = i + 1, !.state = "Ready",
                                   !.scheduled = TRUE, !.home = Homes[1 + (i % Len(Homes))]]]
    /\ current = [c \in Cpus |-> NoPid]
    /\ sliceUsed = [c \in Cpus |-> 0]
    /\ cursor = [c \in Cpus |-> MaxProcesses - 1]
    /\ nextPid = MaxProcesses + 1 /\ slice = DefaultSlice /\ budget = DefaultBudget
    /\ pc = [c \in Cpus |-> "idle"]
    /\ kind = [p \in Procs |-> "none"]
    /\ calls = [p \in Procs |-> 0] /\ rax = [p \in Procs |-> 0]
    /\ pending = <<>> /\ open = {} /\ inflight = {} /\ lag = 0
    /\ atGateway = {} /\ replies = {}
    /\ at = "top" /\ ret = <<>> /\ done = FALSE /\ held = NoRequest
    /\ signedMode \in SignedModes
    /\ approved = {} /\ performed = [id \in Ids |-> 0]

\* The release loop waits for a lock it holds itself: nobody gets the table.
TableFree == at # "stuck"

-----------------------------------------------------------------------------
(* An agent CPU. *)

\* With no APs the console's CPU runs agents from its own loop.
MayRun(c) == Supervise \/ at = "dispatch"

Enter(c) ==
    /\ pc[c] = "idle" /\ MayRun(c) /\ TableFree
    /\ \E i \in Slots : DispatchNext(c, i)
    /\ pc' = [pc EXCEPT ![c] = "user"]
    /\ at' = IF Supervise THEN at ELSE "agent"
    /\ UNCHANGED <<callVars, ret, done, signedMode>>

\* run_frame returns to the scheduler loop.
Back == at' = IF Supervise THEN at ELSE "top"

Exit(c) ==
    /\ pc[c] = "user" /\ TableFree
    /\ ExitCurrent(c)
    /\ pc' = [pc EXCEPT ![c] = "idle"]
    /\ Back
    /\ UNCHANGED <<callVars, ret, done, signedMode>>

Ask(c) ==
    /\ pc[c] = "user"
    /\ calls[current[c]] < MaxCalls[current[c]]
    /\ calls' = [calls EXCEPT ![current[c]] = @ + 1]
    /\ \E k \in Kinds[current[c]] :
         /\ kind' = [kind EXCEPT ![current[c]] = k]
         /\ pc' = [pc EXCEPT ![c] = IF Gated(k) THEN "enqueue" ELSE "send"]
    /\ UNCHANGED <<tableVars, rax, pending, open, inflight, lag, atGateway, replies,
                   held, approved, performed, loopVars>>

Request(p, s, u) == [id |-> Call(p), kind |-> kind[p], signed |-> s, unsendable |-> u]

\* The handler returns an errno: the agent goes on in ring 3.
Refuse(c) ==
    /\ rax' = [rax EXCEPT ![current[c]] = calls[current[c]]]
    /\ pc' = [pc EXCEPT ![c] = "user"]

PushPending(c, req) ==
    IF Len(pending) = MaxPending
    THEN Refuse(c) /\ UNCHANGED pending
    ELSE /\ pending' = Append(pending, req)
         /\ pc' = [pc EXCEPT ![c] = "block"]
         /\ UNCHANGED rax

\* enqueue: in signed mode open_signed first sends the request to the
\* operators, or marks it unsendable.
Enqueue(c) ==
    /\ pc[c] = "enqueue"
    /\ ~signedMode
    /\ PushPending(c, Request(current[c], FALSE, FALSE))
    /\ UNCHANGED <<tableVars, kind, calls, open, inflight, lag, atGateway, replies, held,
                   approved, performed, loopVars>>

EnqueueUnsendable(c) ==
    /\ pc[c] = "enqueue"
    /\ signedMode
    /\ PushPending(c, Request(current[c], FALSE, TRUE))
    /\ UNCHANGED <<tableVars, kind, calls, open, inflight, lag, atGateway, replies, held,
                   approved, performed, loopVars>>

OpenSigned(c) ==
    /\ pc[c] = "enqueue"
    /\ signedMode
    /\ open' = open \cup {[id |-> Call(current[c]), late |-> FALSE, outcome |-> "none"]}
    /\ pc' = [pc EXCEPT ![c] = "opened"]
    /\ UNCHANGED <<tableVars, kind, calls, rax, pending, inflight, lag, atGateway, replies,
                   held, approved, performed, loopVars>>

EnqueueSigned(c) ==
    /\ pc[c] = "opened"
    /\ PushPending(c, Request(current[c], TRUE, FALSE))
    /\ UNCHANGED <<tableVars, kind, calls, open, inflight, lag, atGateway, replies, held,
                   approved, performed, loopVars>>

\* tools::dispatch, first half: INFLIGHT full, link down, or the call is sent.
SendCall(c) ==
    /\ pc[c] = "send"
    /\ \/ Refuse(c) /\ UNCHANGED atGateway
       \/ /\ Cardinality(inflight) < MaxInflight
          /\ atGateway' = atGateway \cup {Call(current[c])}
          /\ pc' = [pc EXCEPT ![c] = "sent"]
          /\ UNCHANGED rax
    /\ UNCHANGED <<tableVars, kind, calls, pending, open, inflight, lag, replies, held,
                   approved, performed, loopVars>>

\* INFLIGHT.push: its result is ignored.
Pushed(id) ==
    IF Cardinality(inflight) < MaxInflight
    THEN inflight \cup {[id |-> id, age |-> 0]} ELSE inflight

RecordCall(c) ==
    /\ pc[c] = "sent"
    /\ inflight' = Pushed(Call(current[c]))
    /\ pc' = [pc EXCEPT ![c] = "block"]
    /\ UNCHANGED <<tableVars, kind, calls, rax, pending, open, lag, atGateway, replies, held,
                   approved, performed, loopVars>>

\* syscall_entry: Outcome::Block.
Block(c) ==
    /\ pc[c] = "block" /\ TableFree
    /\ BlockCurrent(c)
    /\ pc' = [pc EXCEPT ![c] = "idle"]
    /\ Back
    /\ UNCHANGED <<callVars, ret, done, signedMode>>

-----------------------------------------------------------------------------
(* The supervisor: run_scheduled on the console's CPU. *)

Goto(l) == at' = l /\ UNCHANGED ret
Gosub(l, r) == at' = l /\ ret' = <<r>> \o ret
Return == at' = Head(ret) /\ ret' = Tail(ret)

\* process::unblock(pid, result of call id): lost unless the process is Blocked.
Answer(id) ==
    \/ Unblock(id[1]) /\ rax' = [rax EXCEPT ![id[1]] = id[2]]
    \/ /\ \A i \in Slots : Found(id[1], i) => slots[i].state # "Blocked"
       /\ UNCHANGED <<tableVars, rax>>

Top ==
    /\ at = "top"
    /\ IF pending # <<>> THEN Gosub("resolve", "inflight") ELSE Goto("inflight")
    /\ UNCHANGED <<tableVars, callVars, pc, done, signedMode>>

CheckInflight ==
    /\ at = "inflight"
    /\ IF inflight # {} THEN Gosub("recv", "dispatch") ELSE Goto("dispatch")
    /\ UNCHANGED <<tableVars, callVars, pc, done, signedMode>>

NothingToDispatch ==
    /\ at = "dispatch"
    /\ Supervise \/ \A i \in Slots : ~Runnable(i)
    /\ Goto("outstanding")
    /\ UNCHANGED <<tableVars, callVars, pc, done, signedMode>>

Outstanding ==
    /\ at = "outstanding"
    /\ IF Active # {} THEN Goto("top")
       ELSE IF BlockedScheduled = {} THEN Goto("over") ELSE Gosub("resolve", "choose")
    /\ UNCHANGED <<tableVars, callVars, pc, done, signedMode>>

\* resolve_approvals: the signed one receives first.
Resolve ==
    /\ at = "resolve"
    /\ IF signedMode THEN at' = "recv" /\ ret' = <<"ttl", "take">> \o ret ELSE Goto("take")
    /\ UNCHANGED <<tableVars, callVars, pc, done, signedMode>>

Outcome(id) == {r.outcome : r \in {o \in open : o.id = id}}
Ready(req) == req.unsendable \/ (req.signed /\ Outcome(req.id) \notin {{}, {"none"}})

\* Mutant: the request stays queued while it is decided.
TakeRequest_Peeks ==
    /\ at = "take"
    /\ pending # <<>>
    /\ held' = Head(pending)
    /\ Goto("apply")
    /\ UNCHANGED <<tableVars, kind, calls, rax, pending, open, inflight, lag, atGateway, replies,
                   approved, performed, pc, done, signedMode>>

\* The request to take next: the oldest, or the first that is decided; the
\* ones before it are rotated to the back.
TakeRequest ==
    /\ at = "take"
    /\ \E k \in 1 .. Len(pending) :
         /\ IF signedMode THEN Ready(pending[k]) /\ \A j \in 1 .. k - 1 : ~Ready(pending[j])
                      ELSE k = 1
         /\ held' = pending[k]
         /\ pending' = SubSeq(pending, k + 1, Len(pending)) \o SubSeq(pending, 1, k - 1)
    /\ Goto("apply")
    /\ UNCHANGED <<tableVars, kind, calls, rax, open, inflight, lag, atGateway, replies,
                   approved, performed, pc, done, signedMode>>

NoneToTake ==
    /\ at = "take"
    /\ IF signedMode THEN \A k \in 1 .. Len(pending) : ~Ready(pending[k]) ELSE pending = <<>>
    /\ Return
    /\ UNCHANGED <<tableVars, callVars, pc, done, signedMode>>

\* The decision on the request taken: the human's, or the operators'.
Decision(ok) == signedMode => (ok <=> Outcome(held.id) = {"approved"})

Deny ==
    /\ at = "apply" /\ Decision(FALSE)
    /\ Answer(held.id)
    /\ UNCHANGED <<inflight, atGateway, approved, performed>>

\* The operators' approvals were counted when they arrived (RecvDecision).
Approved == approved' = IF signedMode THEN approved ELSE approved \cup {held.id}

ApproveSend ==
    /\ at = "apply" /\ Decision(TRUE) /\ held.kind = "gated send"
    /\ Approved
    /\ performed' = [performed EXCEPT ![held.id] = @ + 1]
    /\ Answer(held.id)
    /\ UNCHANGED <<inflight, atGateway>>

\* Mutant: the agent is not woken when dispatch fails.
ApproveTool_ErrorIgnored ==
    /\ at = "apply" /\ Decision(TRUE) /\ held.kind = "gated tool"
    /\ Approved
    /\ \/ UNCHANGED <<inflight, atGateway, performed>>
       \/ /\ Cardinality(inflight) < MaxInflight
          /\ atGateway' = atGateway \cup {held.id}
          /\ inflight' = Pushed(held.id)
          /\ performed' = [performed EXCEPT ![held.id] = @ + 1]
    /\ UNCHANGED <<tableVars, rax>>

\* tools::dispatch on the agent's behalf: it stays blocked unless that fails.
ApproveTool ==
    /\ at = "apply" /\ Decision(TRUE) /\ held.kind = "gated tool"
    /\ Approved
    /\ \/ Answer(held.id) /\ UNCHANGED <<inflight, atGateway, performed>>
       \/ /\ Cardinality(inflight) < MaxInflight
          /\ atGateway' = atGateway \cup {held.id}
          /\ inflight' = Pushed(held.id)
          /\ performed' = [performed EXCEPT ![held.id] = @ + 1]
          /\ UNCHANGED <<tableVars, rax>>

\* apply, after approvals::close.
Apply ==
    /\ Deny \/ ApproveSend \/ ApproveTool
    /\ open' = {r \in open : r.id # held.id}
    /\ held' = NoRequest
    /\ Goto("take")
    /\ UNCHANGED <<kind, calls, pending, lag, replies, pc, done, signedMode>>

\* Mutant: an answered call stays in INFLIGHT.
RecvReply_KeepsCall ==
    /\ at = "recv"
    /\ \E id \in replies :
         /\ replies' = replies \ {id}
         /\ IF \E e \in inflight : e.id = id THEN Answer(id) ELSE UNCHANGED <<tableVars, rax>>
    /\ done' = TRUE
    /\ UNCHANGED <<kind, calls, pending, open, inflight, lag, atGateway, held, approved,
                   performed, pc, at, ret, signedMode>>

\* poll: each result that has arrived (deliver).
RecvReply ==
    /\ at = "recv"
    /\ \E id \in replies :
         /\ replies' = replies \ {id}
         /\ inflight' = {e \in inflight : e.id # id}
         /\ IF inflight' # inflight THEN Answer(id) ELSE UNCHANGED <<tableVars, rax>>
    /\ done' = TRUE
    /\ UNCHANGED <<kind, calls, pending, open, lag, atGateway, held, approved, performed,
                   pc, at, ret, signedMode>>

\* poll: a signed decision that has arrived (see Approvals).
RecvDecision ==
    /\ at = "recv"
    /\ \E r \in open : \E o \in {"approved", "denied"} :
         /\ r.outcome = "none"
         /\ open' = (open \ {r}) \cup {[r EXCEPT !.outcome = o]}
         /\ approved' = IF o = "approved" THEN approved \cup {r.id} ELSE approved
    /\ UNCHANGED <<tableVars, kind, calls, rax, pending, inflight, lag, atGateway, replies,
                   held, performed, pc, loopVars>>

\* poll: nothing more to receive, `now` is read.
ReadNow ==
    /\ at = "recv" /\ replies = {}
    /\ lag' = 0
    /\ Goto("expire")
    /\ UNCHANGED <<tableVars, kind, calls, rax, pending, open, inflight, atGateway, replies,
                   held, approved, performed, pc, done, signedMode>>

\* Mutant: calls never expire.
Expired_Never(e) == FALSE

\* now.wrapping_sub(started) > timeout
Expired(e) == (e.age - lag) % 2^TscBits > Timeout

Expire ==
    /\ at = "expire"
    /\ \E e \in inflight :
         Expired(e) /\ inflight' = inflight \ {e} /\ Answer(e.id)
    /\ done' = TRUE
    /\ UNCHANGED <<kind, calls, pending, open, lag, atGateway, replies, held, approved,
                   performed, pc, at, ret, signedMode>>

PollReturns ==
    /\ at = "expire"
    /\ \A e \in inflight : ~Expired(e)
    /\ lag' = 0
    /\ Return
    /\ UNCHANGED <<tableVars, kind, calls, rax, pending, open, inflight, atGateway, replies,
                   held, approved, performed, pc, done, signedMode>>

\* check_timeouts
CheckTimeouts ==
    /\ at = "ttl"
    /\ open' = {IF r.late /\ r.outcome = "none" THEN [r EXCEPT !.outcome = "timedout"] ELSE r
                : r \in open}
    /\ Return
    /\ UNCHANGED <<tableVars, kind, calls, rax, pending, inflight, lag, atGateway, replies,
                   held, approved, performed, pc, done, signedMode>>

\* Nothing is runnable: wait for signatures, else for tool results, else
\* release whatever is still blocked.
ChooseWait ==
    /\ at = "choose"
    /\ Goto(IF signedMode /\ pending # <<>> THEN "wait any" ELSE "choose tools")
    /\ UNCHANGED <<tableVars, callVars, pc, done, signedMode>>

ChooseTools ==
    /\ at = "choose tools"
    /\ Goto(IF inflight # {} THEN "progress" ELSE "release")
    /\ UNCHANGED <<tableVars, callVars, pc, done, signedMode>>

\* wait_any: pump, then look for a decided request.
WaitAny ==
    /\ at = "wait any"
    /\ at' = "recv" /\ ret' = <<"ttl", "wait check">> \o ret
    /\ UNCHANGED <<tableVars, callVars, pc, done, signedMode>>

WaitCheck ==
    /\ at = "wait check"
    /\ Goto(IF open = {} \/ \E r \in open : r.outcome # "none" THEN "top" ELSE "wait any")
    /\ UNCHANGED <<tableVars, callVars, pc, done, signedMode>>

\* wait_progress: poll until a call finishes or none is in flight.
WaitProgress ==
    /\ at = "progress"
    /\ done' = FALSE
    /\ IF inflight = {} THEN Goto("top") ELSE Gosub("recv", "progressed")
    /\ UNCHANGED <<tableVars, callVars, pc, signedMode>>

Progressed ==
    /\ at = "progressed"
    /\ Goto(IF done THEN "top" ELSE "progress")
    /\ UNCHANGED <<tableVars, callVars, pc, done, signedMode>>

\* `for pid in TABLE.lock().blocked_scheduled() { unblock(pid, ..) }`: the
\* guard of the iterated expression lives until the loop ends, and unblock
\* locks the same spin mutex.
Release ==
    /\ at = "release"
    /\ Goto(IF BlockedScheduled = {} THEN "top" ELSE "stuck")
    /\ UNCHANGED <<tableVars, callVars, pc, done, signedMode>>

-----------------------------------------------------------------------------
(* The gateway and time. *)

GatewayReplies ==
    /\ \E id \in atGateway :
         atGateway' = atGateway \ {id} /\ replies' = replies \cup {id}
    /\ UNCHANGED <<tableVars, kind, calls, rax, pending, open, inflight, lag, held, approved,
                   performed, pc, loopVars>>

\* Ages saturate where every comparison with Timeout has been settled.
TimePasses ==
    /\ at = "expire" => lag < MaxLag
    /\ lag' = IF at = "expire" THEN lag + 1 ELSE 0
    /\ inflight' = {[e EXCEPT !.age = IF @ > Timeout + MaxLag THEN @ ELSE @ + 1] : e \in inflight}
    /\ UNCHANGED <<tableVars, kind, calls, rax, pending, open, atGateway, replies, held,
                   approved, performed, pc, loopVars>>

\* approval-timeout passes for an open request.
DeadlinePasses ==
    /\ \E r \in open :
         ~r.late /\ open' = (open \ {r}) \cup {[r EXCEPT !.late = TRUE]}
    /\ UNCHANGED <<tableVars, kind, calls, rax, pending, inflight, lag, atGateway, replies,
                   held, approved, performed, pc, loopVars>>

Over == at = "over" /\ UNCHANGED vars

-----------------------------------------------------------------------------

SupervisorStep ==
    \/ Top \/ CheckInflight \/ NothingToDispatch \/ Outstanding \/ Resolve \/ TakeRequest
    \/ NoneToTake \/ Apply \/ RecvReply \/ RecvDecision \/ ReadNow \/ Expire \/ PollReturns
    \/ CheckTimeouts \/ ChooseWait \/ ChooseTools \/ WaitAny \/ WaitCheck \/ WaitProgress
    \/ Progressed \/ Release

AgentStep(c) ==
    \/ Enter(c) \/ Exit(c) \/ Ask(c) \/ Enqueue(c) \/ EnqueueUnsendable(c) \/ OpenSigned(c)
    \/ EnqueueSigned(c) \/ SendCall(c) \/ RecordCall(c) \/ Block(c)

Next ==
    \/ SupervisorStep
    \/ \E c \in Cpus : AgentStep(c)
    \/ GatewayReplies
    \/ TimePasses
    \/ DeadlinePasses
    \/ Over

Spec == Init /\ [][Next]_vars

\* CPUs run, time passes, and an agent left in ring 3 ends (the watchdog, see
\* AgentCpu).  Nothing is assumed of the gateway or of the operators; the
\* human at the console does answer (Apply is a supervisor step).
Fairness ==
    /\ WF_vars(SupervisorStep)
    /\ \A c \in Cpus : WF_vars(AgentStep(c))
    /\ WF_vars(TimePasses)
    /\ WF_vars(DeadlinePasses)

FairSpec == Spec /\ Fairness

-----------------------------------------------------------------------------
(* Properties. *)

\* Every variable is well formed.
TypeOK ==
    LET Requests == [id : Ids, kind : CallKinds, signed : BOOLEAN, unsendable : BOOLEAN]
    IN
    /\ TableTypeOK
    /\ pc \in [Cpus -> {"idle", "user", "enqueue", "opened", "send", "sent", "block"}]
    /\ kind \in [Procs -> CallKinds \cup {"none"}]
    /\ \A p \in Procs : calls[p] \in 0 .. MaxCalls[p] /\ rax[p] \in 0 .. calls[p]
    /\ pending \in Seq(Requests) /\ held \in Requests \cup {NoRequest}
    /\ open \subseteq [id : Ids, late : BOOLEAN,
                       outcome : {"none", "approved", "denied", "timedout"}]
    /\ inflight \subseteq [id : Ids, age : 0 .. Timeout + MaxLag + 1]
    /\ lag \in 0 .. MaxLag
    /\ atGateway \subseteq Ids /\ replies \subseteq Ids
    /\ approved \subseteq Ids /\ performed \in [Ids -> Nat]

\* The requests of process p that somebody still has to answer.
Queued(p) == {k \in 1 .. Len(pending) : pending[k].id[1] = p}
Held(p) == held.id[1] = p
Flying(p) == {e \in inflight : e.id[1] = p}

\* An agent back in ring 3 has the answer to its own latest call in rax: a
\* result that comes late, after a timeout, never answers a later call
\* (tools.rs:584 drops unknown ids).
ReturnsOwnAnswer ==
    \A c \in Cpus : pc[c] = "user" => rax[current[c]] = calls[current[c]]

\* A gated action (RequiresApproval) is carried out only if the operators
\* approved that very request, whatever the order in which decisions, tool
\* results and time-outs arrive (agent.rs:391-428).
GatedNeedsApproval == \A id \in Ids : performed[id] > 0 => id \in approved

\* A gated action is carried out at most once, and only while its agent waits
\* for it: never after the agent was told that it was denied or had timed out
\* (agent.rs:431-443, 457-478).
PerformedOnceInTime ==
    [][\A id \in Ids : performed'[id] # performed[id] =>
         performed[id] = 0 /\ rax[id[1]] # id[2]]_vars

\* A process has at most one request outstanding, and while one is, it is in
\* its call: so MAX_PENDING and INFLIGHT, sized like the process table, never
\* refuse or drop a request (agent.rs:369, tools.rs:499 ignores push's result).
RoomForEveryRequest ==
    /\ \A p \in Procs : Cardinality(Queued(p)) + Cardinality(Flying(p)) + (IF Held(p) THEN 1 ELSE 0) <= 1
    /\ \A c \in Cpus :
         /\ pc[c] \in {"enqueue", "opened"} => Len(pending) < MaxPending
         /\ pc[c] \in {"send", "sent"} => Cardinality(inflight) < MaxInflight

\* A blocked process has a request that will answer it: "its result is
\* delivered later by unblock" (syscall.rs:60-61).
BlockedHasRequest ==
    \A i \in BlockedScheduled :
        LET p == slots[i].pid IN Queued(p) # {} \/ Held(p) \/ Flying(p) # {}

\* An agent gets the answer to its own call, a gated action needs the approval of
\* that very request and is carried out once and in time, and no request is
\* refused or dropped for want of room (agent.rs:391-478, tools.rs:499-590).
CallsAnsweredOnce ==
    /\ [](TypeOK /\ ReturnsOwnAnswer /\ GatedNeedsApproval /\ RoomForEveryRequest)
    /\ PerformedOnceInTime

\* A call that times out has waited longer than its time-out: "A call with no
\* result after this long fails with ETIMEDOUT" (tools.rs:44).
NoEarlyTimeout ==
    [][\A e \in inflight : (at = "expire" /\ e.id \notin {f.id : f \in inflight'})
                           => e.age > Timeout]_vars

\* "anything still blocked afterwards has no pending request and is released
\* with an error" (process.rs:808-810): a blocked process the release loop
\* finds is unblocked.
BlockedIsReleased ==
    \A i \in Slots : (at = "release" /\ i \in BlockedScheduled) ~> slots[i].state # "Blocked"

\* Every blocking call returns: whatever the gateway and the operators do,
\* the time-outs answer it (process.rs:781-825).  On the console's own CPU, and
\* while agents can be entered: a failing run_frame, which ends the run with
\* processes still Blocked, is AgentCpu's.
CallsReturn ==
    \A i \in Slots : slots[i].state = "Blocked" ~> slots[i].state # "Blocked"
=============================================================================
