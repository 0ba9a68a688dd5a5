------------------------ MODULE BlockingCalls_proofs ------------------------
(******************************************************************************)
(* The requests of an agent keep the invariant of BlockingCalls_inv, and what *)
(* follows from it: an agent gets the answer to its own call, a gated action  *)
(* is carried out once, approved and in time, and no request is refused for   *)
(* want of room; without application processors every blocked agent has a     *)
(* request that will answer it.                                               *)
(******************************************************************************)
EXTENDS BlockingCalls_inv, FiniteSetTheorems

-----------------------------------------------------------------------------
(* Room for requests. *)

\* Distinct members of a set of processes but one: fewer than all processes.
LEMMA FewerThanProcesses ==
    ASSUME NEW S, NEW f, NEW p \in Procs, f \in [S -> Procs \ {p}],
           \A x, y \in S : f[x] = f[y] => x = y
    PROVE  IsFiniteSet(S) /\ Cardinality(S) < MaxProcesses
<1>1. IsFiniteSet(Procs) /\ Cardinality(Procs) = MaxProcesses
  <2>1. 1 \in Int /\ MaxProcesses \in Int /\ MaxProcesses >= 1
    BY TableAssumption
  <2> QED BY <2>1, FS_Interval DEF Procs
<1>2. IsFiniteSet(Procs \ {p}) /\ Cardinality(Procs \ {p}) = MaxProcesses - 1
  BY <1>1, FS_RemoveElement
<1>3. f \in Injection(S, Procs \ {p})
  BY Zenon DEF Injection, IsInjective
<1>4. IsFiniteSet(S) /\ Cardinality(S) <= MaxProcesses - 1
  BY <1>2, <1>3, FS_Injection
<1>5. Cardinality(S) \in Nat
  BY <1>4, FS_CardinalityType
<1> QED BY <1>4, <1>5, TableAssumption

\* Who makes a call without having asked yet leaves room for its request.
LEMMA RoomForOne ==
    ASSUME CallInv, NEW c \in Cpus, pc[c] \notin {"idle", "block"}
    PROVE  Len(pending) < MaxPending /\ Cardinality(inflight) < MaxInflight
<1> DEFINE p == current[c]
           f == [k \in 1 .. Len(pending) |-> pending[k].id[1]]
           g == [e \in inflight |-> e.id[1]]
<1>0. p \in Procs /\ ~Waits(p)
  BY NotWaiting
<1>1. \A id \in Ids : Requested(id) => id[1] # p
  BY Zenon, <1>0, NoneRequested
<1>2. pending \in Seq(RequestRecords) /\ Len(pending) \in Nat
  BY DEF CallInv, Typed
<1>3. \A k \in 1 .. Len(pending) : pending[k].id \in Ids
  <2>1. \A k \in 1 .. Len(pending) : pending[k] \in RequestRecords
    BY <1>2
  <2> QED BY Zenon, <2>1 DEF RequestRecords
<1>4. \A e \in inflight : e.id \in Ids
  BY DEF CallInv, Typed, Flights
<1>5. f \in [1 .. Len(pending) -> Procs \ {p}]
  <2>1. ASSUME NEW k \in 1 .. Len(pending) PROVE pending[k].id[1] \in Procs \ {p}
    BY Zenon, <1>1, <1>3, CallIds DEF Requested
  <2> QED BY Zenon, <2>1
<1>6. \A j, k \in 1 .. Len(pending) : f[j] = f[k] => j = k
  BY Zenon DEF CallInv, OneEach
<1>7. g \in [inflight -> Procs \ {p}]
  <2>1. ASSUME NEW e \in inflight PROVE e.id[1] \in Procs \ {p}
    BY Zenon, <1>1, <1>4, CallIds DEF Requested
  <2> QED BY Zenon, <2>1
<1>8. \A d, e \in inflight : g[d] = g[e] => d = e
  BY Zenon DEF CallInv, OneEach
<1> HIDE DEF p, f, g
<1>9. Cardinality(1 .. Len(pending)) < MaxProcesses
  BY Zenon, <1>0, <1>5, <1>6, FewerThanProcesses
<1>10. Cardinality(inflight) < MaxProcesses /\ IsFiniteSet(inflight)
  BY Zenon, <1>0, <1>7, <1>8, FewerThanProcesses
<1>11. Cardinality(1 .. Len(pending)) = Len(pending)
  BY <1>2, FS_Interval
<1>12. Cardinality(inflight) \in Nat
  BY <1>10, FS_CardinalityType
<1> QED BY <1>2, <1>9, <1>10, <1>11, <1>12, CallAssumption, TableAssumption

\* At most one member of a set whose members are all equal.
LEMMA AtMostOne ==
    ASSUME NEW S, \A x, y \in S : x = y
    PROVE  Cardinality(S) = (IF S = {} THEN 0 ELSE 1)
<1>1. CASE S = {}
  BY <1>1, FS_EmptySet
<1>2. CASE S # {}
  <2>1. PICK x \in S : TRUE
    BY Zenon, <1>2
  <2>2. S = {x}
    BY Zenon, <2>1
  <2> QED BY <1>2, <2>2, FS_Singleton
<1> QED BY <1>1, <1>2

-----------------------------------------------------------------------------
(* The requests of an agent. *)

\* A gated request is queued; there is room for it.
LEMMA PushKeeps ==
    ASSUME CallInv, NEW c \in Cpus, pc[c] \in {"enqueue", "opened"}, NEW s \in BOOLEAN, NEW u \in BOOLEAN,
           PushPending(c, Request(current[c], s, u)),
           UNCHANGED <<tableVars, kind, calls, open, inflight, lag, atGateway, replies, held,
                       approved, performed, loopVars>>
    PROVE  CallInv'
<1> DEFINE p == current[c]
           req == Request(p, s, u)
<1>1. pc[c] \in Calling \ {"block"} /\ pc[c] \in Calling /\ pc[c] \notin {"idle", "block"}
  BY DEF Calling
<1>2. "block" \in Calling /\ "block" # "enqueue" /\ "block" \notin {"enqueue", "opened"}
  BY DEF Calling
<1>3. Len(pending) < MaxPending /\ Len(pending) # MaxPending
  <2>1. Len(pending) < MaxPending
    BY <1>1, RoomForOne
  <2> QED BY <2>1, CallAssumption DEF CallInv, Typed
<1>4. pending' = Append(pending, req) /\ pc' = [pc EXCEPT ![c] = "block"] /\ UNCHANGED rax
  BY Zenon, <1>3 DEF PushPending
<1>5. /\ Placed' /\ Answered' /\ LoopShape' /\ TableTypeOK' /\ pc' \in [Cpus -> Stages]
      /\ pc'[c] = "block" /\ \A d \in Cpus \ {c} : pc'[d] = pc[d]
      /\ \A q \in Procs : Waits(q) => q = current[c] \/ Waits(q)'
  BY Zenon, <1>1, <1>2, <1>4, HandlerGoesOn
<1>6. /\ p \in Procs /\ Call(p) \in Ids /\ Call(p)[1] = p /\ Call(p)[2] = calls[p]
      /\ rax[p] # calls[p]
      /\ \A k \in 1 .. Len(pending) : pending[k].id[1] # p
      /\ \A e \in inflight : e.id[1] # p
      /\ held.id[1] # p
      /\ ~Waits(p)
  BY Zenon, <1>1, OwnRequest
<1>7. Gated(kind[p]) /\ performed[Call(p)] = 0
  BY Zenon DEF CallInv, Untouched
<1>8. req \in RequestRecords /\ req.id = Call(p)
  <2>1. kind[p] \in CallKinds
    BY Zenon, <1>7 DEF Gated, CallKinds
  <2> QED BY Zenon, <1>6, <2>1 DEF Request, RequestRecords
<1> HIDE DEF req
<1>9. /\ pending' \in Seq(RequestRecords)
      /\ \A k \in 1 .. Len(pending) : pending'[k] = pending[k]
      /\ pending'[Len(pending) + 1] = req
      /\ \A k \in 1 .. Len(pending') : k \in 1 .. Len(pending) \/ k = Len(pending) + 1
  <2>1. pending \in Seq(RequestRecords)
    BY Zenon DEF CallInv, Typed
  <2> DEFINE q == Append(pending, req)
  <2>2. /\ q \in Seq(RequestRecords)
        /\ \A k \in 1 .. Len(pending) : q[k] = pending[k]
        /\ q[Len(pending) + 1] = req
        /\ \A k \in 1 .. Len(q) : k \in 1 .. Len(pending) \/ k = Len(pending) + 1
    BY Zenon, <1>8, <2>1, Appended
  <2>3. pending' = q
    BY Zenon, <1>4
  <2> HIDE DEF q
  <2> QED BY Zenon, <2>2, <2>3
<1>10. \A k \in 1 .. Len(pending') :
         \/ k \in 1 .. Len(pending) /\ pending'[k] = pending[k] /\ pending'[k].id[1] # p
         \/ k = Len(pending) + 1 /\ pending'[k].id = Call(p) /\ pending'[k].id[1] = p
  <2>1. ASSUME NEW k \in 1 .. Len(pending), pending'[k] = pending[k] PROVE pending'[k].id[1] # p
    BY Zenon, <1>6, <2>1
  <2>2. req.id = Call(p) /\ req.id[1] = p
    BY Zenon, <1>6, <1>8
  <2> QED BY Zenon, <1>9, <2>1, <2>2
<1>11. Awaited'
  <2>1. \A q : q = p => Waits(q)'
    <3>1. current'[c] = p
      BY Zenon DEF tableVars
    <3> QED BY Zenon, <1>5, <3>1 DEF Waits
  <2>2. ASSUME NEW id \in Ids, Requested(id)' PROVE Requested(id) \/ id = Call(p)
    BY Zenon, <1>10, <2>2 DEF Requested
  <2>3. ASSUME NEW id \in Ids, Requested(id)'
        PROVE id[2] = calls'[id[1]] /\ rax'[id[1]] # id[2] /\ Waits(id[1])'
    <3>1. CASE id = Call(p)
      <4>1. id[1] = p /\ id[2] = calls[p]
        BY Zenon, <1>6, <3>1
      <4>2. rax[p] # calls[p] /\ rax' = rax /\ calls' = calls
        BY Zenon, <1>4, <1>6
      <4> QED BY Zenon, <2>1, <4>1, <4>2
    <3>2. CASE Requested(id)
      BY Zenon, <1>4, <1>5, <1>6, <2>1, <3>2, CallIds DEF CallInv, Awaited
    <3> QED BY Zenon, <2>2, <2>3, <3>1, <3>2
  <2> QED BY Zenon, <2>3 DEF Awaited
<1>12. OneEach'
  <2>1. ASSUME NEW j \in 1 .. Len(pending'), NEW k \in 1 .. Len(pending'),
               pending'[j].id[1] = pending'[k].id[1]
        PROVE  j = k
    <3>1. CASE pending'[j].id[1] = p
      BY Zenon, <1>10, <2>1, <3>1
    <3>2. CASE pending'[j].id[1] # p
      <4>1. /\ j \in 1 .. Len(pending) /\ pending'[j] = pending[j]
            /\ k \in 1 .. Len(pending) /\ pending'[k] = pending[k]
        BY Zenon, <1>10, <2>1, <3>2
      <4> QED BY Zenon, <2>1, <4>1 DEF CallInv, OneEach
    <3> QED BY Zenon, <3>1, <3>2
  <2>2. ASSUME NEW k \in 1 .. Len(pending'), NEW e \in inflight PROVE pending'[k].id[1] # e.id[1]
    <3>1. CASE pending'[k].id[1] = p
      BY Zenon, <1>6, <3>1
    <3>2. CASE pending'[k].id[1] # p
      <4>1. k \in 1 .. Len(pending) /\ pending'[k] = pending[k]
        BY Zenon, <1>10, <3>2
      <4> QED BY Zenon, <4>1 DEF CallInv, OneEach
    <3> QED BY Zenon, <3>1, <3>2
  <2>3. \A k \in 1 .. Len(pending') : pending'[k].id[1] # held.id[1]
    BY Zenon, <1>6, <1>10 DEF CallInv, OneEach
  <2> QED BY Zenon, <2>1, <2>2, <2>3 DEF CallInv, OneEach
<1>13. Untouched'
  <2>1. \A q : Call(q)' = Call(q)
    BY Zenon DEF Call
  <2>2. \A d \in Cpus : pc'[d] \in {"enqueue", "opened"} => pc'[d] = pc[d]
    BY Zenon, <1>2, <1>5
  <2>3. \A k \in 1 .. Len(pending') : performed[pending'[k].id] = 0
    BY Zenon, <1>7, <1>10 DEF CallInv, Untouched
  <2>4. UNCHANGED current
    BY Zenon DEF tableVars
  <2> QED BY Zenon, <2>1, <2>2, <2>3, <2>4 DEF CallInv, Untouched
<1>14. Typed'
  BY Zenon, <1>4, <1>5, <1>9 DEF CallInv, Typed
<1>15. Vouched'
  BY Zenon DEF CallInv, Vouched, GatedNeedsApproval
<1> QED BY Zenon, <1>5, <1>11, <1>12, <1>13, <1>14, <1>15 DEF CallInv

\* enqueue, in its three variants.
LEMMA EnqueueKeeps ==
    ASSUME CallInv, NEW c \in Cpus, Enqueue(c) \/ EnqueueUnsendable(c) \/ EnqueueSigned(c)
    PROVE  CallInv'
<1>1. PICK s \in BOOLEAN, u \in BOOLEAN : PushPending(c, Request(current[c], s, u))
  BY Zenon DEF Enqueue, EnqueueUnsendable, EnqueueSigned
<1>2. /\ pc[c] \in {"enqueue", "opened"}
      /\ UNCHANGED <<tableVars, kind, calls, open, inflight, lag, atGateway, replies, held,
                     approved, performed, loopVars>>
  BY Zenon DEF Enqueue, EnqueueUnsendable, EnqueueSigned
<1> QED BY Zenon, <1>1, <1>2, PushKeeps

\* The tool call is on record; there is room for it.
LEMMA RecordKeeps == ASSUME CallInv, NEW c \in Cpus, RecordCall(c) PROVE CallInv'
<1> DEFINE p == current[c]
           e0 == [id |-> Call(p), age |-> 0]
<1>1. /\ pc[c] = "sent" /\ inflight' = Pushed(Call(p)) /\ pc' = [pc EXCEPT ![c] = "block"]
      /\ UNCHANGED <<tableVars, kind, calls, rax, pending, open, lag, atGateway, replies, held,
                     approved, performed, loopVars>>
  BY Zenon DEF RecordCall
<1>2. pc[c] \in Calling \ {"block"} /\ pc[c] \in Calling /\ pc[c] \notin {"idle", "block"}
  BY <1>1 DEF Calling
<1>3. "block" \in Calling /\ "block" # "enqueue" /\ "block" \notin {"enqueue", "opened"}
  BY DEF Calling
<1>4. inflight' = inflight \cup {e0}
  <2>1. Cardinality(inflight) < MaxInflight
    BY <1>2, RoomForOne
  <2> QED BY Zenon, <1>1, <2>1 DEF Pushed
<1>5. /\ Placed' /\ Answered' /\ LoopShape' /\ TableTypeOK' /\ pc' \in [Cpus -> Stages]
      /\ pc'[c] = "block" /\ \A d \in Cpus \ {c} : pc'[d] = pc[d]
      /\ \A q \in Procs : Waits(q) => q = current[c] \/ Waits(q)'
  BY Zenon, <1>1, <1>2, <1>3, HandlerGoesOn
<1>6. /\ p \in Procs /\ Call(p) \in Ids /\ Call(p)[1] = p /\ Call(p)[2] = calls[p]
      /\ rax[p] # calls[p]
      /\ \A k \in 1 .. Len(pending) : pending[k].id[1] # p
      /\ \A e \in inflight : e.id[1] # p
      /\ held.id[1] # p
      /\ ~Waits(p)
  BY Zenon, <1>2, OwnRequest
<1>7. e0 \in Flights /\ e0.id = Call(p) /\ e0.id[1] = p
  BY <1>6, CallAssumption DEF Flights
<1> HIDE DEF e0
<1>8. Awaited'
  <2>1. \A q : q = p => Waits(q)'
    <3>1. current'[c] = p
      BY Zenon, <1>1 DEF tableVars
    <3> QED BY Zenon, <1>5, <3>1 DEF Waits
  <2>2. ASSUME NEW id \in Ids, Requested(id)' PROVE Requested(id) \/ id = Call(p)
    BY Zenon, <1>1, <1>4, <1>7, <2>2 DEF Requested
  <2>3. ASSUME NEW id \in Ids, Requested(id)'
        PROVE id[2] = calls'[id[1]] /\ rax'[id[1]] # id[2] /\ Waits(id[1])'
    <3>1. CASE id = Call(p)
      <4>1. id[1] = p /\ id[2] = calls[p]
        BY Zenon, <1>6, <3>1
      <4>2. rax[p] # calls[p] /\ rax' = rax /\ calls' = calls
        BY Zenon, <1>1, <1>6
      <4> QED BY Zenon, <2>1, <4>1, <4>2
    <3>2. CASE Requested(id)
      BY Zenon, <1>1, <1>5, <1>6, <2>1, <3>2, CallIds DEF CallInv, Awaited
    <3> QED BY Zenon, <2>2, <2>3, <3>1, <3>2
  <2> QED BY Zenon, <2>3 DEF Awaited
<1>9. OneEach'
  <2>1. ASSUME NEW e \in inflight', NEW f \in inflight', e.id[1] = f.id[1] PROVE e = f
    <3>1. (e \in inflight /\ e.id[1] # p) \/ e = e0
      BY Zenon, <1>4, <1>6
    <3>2. (f \in inflight /\ f.id[1] # p) \/ f = e0
      BY Zenon, <1>4, <1>6
    <3> QED BY Zenon, <1>7, <2>1, <3>1, <3>2 DEF CallInv, OneEach
  <2>2. ASSUME NEW k \in 1 .. Len(pending), NEW e \in inflight' PROVE pending[k].id[1] # e.id[1]
    BY Zenon, <1>4, <1>6, <1>7 DEF CallInv, OneEach
  <2>3. \A e \in inflight' : e.id[1] # held.id[1]
    BY Zenon, <1>4, <1>6, <1>7 DEF CallInv, OneEach
  <2> QED BY Zenon, <1>1, <2>1, <2>2, <2>3 DEF CallInv, OneEach
<1>10. Untouched'
  <2>1. \A d \in Cpus : pc'[d] \in {"enqueue", "opened"} =>
          pc[d] \in {"enqueue", "opened"} /\ current'[d] = current[d]
    <3>1. UNCHANGED current
      BY Zenon, <1>1 DEF tableVars
    <3> QED BY Zenon, <1>3, <1>5, <3>1
  <2> QED BY Zenon, <1>1, <2>1, UntouchedKeep
<1>11. inflight' \subseteq Flights
  BY Zenon, <1>4, <1>7 DEF CallInv, Typed
<1>12. Typed'
  BY Zenon, <1>1, <1>5, <1>11 DEF CallInv, Typed
<1>13. Vouched'
  BY Zenon, <1>1 DEF CallInv, Vouched, GatedNeedsApproval
<1> QED BY Zenon, <1>5, <1>8, <1>9, <1>10, <1>12, <1>13 DEF CallInv

\* Every step of an agent CPU.
LEMMA AgentsKeep == ASSUME CallInv, NEW c \in Cpus, AgentStep(c) PROVE CallInv'
BY Zenon, EnterKeeps, LeaveKeeps, AskKeeps, EnqueueKeeps, SendKeeps, RecordKeeps DEF AgentStep

\* An agent CPU loses no request.
LEMMA AgentsLoseNone ==
    ASSUME CallInv, NoneLost, NEW c \in Cpus, AgentStep(c)
    PROVE  NoneLost'
<1>1. CASE Enter(c)
  <2>1. PICK i \in Slots : DispatchNext(c, i)
    BY Zenon, <1>1 DEF Enter
  <2>2. /\ UNCHANGED <<pending, held, inflight>> /\ pc' = [pc EXCEPT ![c] = "user"]
        /\ slots' = [slots EXCEPT ![i] = Dispatched(slots[i], c)]
        /\ current' = [current EXCEPT ![c] = slots[i].pid]
    BY Zenon, <1>1, <2>1 DEF Enter, DispatchNext, callVars
  <2>3. slots'[i].state = "Running" /\ \A j \in Slots : j # i => slots'[j] = slots[j]
    <3>1. TableTypeOK
      BY Zenon DEF CallInv, Typed
    <3> QED BY Zenon, <2>2, <3>1, DispatchedSlot
  <2>4. pc'[c] = "user" /\ \A d \in Cpus \ {c} : pc'[d] = pc[d] /\ current'[d] = current[d]
    BY Zenon, <2>2 DEF CallInv, Typed, TableTypeOK
  <2>5. "user" # "block" /\ "Running" # "Blocked"
    OBVIOUS
  <2>6. ASSUME NEW p \in Procs, Waits(p)' PROVE Waits(p)
    BY Zenon, <2>3, <2>4, <2>5, <2>6, ProcSlots DEF Waits
  <2> QED BY Zenon, <2>2, <2>6, NoneLostKept
<1>2. CASE Exit(c) \/ Block(c)
  <2>1. PICK s \in {"Zombie", "Blocked"}, b \in BOOLEAN :
          Leave(c, s, b) /\ (s = "Blocked" => pc[c] = "block")
    <3>1. CASE Exit(c)
      <4>1. Leave(c, "Zombie", FALSE) /\ "Zombie" # "Blocked"
        BY Zenon, <3>1 DEF Exit, ExitCurrent
      <4> QED BY Zenon, <4>1
    <3>2. CASE Block(c)
      <4>1. Leave(c, "Blocked", TRUE) /\ pc[c] = "block"
        BY Zenon, <3>2 DEF Block, BlockCurrent
      <4> QED BY Zenon, <4>1
    <3> QED BY Zenon, <1>2, <3>1, <3>2
  <2>2. /\ UNCHANGED <<pending, held, inflight>> /\ pc' = [pc EXCEPT ![c] = "idle"]
        /\ current' = [current EXCEPT ![c] = NoPid]
    BY Zenon, <1>2, <2>1 DEF Exit, Block, Leave, callVars
  <2>3. PICK i \in Slots : /\ Found(current[c], i)
                           /\ slots' = [slots EXCEPT ![i].state = s, ![i].scheduled = @ /\ b]
    BY Zenon, <2>1 DEF Leave
  <2>4. current[c] = i + 1
    BY Zenon, <2>3, FoundAt DEF CallInv
  <2>5. slots'[i].state = s /\ \A j \in Slots : j # i => slots'[j] = slots[j]
    <3>1. TableTypeOK /\ s \in States
      BY DEF CallInv, Typed, States
    <3> QED BY Zenon, <2>3, <3>1, LeftSlot
  <2>6. pc'[c] = "idle" /\ \A d \in Cpus \ {c} : pc'[d] = pc[d] /\ current'[d] = current[d]
    BY Zenon, <2>2 DEF CallInv, Typed, TableTypeOK
  <2>7. "idle" # "block" /\ "Zombie" # "Blocked"
    OBVIOUS
  <2>8. ASSUME NEW p \in Procs, Waits(p)' PROVE Waits(p)
    <3>1. p - 1 \in Slots /\ (p - 1) + 1 = p
      BY Zenon, ProcSlots
    <3>2. CASE slots'[p - 1].state = "Blocked" /\ p - 1 = i
      <4>1. s = "Blocked"
        BY Zenon, <2>5, <3>2
      <4>2. current[c] = p /\ pc[c] = "block"
        BY Zenon, <2>1, <2>4, <3>1, <3>2, <4>1
      <4> QED BY Zenon, <4>2 DEF Waits
    <3>3. CASE slots'[p - 1].state = "Blocked" /\ p - 1 # i
      BY Zenon, <2>5, <3>1, <3>3 DEF Waits
    <3>4. CASE \E d \in Cpus : current'[d] = p /\ pc'[d] = "block"
      BY Zenon, <2>6, <2>7, <3>4 DEF Waits
    <3> QED BY Zenon, <2>8, <3>2, <3>3, <3>4 DEF Waits
  <2> QED BY Zenon, <2>2, <2>8, NoneLostKept
<1>3. CASE UNCHANGED <<slots, current, pending, held, inflight>> /\ \E s : s # "block" /\ pc' = [pc EXCEPT ![c] = s]
  <2>1. \A p \in Procs : Waits(p)' => Waits(p)
    BY Zenon, <1>3, NoneBegins
  <2> QED BY Zenon, <1>3, <2>1, NoneLostKept
<1>4. "user" # "block" /\ "opened" # "block" /\ "sent" # "block" /\ "enqueue" # "block" /\ "send" # "block"
  OBVIOUS
<1>5. CASE Ask(c) \/ OpenSigned(c) \/ SendCall(c)
  BY Zenon, <1>3, <1>4, <1>5 DEF Ask, OpenSigned, SendCall, Refuse, tableVars
<1>6. CASE Enqueue(c) \/ EnqueueUnsendable(c) \/ EnqueueSigned(c)
  <2>1. PICK s \in BOOLEAN, u \in BOOLEAN : PushPending(c, Request(current[c], s, u))
    BY Zenon, <1>6 DEF Enqueue, EnqueueUnsendable, EnqueueSigned
  <2>2. UNCHANGED <<slots, current, held, inflight>> /\ pc[c] \in {"enqueue", "opened"}
    BY Zenon, <1>6 DEF Enqueue, EnqueueUnsendable, EnqueueSigned, tableVars
  <2>3. CASE Refuse(c) /\ UNCHANGED pending
    BY Zenon, <1>3, <1>4, <2>2, <2>3 DEF Refuse
  <2>4. CASE pending' = Append(pending, Request(current[c], s, u)) /\ pc' = [pc EXCEPT ![c] = "block"]
    <3> DEFINE req == Request(current[c], s, u)
    <3>1. pc[c] \in Calling \ {"block"}
      BY <2>2 DEF Calling
    <3>2. current[c] \in Procs /\ Call(current[c]) \in Ids /\ Call(current[c])[1] = current[c]
      BY Zenon, <3>1, OwnRequest
    <3>3. req \in RequestRecords /\ req.id[1] = current[c]
      <4>1. Gated(kind[current[c]])
        BY Zenon, <2>2 DEF CallInv, Untouched
      <4>2. kind[current[c]] \in CallKinds
        BY Zenon, <4>1 DEF Gated, CallKinds
      <4>3. req \in RequestRecords /\ req.id = Call(current[c])
        BY <3>2, <4>2 DEF Request, RequestRecords
      <4> QED BY Zenon, <3>2, <4>3
    <3> HIDE DEF req
    <3>4. pending \in Seq(RequestRecords) /\ pending' = Append(pending, req)
      BY Zenon, <2>4 DEF CallInv, Typed, req
    <3>5. /\ \A k \in 1 .. Len(pending) : k \in 1 .. Len(pending') /\ pending'[k] = pending[k]
          /\ Len(pending) + 1 \in 1 .. Len(pending') /\ pending'[Len(pending) + 1] = req
      <4> DEFINE q == Append(pending, req)
      <4>1. /\ \A k \in 1 .. Len(pending) : q[k] = pending[k]
            /\ q[Len(pending) + 1] = req
            /\ Len(q) = Len(pending) + 1 /\ Len(pending) + 1 \in 1 .. Len(q)
        BY Zenon, <3>3, <3>4, Appended
      <4>2. Len(pending) \in Nat
        BY <3>4
      <4> HIDE DEF q
      <4>3. \A k \in 1 .. Len(pending) : k \in 1 .. Len(q)
        BY <4>1, <4>2
      <4>4. pending' = q
        BY Zenon, <3>4 DEF q
      <4> QED BY Zenon, <4>1, <4>3, <4>4
    <3>6. ASSUME NEW p \in Procs, Waits(p)' PROVE HasRequest(p)'
      <4>1. CASE p = current[c]
        <5>1. pending'[Len(pending) + 1].id[1] = p
          BY Zenon, <3>3, <3>5, <4>1
        <5> QED BY Zenon, <3>5, <5>1 DEF HasRequest, Queued
      <4>2. CASE p # current[c]
        <5>1. \A d \in Cpus \ {c} : pc'[d] = pc[d]
          BY Zenon, <2>4 DEF CallInv, Typed
        <5>2. Waits(p)
          BY Zenon, <2>2, <3>6, <4>2, <5>1 DEF Waits
        <5>3. HasRequest(p)
          BY Zenon, <5>2 DEF NoneLost
        <5>4. held' = held /\ inflight \subseteq inflight'
          BY Zenon, <2>2
        <5> QED BY Zenon, <3>5, <5>3, <5>4, MoreRequests
      <4> QED BY Zenon, <4>1, <4>2
    <3> QED BY Zenon, <3>6 DEF NoneLost
  <2> QED BY Zenon, <2>1, <2>3, <2>4 DEF PushPending
<1>7. CASE RecordCall(c)
  <2>1. /\ UNCHANGED <<slots, current, held, pending>> /\ pc[c] = "sent"
        /\ pc' = [pc EXCEPT ![c] = "block"] /\ inflight' = Pushed(Call(current[c]))
    BY Zenon, <1>7 DEF RecordCall, tableVars
  <2>2. pc[c] \in Calling \ {"block"} /\ pc[c] \notin {"idle", "block"}
    BY <2>1 DEF Calling
  <2>3. inflight' = inflight \cup {[id |-> Call(current[c]), age |-> 0]}
    <3>1. Cardinality(inflight) < MaxInflight
      BY <2>2, RoomForOne
    <3> QED BY Zenon, <2>1, <3>1 DEF Pushed
  <2>4. Call(current[c])[1] = current[c]
    BY Zenon, <2>2, OwnRequest
  <2>5. ASSUME NEW p \in Procs, Waits(p)' PROVE HasRequest(p)'
    <3>1. CASE p = current[c]
      <4>1. [id |-> Call(current[c]), age |-> 0] \in inflight'
        BY Zenon, <2>3
      <4>2. [id |-> Call(current[c]), age |-> 0].id = Call(current[c])
        OBVIOUS
      <4>3. \E e \in inflight' : e.id[1] = p
        BY Zenon, <2>4, <3>1, <4>1, <4>2
      <4> QED BY Zenon, <4>3 DEF HasRequest, Flying
    <3>2. CASE p # current[c]
      <4>1. \A d \in Cpus \ {c} : pc'[d] = pc[d]
        BY Zenon, <2>1 DEF CallInv, Typed
      <4>2. Waits(p)
        BY Zenon, <2>1, <2>5, <3>2, <4>1 DEF Waits
      <4>3. HasRequest(p)
        BY Zenon, <4>2 DEF NoneLost
      <4>4. inflight \subseteq inflight' /\ \A k \in 1 .. Len(pending) : k \in 1 .. Len(pending') /\ pending'[k] = pending[k]
        BY Zenon, <2>1, <2>3
      <4> QED BY Zenon, <2>1, <4>3, <4>4, MoreRequests
    <3> QED BY Zenon, <3>1, <3>2
  <2> QED BY Zenon, <2>5 DEF NoneLost
<1> QED BY Zenon, <1>1, <1>2, <1>5, <1>6, <1>7 DEF AgentStep

-----------------------------------------------------------------------------
(* The theorems. *)

\* The invariant is inductive.
LEMMA CallsNext == ASSUME CallInv, [Next]_vars PROVE CallInv'
<1>1. CASE UNCHANGED vars
  <2>1. UNCHANGED <<tableVars, kind, calls, rax, pending, open, inflight, lag, atGateway, replies,
                    held, approved, performed, pc, loopVars>>
    BY Zenon, <1>1 DEF vars, callVars
  <2>2. Placed' /\ Answered' /\ Awaited' /\ OneEach' /\ Untouched'
    BY Zenon, <2>1, SameRequests DEF tableVars
  <2>3. Typed' /\ LoopShape' /\ Vouched'
    <3>1. Typed'
      BY Zenon, <2>1 DEF CallInv, Typed, TableTypeOK, tableVars
    <3>2. LoopShape'
      BY Zenon, <2>1 DEF CallInv, LoopShape, Stacked, loopVars
    <3>3. Vouched'
      BY Zenon, <2>1 DEF CallInv, Vouched, GatedNeedsApproval
    <3> QED BY Zenon, <3>1, <3>2, <3>3
  <2> QED BY Zenon, <2>2, <2>3 DEF CallInv
<1>2. CASE SupervisorStep
  BY Zenon, <1>2, MovesKeep, DecisionsKeep, TakeKeeps, AnsweredKeeps, ApplyKeeps
     DEF SupervisorStep, LoopMove
<1> QED BY Zenon, <1>1, <1>2, AgentsKeep, GatewayKeeps, TimeKeeps, DecisionsKeep DEF Next, Over

\* What is carried out has not been carried out before, and its agent waits.
LEMMA PerformedStep ==
    ASSUME CallInv, [Next]_vars
    PROVE  \A id \in Ids : performed'[id] # performed[id] => performed[id] = 0 /\ rax[id[1]] # id[2]
<1>1. CASE Apply
  <2>1. at = "apply"
    BY Zenon, <1>1 DEF Apply, Deny, ApproveSend, ApproveTool
  <2>2. performed[held.id] = 0 /\ rax[held.id[1]] # held.id[2]
    BY Zenon, <2>1, HeldRequest
  <2>3. \A id \in Ids : performed'[id] # performed[id] => id = held.id
    BY Zenon, <1>1, AppliedOnce DEF CallInv, Typed
  <2> QED BY Zenon, <2>2, <2>3
<1>2. CASE UNCHANGED performed
  BY Zenon, <1>2
<1>3. Apply \/ UNCHANGED performed
  <2>1. CASE UNCHANGED vars
    BY Zenon, <2>1 DEF vars, callVars
  <2>2. CASE SupervisorStep
    <3>1. CASE LoopMove
      BY Zenon, <3>1 DEF LoopMove, Top, CheckInflight, NothingToDispatch, Outstanding, Resolve, NoneToTake,
           ReadNow, PollReturns, ChooseWait, ChooseTools, WaitAny, WaitCheck, WaitProgress, Progressed,
           Release, callVars
    <3>2. CASE RecvDecision \/ CheckTimeouts \/ TakeRequest \/ RecvReply \/ Expire
      BY Zenon, <3>2 DEF RecvDecision, CheckTimeouts, TakeRequest, RecvReply, Expire
    <3> QED BY Zenon, <2>2, <3>1, <3>2 DEF SupervisorStep, LoopMove
  <2>3. ASSUME NEW c \in Cpus, AgentStep(c) PROVE UNCHANGED performed
    BY Zenon, <2>3 DEF AgentStep, Enter, Exit, Ask, Enqueue, EnqueueUnsendable, OpenSigned,
         EnqueueSigned, SendCall, RecordCall, Block, callVars
  <2>4. CASE GatewayReplies \/ TimePasses \/ DeadlinePasses
    BY Zenon, <2>4 DEF GatewayReplies, TimePasses, DeadlinePasses
  <2> QED BY Zenon, <2>1, <2>2, <2>3, <2>4 DEF Next, Over
<1> QED BY Zenon, <1>1, <1>2, <1>3

\* The state part of CallsAnsweredOnce.
CallsSound == TypeOK /\ ReturnsOwnAnswer /\ GatedNeedsApproval /\ RoomForEveryRequest

\* Calls are sound in every state that satisfies the invariant.
LEMMA CallInvSound == CallInv => CallsSound
<1> SUFFICES ASSUME CallInv PROVE CallsSound
  OBVIOUS
<1>1. ReturnsOwnAnswer
  BY Zenon DEF CallInv, Answered, AnsweredAt, ReturnsOwnAnswer
<1>2. GatedNeedsApproval
  BY Zenon DEF CallInv, Vouched
<1>3. ASSUME NEW p \in Procs
      PROVE  Cardinality(Queued(p)) + Cardinality(Flying(p)) + (IF Held(p) THEN 1 ELSE 0) <= 1
  <2>1. \A j, k \in Queued(p) : j = k
    BY Zenon DEF CallInv, OneEach, Queued
  <2>2. \A e, f \in Flying(p) : e = f
    BY Zenon DEF CallInv, OneEach, Flying
  <2>3. Queued(p) = {} \/ Flying(p) = {}
    BY Zenon DEF CallInv, OneEach, Queued, Flying
  <2>4. Held(p) => Queued(p) = {} /\ Flying(p) = {}
    BY Zenon DEF CallInv, OneEach, Queued, Flying, Held
  <2>5. Cardinality(Queued(p)) = (IF Queued(p) = {} THEN 0 ELSE 1)
    BY Zenon, <2>1, AtMostOne
  <2>6. Cardinality(Flying(p)) = (IF Flying(p) = {} THEN 0 ELSE 1)
    BY Zenon, <2>2, AtMostOne
  <2> QED BY <2>3, <2>4, <2>5, <2>6
<1>4. RoomForEveryRequest
  BY Zenon, <1>3, RoomForOne DEF RoomForEveryRequest
<1> QED BY Zenon, <1>1, <1>2, <1>4, TypedIsTypeOK DEF CallsSound

\* CallsAnsweredOnce, for every number of processes, CPUs and calls, every
\* time-out and either way of approving: an agent gets the answer to its own
\* latest call, what needs approval is carried out once, approved and while its
\* agent waits, and PENDING and INFLIGHT always have room (agent.rs:369-478,
\* tools.rs:499-590).
THEOREM CallsAreAnsweredOnce == Spec => CallsAnsweredOnce
<1> USE DEF PerformedOnceInTime
<1>1. Init => CallInv
  BY InitCalls
<1>2. CallInv /\ [Next]_vars => CallInv'
  BY Zenon, CallsNext
<1>3. CallInv => TypeOK /\ ReturnsOwnAnswer /\ GatedNeedsApproval /\ RoomForEveryRequest
  BY Zenon, CallInvSound DEF CallsSound
<1>4. CallInv /\ [Next]_vars =>
        [\A id \in Ids : performed'[id] # performed[id] => performed[id] = 0 /\ rax[id[1]] # id[2]]_vars
  BY Zenon, PerformedStep
<1> QED BY <1>1, <1>2, <1>3, <1>4, PTL DEF Spec, CallsAnsweredOnce

\* Without application processors (~Supervise: the console's CPU runs the agents
\* itself) every process that is Blocked has a request that will answer it:
\* queued, held or in flight, so the release loop of run_scheduled never finds
\* one to release (process.rs:808-816, syscall.rs:60-61).
THEOREM BlockedHaveRequests == ~Supervise => (Spec => []BlockedHasRequest)
<1> SUFFICES ASSUME ~Supervise PROVE Spec => []BlockedHasRequest
  OBVIOUS
<1>1. Init => CallInv /\ NoneLost
  <2> SUFFICES ASSUME Init PROVE NoneLost
    BY Zenon, InitCalls
  <2>1. \A i \in Slots : slots[i].state = "Ready"
    BY Zenon DEF Init, FreeSlot
  <2>2. \A c \in Cpus : pc[c] = "idle"
    BY Zenon DEF Init
  <2>3. "idle" # "block" /\ "Ready" # "Blocked"
    OBVIOUS
  <2> QED BY Zenon, <2>1, <2>2, <2>3, ProcSlots DEF NoneLost, Waits
<1>2. CallInv /\ NoneLost /\ [Next]_vars => CallInv' /\ NoneLost'
  <2> SUFFICES ASSUME CallInv, NoneLost, [Next]_vars PROVE NoneLost'
    BY Zenon, CallsNext
  <2>1. CASE UNCHANGED <<slots, current, pc, pending, held, inflight>>
    <3>1. \A p \in Procs : Waits(p)' => Waits(p)
      BY Zenon, <2>1 DEF Waits
    <3> QED BY Zenon, <2>1, <3>1, NoneLostKept
  <2>2. CASE LoopMove
    BY Zenon, <2>1, <2>2 DEF LoopMove, Top, CheckInflight, NothingToDispatch, Outstanding, Resolve, NoneToTake,
         ReadNow, PollReturns, ChooseWait, ChooseTools, WaitAny, WaitCheck, WaitProgress, Progressed,
         Release, callVars, tableVars
  <2>3. CASE RecvDecision \/ CheckTimeouts \/ DeadlinePasses \/ GatewayReplies
    BY Zenon, <2>1, <2>3 DEF RecvDecision, CheckTimeouts, DeadlinePasses, GatewayReplies, tableVars
  <2>4. CASE UNCHANGED vars
    BY Zenon, <2>1, <2>4 DEF vars, callVars, tableVars
  <2> QED BY Zenon, <2>2, <2>3, <2>4, AgentsLoseNone, LoopLosesNone DEF Next, SupervisorStep, LoopMove, Over
<1>3. CallInv /\ NoneLost => BlockedHasRequest
  <2> SUFFICES ASSUME CallInv, NoneLost, NEW i \in BlockedScheduled PROVE HasRequest(slots[i].pid)
    BY Zenon DEF BlockedHasRequest, HasRequest
  <2>1. i \in Slots /\ slots[i].state = "Blocked"
    BY Zenon DEF BlockedScheduled
  <2>2. slots[i].pid = i + 1 /\ i + 1 \in Procs /\ (i + 1) - 1 = i
    <3>1. slots[i].pid = i + 1
      BY Zenon, <2>1 DEF CallInv, Placed
    <3> QED BY <2>1, <3>1, ProcSlots DEF Slots
  <2> QED BY Zenon, <2>1, <2>2 DEF NoneLost, Waits
<1> QED BY <1>1, <1>2, <1>3, PTL DEF Spec
=============================================================================
