----------------------------- MODULE ProcessTable -----------------------------
(****************************************************************************)
(* The process table of src/process.rs: the `TABLE` mutex and the methods   *)
(* of `ProcessTable` that run under it.  Every action below is one          *)
(* acquisition of that lock, so it is atomic; what happens between two      *)
(* acquisitions is the business of AgentCpu and BlockingCalls, which        *)
(* compose these actions.                                                   *)
(*                                                                          *)
(* A pid is a positive number and 0 stands for `None` (and for the pid of a *)
(* free slot): NEXT_PID starts at 1.                                        *)
(****************************************************************************)
EXTENDS Integers, Sequences, FiniteSets

CONSTANTS
    MaxProcesses,   \* MAX_PROCESSES, the number of slots
    Homes,          \* agent_cpus(): the agent CPUs in topology order
    DefaultSlice,   \* SLICE_TICKS at boot
    DefaultBudget,  \* BUDGET_TICKS at boot
    TickSettings,   \* values given to the console's `slice` and `budget`
    Lockdown,       \* boot::lockdown(): whether boot verification failed
    MaxPid          \* bound: pids are handed out from 1 to MaxPid

Slots == 0 .. MaxProcesses - 1
Cpus == {Homes[k] : k \in 1 .. Len(Homes)}
NoPid == 0
Pids == 1 .. MaxPid

ASSUME TableAssumption ==
    /\ MaxProcesses \in Nat \ {0}
    /\ MaxPid \in Nat \ {0}
    /\ Homes \in Seq(Nat)
    /\ Len(Homes) > 0
    /\ \A j, k \in 1 .. Len(Homes) : Homes[j] = Homes[k] => j = k
    /\ DefaultSlice \in Nat \ {0}
    /\ DefaultBudget \in Nat \ {0}
    /\ TickSettings \subseteq Nat
    /\ Lockdown \in BOOLEAN

AtLeastOne(n) == IF n < 1 THEN 1 ELSE n
Budgets == {DefaultBudget} \cup {AtLeastOne(n) : n \in TickSettings}

VARIABLES
    slots,      \* one record per slot
    current,    \* the pid running on each CPU
    sliceUsed,  \* ticks of each CPU's current process since its dispatch
    cursor,     \* slot each CPU dispatched most recently
    nextPid,    \* NEXT_PID
    slice,      \* SLICE_TICKS
    budget      \* BUDGET_TICKS

tableVars == <<slots, current, sliceUsed, cursor, nextPid, slice, budget>>

States == {"Free", "Ready", "Running", "Zombie", "Crashed", "Killed", "Blocked"}
Ended == {"Zombie", "Crashed", "Killed"}

Process == [pid : Nat, state : States, ticks : Nat,
            scheduled : BOOLEAN, started : BOOLEAN, home : Nat]

FreeSlot == [pid |-> NoPid, state |-> "Free", ticks |-> 0,
             scheduled |-> FALSE, started |-> FALSE, home |-> 0]

ReadySlot(pid) == [pid |-> pid, state |-> "Ready", ticks |-> 0,
                   scheduled |-> FALSE, started |-> FALSE, home |-> 0]

TableInit ==
    /\ slots = [i \in Slots |-> FreeSlot]
    /\ current = [c \in Cpus |-> NoPid]
    /\ sliceUsed = [c \in Cpus |-> 0]
    /\ cursor = [c \in Cpus |-> MaxProcesses - 1]
    /\ nextPid = 1
    /\ slice = DefaultSlice
    /\ budget = DefaultBudget

-----------------------------------------------------------------------------
(* Queries. *)

Busy == \E c \in Cpus : current[c] # NoPid

Holds(i, pid) == slots[i].state # "Free" /\ slots[i].pid = pid

\* find(pid) = Some(i)
Found(pid, i) == Holds(i, pid) /\ \A j \in Slots : j < i => ~Holds(j, pid)

\* Mutant: a process already running elsewhere is dispatched again.
Runnable_AnyState(i) == slots[i].scheduled

Runnable(i) == slots[i].scheduled /\ slots[i].state = "Ready"

\* Slots that come before slot i in the order (cursor + k) % MAX_PROCESSES.
Distance(c, i) ==
    IF i > cursor[c] THEN i - cursor[c] - 1 ELSE i - cursor[c] - 1 + MaxProcesses

OwnQueue(c) == {i \in Slots : Runnable(i) /\ slots[i].home = c}

\* Mutant: the scan starts at slot 0 and not after the cursor.
NextRunnable_LowestSlot(c, i) ==
    LET queue == IF OwnQueue(c) # {} THEN OwnQueue(c) ELSE {j \in Slots : Runnable(j)}
    IN  i \in queue /\ \A j \in queue : i <= j

\* next_runnable(c) = Some(i): the first of the CPU's own queue after its
\* cursor, or of everybody's when its own is empty.
NextRunnable(c, i) ==
    LET queue == IF OwnQueue(c) # {} THEN OwnQueue(c) ELSE {j \in Slots : Runnable(j)}
    IN  i \in queue /\ \A j \in queue : Distance(c, i) <= Distance(c, j)

\* outstanding(): scheduled processes still to run, and those blocked.
Active == {i \in Slots : slots[i].scheduled /\ slots[i].state \in {"Ready", "Running"}}
BlockedScheduled == {i \in Slots : slots[i].scheduled /\ slots[i].state = "Blocked"}

-----------------------------------------------------------------------------
(* Console operations. *)

\* register: refused in lockdown, before a pid is taken; otherwise a pid is consumed
\* even when the table turns out to be full.
Register ==
    /\ ~Lockdown
    /\ nextPid <= MaxPid
    /\ nextPid' = nextPid + 1
    /\ \/ \E i \in Slots :
            /\ slots[i].state = "Free"
            /\ \A j \in Slots : j < i => slots[j].state # "Free"
            /\ slots' = [slots EXCEPT ![i] = ReadySlot(nextPid)]
       \/ /\ \A i \in Slots : slots[i].state # "Free"
          /\ UNCHANGED slots
    /\ UNCHANGED <<current, sliceUsed, cursor, slice, budget>>

\* select: the k-th picked process goes to the k-th agent CPU, round robin; rank[i]
\* is the loop's count of processes picked before slot i.
Mark(picked) ==
    /\ \E rank \in [Slots -> Slots] :
         /\ \A i \in Slots : rank[i] = Cardinality({j \in picked : j < i})
         /\ slots' = [i \in Slots |->
                        IF i \in picked
                        THEN [slots[i] EXCEPT !.scheduled = TRUE,
                                              !.home = Homes[1 + (rank[i] % Len(Homes))]]
                        ELSE [slots[i] EXCEPT !.scheduled = FALSE]]
    /\ UNCHANGED <<current, sliceUsed, cursor, nextPid, slice, budget>>

SelectAllReady ==
    /\ ~Busy
    /\ Mark({i \in Slots : slots[i].state = "Ready"})

SelectOne(pid) ==
    /\ ~Busy
    /\ \E i \in Slots : Found(pid, i) /\ slots[i].state = "Ready"
    /\ Mark({i \in Slots : slots[i].state = "Ready" /\ slots[i].pid = pid})

\* take_for_reap: a Running or Blocked process is refused.
TakeForReap(pid) ==
    /\ \E i \in Slots :
         /\ Found(pid, i)
         /\ slots[i].state \in {"Ready"} \cup Ended
         /\ slots' = [slots EXCEPT ![i] = FreeSlot]
    /\ UNCHANGED <<current, sliceUsed, cursor, nextPid, slice, budget>>

SetSliceTicks(n) ==
    /\ slice' = AtLeastOne(n)
    /\ UNCHANGED <<slots, current, sliceUsed, cursor, nextPid, budget>>

SetBudgetTicks(n) ==
    /\ budget' = AtLeastOne(n)
    /\ UNCHANGED <<slots, current, sliceUsed, cursor, nextPid, slice>>

-----------------------------------------------------------------------------
(* Operations of a CPU on its own process. *)

\* run_slot, on the record of the dispatched process.
Dispatched(p, c) == [p EXCEPT !.state = "Running", !.home = c]

\* dispatch_next, when it finds slot i.
DispatchNext(c, i) ==
    /\ current[c] = NoPid
    /\ NextRunnable(c, i)
    /\ slots' = [slots EXCEPT ![i] = Dispatched(slots[i], c)]
    /\ current' = [current EXCEPT ![c] = slots[i].pid]
    /\ cursor' = [cursor EXCEPT ![c] = i]
    /\ sliceUsed' = [sliceUsed EXCEPT ![c] = 0]
    /\ UNCHANGED <<nextPid, slice, budget>>

\* run_one, when it enters a process for the first time.
MarkStarted(c) ==
    /\ \E i \in Slots :
         /\ Found(current[c], i)
         /\ ~slots[i].started
         /\ slots' = [slots EXCEPT ![i].started = TRUE]
    /\ UNCHANGED <<current, sliceUsed, cursor, nextPid, slice, budget>>

\* tick, for the process in slot i: what every branch shares.
Charged(c, i) == current[c] # NoPid /\ Found(current[c], i)
\* Mutant: the budget is compared before the tick is charged.
OverBudget_BeforeCharge(i) == slots[i].ticks > budget
OverBudget(i) == slots[i].ticks + 1 > budget
SliceOver(c) == sliceUsed[c] + 1 >= slice

\* tick returns Kill and on_user_tick calls kill_current, under one lock.
TickKill(c, i) ==
    /\ Charged(c, i)
    /\ OverBudget(i)
    /\ slots' = [slots EXCEPT ![i].ticks = @ + 1, ![i].state = "Killed",
                              ![i].scheduled = FALSE]
    /\ current' = [current EXCEPT ![c] = NoPid]
    /\ sliceUsed' = [sliceUsed EXCEPT ![c] = @ + 1]
    /\ UNCHANGED <<cursor, nextPid, slice, budget>>

TickContinue(c, i) ==
    /\ Charged(c, i)
    /\ ~OverBudget(i)
    /\ \/ ~SliceOver(c) /\ sliceUsed' = [sliceUsed EXCEPT ![c] = @ + 1]
       \/ /\ SliceOver(c) /\ \A j \in Slots : ~Runnable(j)
          /\ sliceUsed' = [sliceUsed EXCEPT ![c] = 0]
    /\ slots' = [slots EXCEPT ![i].ticks = @ + 1]
    /\ UNCHANGED <<current, cursor, nextPid, slice, budget>>

\* The interrupted process goes back to Ready and slot n takes the CPU.
TickSwitch(c, i, n) ==
    /\ Charged(c, i)
    /\ ~OverBudget(i)
    /\ SliceOver(c)
    /\ NextRunnable(c, n)
    /\ slots' = [slots EXCEPT ![i].ticks = @ + 1, ![i].state = "Ready",
                              ![n] = Dispatched(@, c)]
    /\ current' = [current EXCEPT ![c] = slots[n].pid]
    /\ cursor' = [cursor EXCEPT ![c] = n]
    /\ sliceUsed' = [sliceUsed EXCEPT ![c] = 0]
    /\ UNCHANGED <<nextPid, slice, budget>>

\* current[c].take(), and the process it named becomes `state`.
Leave(c, state, scheduled) ==
    /\ current[c] # NoPid
    /\ \E i \in Slots :
         /\ Found(current[c], i)
         /\ slots' = [slots EXCEPT ![i].state = state,
                                   ![i].scheduled = @ /\ scheduled]
    /\ current' = [current EXCEPT ![c] = NoPid]
    /\ UNCHANGED <<sliceUsed, cursor, nextPid, slice, budget>>

BlockCurrent(c) == Leave(c, "Blocked", TRUE)
ExitCurrent(c) == Leave(c, "Zombie", FALSE)
CrashCurrent(c) == Leave(c, "Crashed", FALSE)
\* run_one, when run_frame fails: it never reached ring 3.
PutBack(c) == Leave(c, "Ready", FALSE)

\* Mutant: the process is made Ready whatever its state.
Unblock_AnyState(pid) ==
    /\ \E i \in Slots :
         /\ Found(pid, i)
         /\ slots' = [slots EXCEPT ![i].state = "Ready"]
    /\ UNCHANGED <<current, sliceUsed, cursor, nextPid, slice, budget>>

\* unblock(pid): false, and nothing changes, unless the process is Blocked.
Unblock(pid) ==
    /\ \E i \in Slots :
         /\ Found(pid, i)
         /\ slots[i].state = "Blocked"
         /\ slots' = [slots EXCEPT ![i].state = "Ready"]
    /\ UNCHANGED <<current, sliceUsed, cursor, nextPid, slice, budget>>

CpuStep(c) ==
    \/ \E i \in Slots : DispatchNext(c, i)
    \/ MarkStarted(c)
    \/ \E i \in Slots : TickKill(c, i)
    \/ \E i \in Slots : TickContinue(c, i)
    \/ \E i, n \in Slots : TickSwitch(c, i, n)
    \/ BlockCurrent(c)
    \/ ExitCurrent(c)
    \/ CrashCurrent(c)
    \/ PutBack(c)

TableNext ==
    \/ Register
    \/ SelectAllReady
    \/ \E pid \in Pids : SelectOne(pid)
    \/ \E pid \in Pids : TakeForReap(pid)
    \/ \E n \in TickSettings : SetSliceTicks(n)
    \/ \E n \in TickSettings : SetBudgetTicks(n)
    \/ \E pid \in Pids : Unblock(pid)
    \/ \E c \in Cpus : CpuStep(c)

TableSpec == TableInit /\ [][TableNext]_tableVars

-----------------------------------------------------------------------------
(* Properties. *)

\* Every table is well formed: states are ProcessState values, CPUs and homes
\* are agent CPUs, and the slice and budget are positive (process.rs:159-165).
TableTypeOK ==
    /\ slots \in [Slots -> Process]
    /\ current \in [Cpus -> Nat]
    /\ sliceUsed \in [Cpus -> Nat]
    /\ cursor \in [Cpus -> Slots]
    /\ nextPid \in Nat \ {0}
    /\ slice \in Nat \ {0}
    /\ budget \in Budgets

\* No two live processes share a pid, and no pid is handed out twice: find
\* (process.rs:347) returns the slot the caller means.
PidsUnique ==
    \A i \in Slots : slots[i].state # "Free" =>
        /\ slots[i].pid \in 1 .. nextPid - 1
        /\ \A j \in Slots : Holds(j, slots[i].pid) => j = i

\* "A process runs on one CPU at a time" (process.rs:24-25): `current` and the
\* Running states describe the same one-to-one assignment of processes to CPUs.
OneCpuPerProcess ==
    /\ \A i \in Slots : slots[i].state = "Running" =>
         slots[i].home \in Cpus /\ current[slots[i].home] = slots[i].pid
    /\ \A c \in Cpus : current[c] # NoPid =>
         \E i \in Slots : /\ slots[i].state = "Running"
                          /\ slots[i].pid = current[c]
                          /\ slots[i].home = c

\* Only a process that may still run is scheduled, and whatever runs is: so
\* when outstanding() reports nothing active (process.rs:454) no CPU has a
\* current process, and run_scheduled does not return while an agent runs.
RunAccounting ==
    /\ \A i \in Slots :
         /\ slots[i].scheduled => slots[i].state \in {"Ready", "Running", "Blocked"}
         /\ slots[i].state = "Running" => slots[i].scheduled
    /\ Active = {} => ~Busy

\* The watchdog bounds what a process consumes however often it is preempted,
\* blocked or moved to another CPU (process.rs:478, 924): its ticks stay within
\* a budget that was in force, and only a killed one has the tick beyond it.
WatchdogBound ==
    \A i \in Slots : \E b \in Budgets :
        slots[i].ticks <= IF slots[i].state = "Killed" THEN b + 1 ELSE b

\* What has ended stays ended, with the same pid, until it is reaped: no tick,
\* late unblock or new run revives an exited, crashed or killed process.
EndedIsFinal ==
    [][\A i \in Slots : slots[i].state \in Ended =>
         slots'[i].state = "Free" \/
         (slots'[i].state = slots[i].state /\ slots'[i].pid = slots[i].pid)]_tableVars

\* Bounded overtaking: whenever a CPU dispatches (run_slot), every other
\* process waiting in that CPU's own queue comes strictly nearer to the
\* cursor, so it is passed over at most MaxProcesses - 1 times.
RoundRobin ==
    [][\A c \in Cpus : \A i \in Slots :
         (/\ current'[c] # current[c] /\ current'[c] # NoPid
          /\ i \in OwnQueue(c) /\ i \in OwnQueue(c)')
         => Distance(c, i)' < Distance(c, i)]_tableVars

\* The table is consistent between any two acquisitions of its lock: pids are
\* unique, a process runs on one CPU, and the count of outstanding processes
\* that ends run_scheduled misses none that runs.
TableConsistent == TableTypeOK /\ PidsUnique /\ OneCpuPerProcess /\ RunAccounting

\* The part of RunAccounting that is about single slots.
ScheduledStates ==
    \A i \in Slots :
      /\ slots[i].scheduled => slots[i].state \in {"Ready", "Running", "Blocked"}
      /\ slots[i].state = "Running" => slots[i].scheduled

\* The inductive invariant: PidsUnique is what makes `find` unambiguous, so
\* that an operation on current[c] changes the slot OneCpuPerProcess is about.
TableInv == TableTypeOK /\ PidsUnique /\ OneCpuPerProcess /\ ScheduledStates
=============================================================================
