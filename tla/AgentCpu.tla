------------------------------- MODULE AgentCpu -------------------------------
(***************************************************************************)
(* Agents on CPUs: what each CPU does between two acquisitions of the      *)
(* process-table lock (src/process.rs run_one, run_on_this_cpu,            *)
(* on_user_tick, block_current; src/syscall.rs run_frame, block_current,   *)
(* SYS_exit, abort_user, abort_user_killed; src/fpu.rs), and the console's *)
(* run_scheduled and reap around it.                                       *)
(*                                                                         *)
(* Register contents are abstracted to who wrote them and how far that     *)
(* process had got: the general registers (TrapFrame) and the FPU/vector   *)
(* registers are followed separately, because the code saves the former    *)
(* under the table lock and the latter after releasing it.                 *)
(***************************************************************************)
EXTENDS ProcessTable

CONSTANTS
    MaxWork,    \* bound: times each process changes its registers
    MaxCalls    \* bound: blocking syscalls a process makes

ASSUME CpuAssumption == MaxWork \in [Pids -> Nat] /\ MaxCalls \in Nat

VARIABLES
    mode,       \* where each CPU is, see Modes
    cr3,        \* whose page tables each CPU has loaded, NoPid for the kernel's
    regs,       \* register contents of each CPU
    from,       \* the slot whose FPU registers a CPU has yet to save
    frame,      \* Process::frame of each slot
    area,       \* fpu::AREAS of each slot
    work,       \* how far each process has got
    calls,      \* blocking syscalls each process has made
    console     \* "prompt", or "run" inside run_scheduled

cpuVars == <<mode, cr3, regs, from, frame, area, work, calls>>
vars == <<tableVars, cpuVars, console>>

\* idle: the kernel's own context.  dispatched, marked: in run_one before
\* ring 3.  user: in ring 3.  switching, incoming: in on_user_tick after the
\* lock is dropped.  parking: in block_current after the lock is dropped.
\* leaving: the process is off the table's CPU, resume not yet reached.
Modes == {"idle", "dispatched", "marked", "user", "switching", "incoming",
          "parking", "leaving"}

Context == [owner : Nat, progress : Nat]
Fresh == [owner |-> NoPid, progress |-> 0]
Latest(p) == IF work[p] = 0 THEN Fresh ELSE [owner |-> p, progress |-> work[p]]

\* With application processors the console's CPU (slot 0) only supervises.
Supervise == 0 \notin Cpus
ConsoleFree == Supervise \/ \A c \in Cpus : mode[c] = "idle"

Init ==
    /\ TableInit
    /\ mode = [c \in Cpus |-> "idle"]
    /\ cr3 = [c \in Cpus |-> NoPid]
    /\ regs = [c \in Cpus |-> [gp |-> Fresh, fp |-> Fresh]]
    /\ from = [c \in Cpus |-> 0]
    /\ frame = [i \in Slots |-> Fresh]
    /\ area = [i \in Slots |-> Fresh]
    /\ work = [p \in Pids |-> 0]
    /\ calls = [p \in Pids |-> 0]
    /\ console = "prompt"

-----------------------------------------------------------------------------
(* The console. *)

\* register: insert, then fpu::reset of the slot it got.
Spawn ==
    /\ console = "prompt"
    /\ Register
    /\ LET taken == {i \in Slots : slots'[i] # slots[i]}
       IN  /\ frame' = [i \in Slots |-> IF i \in taken THEN Fresh ELSE frame[i]]
           /\ area' = [i \in Slots |-> IF i \in taken THEN Fresh ELSE area[i]]
    /\ UNCHANGED <<mode, cr3, regs, from, work, calls, console>>

\* reap: take_for_reap, then the address space is destroyed.
Reap(pid) ==
    /\ console = "prompt"
    /\ TakeForReap(pid)
    /\ UNCHANGED <<cpuVars, console>>

SetTicks ==
    /\ console = "prompt"
    /\ \E n \in TickSettings : SetSliceTicks(n) \/ SetBudgetTicks(n)
    /\ UNCHANGED <<cpuVars, console>>

StartRun ==
    /\ console = "prompt"
    /\ SelectAllReady \/ \E pid \in Pids : SelectOne(pid)
    /\ console' = "run"
    /\ UNCHANGED cpuVars

\* A decision or a tool result reaches a blocked process (see BlockingCalls).
Deliver(pid) ==
    /\ console = "run" /\ ConsoleFree
    /\ Unblock(pid)
    /\ UNCHANGED <<cpuVars, console>>

\* outstanding() is (0, []): run_scheduled returns.
FinishRun ==
    /\ console = "run" /\ ConsoleFree
    /\ Active = {} /\ BlockedScheduled = {}
    /\ console' = "prompt"
    /\ UNCHANGED <<tableVars, cpuVars>>

-----------------------------------------------------------------------------
(* A CPU running agents. *)

\* The table returns a copy of the process, saved registers included.
Dispatch(c) ==
    /\ mode[c] = "idle"
    /\ Supervise \/ console = "run"
    /\ \E i \in Slots :
         /\ DispatchNext(c, i)
         /\ regs' = [regs EXCEPT ![c].gp = frame[i]]
    /\ mode' = [mode EXCEPT ![c] = "dispatched"]
    /\ UNCHANGED <<cr3, from, frame, area, work, calls, console>>

RunOneMarks(c) ==
    /\ mode[c] = "dispatched"
    /\ \/ MarkStarted(c)
       \/ /\ \E i \in Slots : Found(current[c], i) /\ slots[i].started
          /\ UNCHANGED tableVars
    /\ mode' = [mode EXCEPT ![c] = "marked"]
    /\ UNCHANGED <<cr3, regs, from, frame, area, work, calls, console>>

\* fpu::restore, then run_frame: page tables loaded, ring 3 entered.
EnterRing3(c) ==
    /\ mode[c] = "marked"
    /\ \E i \in Slots :
         /\ Found(current[c], i)
         /\ regs' = [regs EXCEPT ![c].fp = area[i]]
    /\ cr3' = [cr3 EXCEPT ![c] = current[c]]
    /\ mode' = [mode EXCEPT ![c] = "user"]
    /\ UNCHANGED <<tableVars, from, frame, area, work, calls, console>>

\* run_frame fails: without APs the error ends run_scheduled.
EnterFails(c) ==
    /\ mode[c] = "marked"
    /\ \E i \in Slots :
         /\ Found(current[c], i)
         /\ regs' = [regs EXCEPT ![c].fp = area[i]]
    /\ PutBack(c)
    /\ mode' = [mode EXCEPT ![c] = "idle"]
    /\ console' = IF Supervise THEN console ELSE "prompt"
    /\ UNCHANGED <<cr3, from, frame, area, work, calls>>

\* The agent computes (external code): its registers change.
Compute(c) ==
    /\ mode[c] = "user"
    /\ LET p == cr3[c]
           now == [owner |-> p, progress |-> work[p] + 1]
       IN  /\ work[p] < MaxWork[p]
           /\ work' = [work EXCEPT ![p] = @ + 1]
           /\ regs' = [regs EXCEPT ![c] = [gp |-> now, fp |-> now]]
    /\ UNCHANGED <<tableVars, mode, cr3, from, frame, area, calls, console>>

\* Mutant: tick switches without saving the interrupted frame.
Tick_FrameNotSaved(c) ==
    /\ mode[c] = "user"
    /\ \/ /\ \E i \in Slots : TickContinue(c, i)
          /\ UNCHANGED <<mode, regs, from>>
       \/ /\ \E i \in Slots : TickKill(c, i)
          /\ mode' = [mode EXCEPT ![c] = "leaving"]
          /\ UNCHANGED <<regs, from>>
       \/ \E i, n \in Slots :
            /\ TickSwitch(c, i, n)
            /\ regs' = [regs EXCEPT ![c].gp = frame[n]]
            /\ from' = [from EXCEPT ![c] = i]
            /\ mode' = [mode EXCEPT ![c] = "switching"]
    /\ UNCHANGED <<cr3, frame, area, work, calls, console>>

\* Mutant: no watchdog.
Tick_NoWatchdog(c) ==
    /\ mode[c] = "user"
    /\ \E i \in Slots : TickContinue(c, i)
    /\ UNCHANGED <<mode, cr3, regs, from, frame, area, work, calls, console>>

\* on_user_tick.  (When try_lock fails nothing changes at all.)
Tick(c) ==
    /\ mode[c] = "user"
    /\ \/ /\ \E i \in Slots : TickContinue(c, i)
          /\ UNCHANGED <<mode, regs, from, frame>>
       \/ /\ \E i \in Slots : TickKill(c, i)
          /\ mode' = [mode EXCEPT ![c] = "leaving"]
          /\ UNCHANGED <<regs, from, frame>>
       \/ \E i, n \in Slots :
            /\ TickSwitch(c, i, n)
            /\ frame' = [frame EXCEPT ![i] = regs[c].gp]
            /\ regs' = [regs EXCEPT ![c].gp = frame[n]]
            /\ from' = [from EXCEPT ![c] = i]
            /\ mode' = [mode EXCEPT ![c] = "switching"]
    /\ UNCHANGED <<cr3, area, work, calls, console>>

\* fpu::save(from), with the table lock already released.
SaveRegisters(c) ==
    /\ mode[c] \in {"switching", "parking"}
    /\ area' = [area EXCEPT ![from[c]] = regs[c].fp]
    /\ from' = [from EXCEPT ![c] = 0]
    /\ mode' = [mode EXCEPT ![c] = IF @ = "switching" THEN "incoming" ELSE "leaving"]
    /\ UNCHANGED <<tableVars, cr3, regs, frame, work, calls, console>>

\* fpu::restore(to) and load_page_tables.
RestoreIncoming(c) ==
    /\ mode[c] = "incoming"
    /\ \E i \in Slots :
         /\ Found(current[c], i)
         /\ regs' = [regs EXCEPT ![c].fp = area[i]]
    /\ cr3' = [cr3 EXCEPT ![c] = current[c]]
    /\ mode' = [mode EXCEPT ![c] = "user"]
    /\ UNCHANGED <<tableVars, from, frame, area, work, calls, console>>

\* A syscall returns Outcome::Block.
Park(c) ==
    /\ mode[c] = "user"
    /\ calls[cr3[c]] < MaxCalls
    /\ calls' = [calls EXCEPT ![cr3[c]] = @ + 1]
    /\ \E i \in Slots :
         /\ Found(current[c], i)
         /\ frame' = [frame EXCEPT ![i] = regs[c].gp]
         /\ from' = [from EXCEPT ![c] = i]
    /\ BlockCurrent(c)
    /\ mode' = [mode EXCEPT ![c] = "parking"]
    /\ UNCHANGED <<cr3, regs, area, work, console>>

\* SYS_exit, or a fault in ring 3.
End(c) ==
    /\ mode[c] = "user"
    /\ ExitCurrent(c) \/ CrashCurrent(c)
    /\ mode' = [mode EXCEPT ![c] = "leaving"]
    /\ UNCHANGED <<cr3, regs, from, frame, area, work, calls, console>>

\* Mutant: the process's page tables stay loaded.
Resume_KeepsTables(c) ==
    /\ mode[c] = "leaving"
    /\ mode' = [mode EXCEPT ![c] = "idle"]
    /\ UNCHANGED <<tableVars, cr3, regs, from, frame, area, work, calls, console>>

\* cdk_user_resume: the kernel's page tables come back.
Resume(c) ==
    /\ mode[c] = "leaving"
    /\ cr3' = [cr3 EXCEPT ![c] = NoPid]
    /\ mode' = [mode EXCEPT ![c] = "idle"]
    /\ UNCHANGED <<tableVars, regs, from, frame, area, work, calls, console>>

KernelStep(c) ==
    \/ Dispatch(c)
    \/ RunOneMarks(c)
    \/ EnterRing3(c)
    \/ SaveRegisters(c)
    \/ RestoreIncoming(c)
    \/ Resume(c)

Next ==
    \/ Spawn
    \/ \E pid \in Pids : Reap(pid)
    \/ SetTicks
    \/ StartRun
    \/ \E pid \in Pids : Deliver(pid)
    \/ FinishRun
    \/ \E c \in Cpus : KernelStep(c) \/ EnterFails(c) \/ Compute(c) \/ Tick(c)
                       \/ Park(c) \/ End(c)

\* A CPU in the kernel runs on (an idle one wakes at every timer tick); ring 3
\* always runs with interrupts on, so ticks keep coming; the console loops;
\* a blocked process is answered, which the time-outs see to when the console's
\* CPU runs the agents (CallsReturn of BlockingCalls), and only then: RunEnds is
\* not claimed with application processors.
Fairness ==
    /\ \A c \in Cpus : WF_vars(KernelStep(c)) /\ WF_vars(Tick(c))
    /\ \A pid \in Pids : WF_vars(Deliver(pid))
    /\ WF_vars(FinishRun)

Spec == Init /\ [][Next]_vars
FairSpec == Spec /\ Fairness

-----------------------------------------------------------------------------
(* Properties. *)

\* Every variable is well formed.
TypeOK ==
    /\ TableTypeOK
    /\ mode \in [Cpus -> Modes]
    /\ cr3 \in [Cpus -> Pids \cup {NoPid}]
    /\ regs \in [Cpus -> [gp : Context, fp : Context]]
    /\ from \in [Cpus -> Slots]
    /\ frame \in [Slots -> Context]
    /\ area \in [Slots -> Context]
    /\ \A p \in Pids : work[p] \in 0 .. MaxWork[p]
    /\ calls \in [Pids -> 0 .. MaxCalls]
    /\ console \in {"prompt", "run"}

\* An agent in ring 3 always sees the general registers it last had, on
\* whatever CPU it resumes: tick and block_current save the frame under the
\* table lock (process.rs:490, 519).
FrameIntact ==
    \A c \in Cpus : mode[c] = "user" => regs[c].gp = Latest(cr3[c])

\* An agent in ring 3 always sees the FPU/vector registers it last had:
\* "preemption, blocking or migration saves the outgoing agent's registers
\* first" (fpu.rs:11-12).
FpuIntact ==
    \A c \in Cpus : mode[c] = "user" => regs[c].fp = Latest(cr3[c])

\* No agent executes on two CPUs, and the one executing is the one the table
\* charges ticks to (process.rs:907-914).
ExecutingIsCurrent ==
    \A c \in Cpus : mode[c] = "user" =>
        /\ cr3[c] = current[c]
        /\ \A d \in Cpus \ {c} : mode[d] = "user" => cr3[d] # cr3[c]

\* No CPU has a destroyed address space loaded: destroy's contract, "The
\* address space must not be active (CR3) on any CPU" (paging.rs:835-836).
DestroyedIsInactive ==
    \A c \in Cpus : cr3[c] # NoPid => \E i \in Slots : Holds(i, cr3[c])

\* Agents on the console's CPU get their FPU registers back and never run on,
\* or leave loaded, page tables that were destroyed (fpu.rs, paging.rs).
CpuStateIsOwn == FpuIntact /\ DestroyedIsInactive

\* Whatever CPU an agent resumes on, it has its own general registers, is the
\* process the table charges, and runs nowhere else.
RunsItsOwnState == TypeOK /\ FrameIntact /\ ExecutingIsCurrent

\* On the console's CPU every run ends: the watchdog stops agents that compute
\* for ever, and one that cannot be entered ends the run, so run_scheduled
\* returns to the console (process.rs:763-769).
RunEnds == console = "run" ~> console = "prompt"
=============================================================================
