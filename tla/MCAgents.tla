------------------------------- MODULE MCAgents -------------------------------
(* Agents on CPUs and their blocking calls, beside each other: AgentCpu leaves  *)
(* out who answers a call, BlockingCalls leaves out preemption.  Each has a     *)
(* process table of its own; a run exercises one and leaves the other as it was. *)
EXTENDS BlockingCalls

CONSTANTS CpuSlice, CpuSettings, MaxWork  \* AgentCpu's slice, settings and bound

VARIABLES half,
          table, running, used, last, next, cpuSlice, cpuBudget,  \* AgentCpu's table
          mode, cr3, regs, from, frame, area, work, parks, console

Cpu == INSTANCE AgentCpu WITH
         slots <- table, current <- running, sliceUsed <- used, cursor <- last, nextPid <- next,
         slice <- cpuSlice, budget <- cpuBudget, calls <- parks,
         DefaultSlice <- CpuSlice, TickSettings <- CpuSettings, MaxCalls <- 1

cpus == <<table, running, used, last, next, cpuSlice, cpuBudget,
          mode, cr3, regs, from, frame, area, work, parks, console>>

BspOnly == <<0>>
OneAp == <<1>>
TwoAps == <<1, 2>>

\* How often each process changes its registers.
OnceEach == <<1, 1>>
Once == <<1>>

\* Kinds of calls each process makes, and how many.
AnyKind == <<CallKinds, CallKinds>>
GatesFirst == <<{"gated tool"}, {"gated send", "tool"}>>
OneEach == <<1, 1>>
TwoAndOne == <<2, 1>>

CpuNext == half = "cpu" /\ Cpu!Next /\ UNCHANGED <<half, vars>>
CallsNext == half = "calls" /\ Next /\ UNCHANGED <<half, cpus>>

CpuInit == half = "cpu" /\ Cpu!Init /\ Init /\ ~signedMode
CallsInit == half = "calls" /\ Cpu!Init /\ Init

CpuSpec == CpuInit /\ [][CpuNext]_<<half, vars, cpus>>
CallsSpec == CallsInit /\ [][CallsNext]_<<half, vars, cpus>>

\* The fairness of each module, for its own half.
CallsFairness ==
    /\ WF_vars(half = "calls" /\ SupervisorStep)
    /\ \A c \in Cpus : WF_vars(half = "calls" /\ AgentStep(c))
    /\ WF_vars(half = "calls" /\ TimePasses)
    /\ WF_vars(half = "calls" /\ DeadlinePasses)

CpuFairness ==
    /\ \A c \in Cpus : WF_cpus(half = "cpu" /\ Cpu!KernelStep(c)) /\ WF_cpus(half = "cpu" /\ Cpu!Tick(c))
    /\ \A pid \in Pids : WF_cpus(half = "cpu" /\ Cpu!Deliver(pid))
    /\ WF_cpus(half = "cpu" /\ Cpu!FinishRun)

MCSpec == /\ CpuInit \/ CallsInit
          /\ [][CpuNext \/ CallsNext]_<<half, vars, cpus>>
          /\ CallsFairness /\ CpuFairness
FairCallsSpec == CallsSpec /\ CallsFairness

\* AgentCpu's properties.
CpuStateIsOwn == Cpu!CpuStateIsOwn
FpuIntact == Cpu!FpuIntact
DestroyedIsInactive == Cpu!DestroyedIsInactive
RunEnds == Cpu!RunEnds
=============================================================================
