--------------------------- MODULE AgentCpu_proofs ---------------------------
(***************************************************************************)
(* Proofs about agents on CPUs, for every number of slots and processes:   *)
(* every agent resumes with its own general registers, on any number of    *)
(* CPUs; and, on the console's CPU alone, with its own FPU registers and   *)
(* page tables.                                                            *)
(***************************************************************************)
EXTENDS AgentCpu, ProcessTable_proofs

InAgent == {"dispatched", "marked", "user", "switching", "incoming"}

\* Where the latest registers of a process are: on its CPU, and, until it is
\* in ring 3 or after it left, in its slot.
RegsOnCpu(c) == mode[c] \in InAgent => current[c] # NoPid /\ regs[c].gp = Latest(current[c])
TablesOnCpu(c) == mode[c] = "user" => cr3[c] = current[c]
FrameBehindCpu(c) ==
    mode[c] \in {"dispatched", "marked"} =>
        \A i \in Slots : Holds(i, current[c]) => frame[i] = Latest(current[c])
RegsInSlot(i) == slots[i].state \in {"Ready", "Blocked"} => frame[i] = Latest(slots[i].pid)

CpuTypes ==
    /\ mode \in [Cpus -> Modes]
    /\ cr3 \in [Cpus -> Pids \cup {NoPid}]
    /\ regs \in [Cpus -> [gp : Context, fp : Context]]
    /\ from \in [Cpus -> Slots]
    /\ frame \in [Slots -> Context]
    /\ area \in [Slots -> Context]
    /\ work \in [Pids -> Nat] /\ \A p \in Pids : work[p] \in 0 .. MaxWork[p]
    /\ calls \in [Pids -> 0 .. MaxCalls]
    /\ console \in {"prompt", "run"}

\* Pids that were not handed out yet have no registers to lose.
PidsFresh == nextPid <= MaxPid + 1 /\ \A p \in Pids : p >= nextPid => work[p] = 0

RegsInv ==
    /\ CpuTypes /\ PidsFresh
    /\ \A c \in Cpus : RegsOnCpu(c) /\ TablesOnCpu(c) /\ FrameBehindCpu(c)
    /\ \A i \in Slots : RegsInSlot(i)

\* The slot found for a CPU's current process is the one running on that CPU.
LEMMA CurrentRuns ==
    ASSUME TableInv, NEW c \in Cpus, current[c] # NoPid,
           NEW i \in Slots, Holds(i, current[c])
    PROVE  slots[i].state = "Running" /\ slots[i].home = c
<1>1. PICK k \in Slots : slots[k].state = "Running" /\ slots[k].pid = current[c] /\ slots[k].home = c
  BY DEF TableInv, OneCpuPerProcess
<1>2. k = i
  BY <1>1 DEF TableInv, PidsUnique, Holds
<1> QED BY <1>1, <1>2

\* The register file a spawned process starts from is a register file.
LEMMA FreshContext == Fresh \in Context
BY DEF Fresh, Context, NoPid

\* The pid of a process in the table is one that was handed out.
LEMMA KnownPid ==
    ASSUME TableInv, RegsInv, NEW i \in Slots, slots[i].state # "Free"
    PROVE  slots[i].pid \in Pids /\ slots[i].pid < nextPid /\ slots[i].pid # NoPid
<1>1. slots[i].pid \in 1 .. nextPid - 1 /\ nextPid \in Nat
  BY DEF TableInv, PidsUnique, TableTypeOK
<1> QED BY <1>1, TableAssumption DEF RegsInv, PidsFresh, Pids, NoPid

\* So is the pid of a CPU's current process, which one slot holds.
LEMMA CurrentIsKnown ==
    ASSUME TableInv, RegsInv, NEW c \in Cpus, current[c] # NoPid
    PROVE  /\ current[c] \in Pids
           /\ \E i \in Slots : Holds(i, current[c]) /\ slots[i].state = "Running" /\ slots[i].home = c
<1>1. PICK i \in Slots : slots[i].state = "Running" /\ slots[i].pid = current[c] /\ slots[i].home = c
  BY DEF TableInv, OneCpuPerProcess
<1> QED BY <1>1, KnownPid DEF Holds

\* Two CPUs have different current processes.
LEMMA CurrentDiffer ==
    ASSUME TableInv, NEW c \in Cpus, NEW d \in Cpus, c # d, current[c] # NoPid
    PROVE  current[d] # current[c]
<1> SUFFICES ASSUME current[d] = current[c] PROVE FALSE
  OBVIOUS
<1>1. PICK i \in Slots : slots[i].state = "Running" /\ slots[i].pid = current[c] /\ slots[i].home = c
  BY DEF TableInv, OneCpuPerProcess
<1>2. PICK j \in Slots : slots[j].state = "Running" /\ slots[j].pid = current[c] /\ slots[j].home = d
  BY DEF TableInv, OneCpuPerProcess
<1>3. i = j
  BY <1>1, <1>2 DEF TableInv, PidsUnique, Holds
<1> QED BY <1>1, <1>2, <1>3

\* At boot no processor holds a process and every saved context is fresh.
LEMMA RegsInit == Init => RegsInv
<1> SUFFICES ASSUME Init PROVE RegsInv
  OBVIOUS
<1> USE DEF Init, TableInit
<1>1. CpuTypes
  BY FreshContext, TableAssumption, CpuAssumption DEF CpuTypes, Modes, NoPid, Slots
<1>2. PidsFresh
  BY TableAssumption DEF PidsFresh
<1>3. ASSUME NEW c \in Cpus PROVE RegsOnCpu(c) /\ TablesOnCpu(c) /\ FrameBehindCpu(c)
  BY DEF RegsOnCpu, TablesOnCpu, FrameBehindCpu, InAgent
<1>4. ASSUME NEW i \in Slots PROVE RegsInSlot(i)
  BY DEF RegsInSlot, FreeSlot
<1> QED BY <1>1, <1>2, <1>3, <1>4 DEF RegsInv

\* Console operations on processes that no CPU runs: pids stay, a slot becomes
\* Ready only from Blocked.
LEMMA SlotsKept ==
    ASSUME RegsInv, UNCHANGED <<cpuVars, current, nextPid>>, console' \in {"prompt", "run"},
           \A i \in Slots : \/ slots'[i].state = "Free"
                            \/ /\ slots'[i].pid = slots[i].pid
                               /\ \/ slots'[i].state = slots[i].state
                                  \/ slots[i].state = "Blocked" /\ slots'[i].state = "Ready"
    PROVE  RegsInv'
<1> USE DEF cpuVars
<1>1. CpuTypes' /\ PidsFresh'
  BY DEF RegsInv, CpuTypes, PidsFresh
<1>2. ASSUME NEW c \in Cpus PROVE RegsOnCpu(c)' /\ TablesOnCpu(c)' /\ FrameBehindCpu(c)'
  <2>1. RegsOnCpu(c)' /\ TablesOnCpu(c)'
    BY DEF RegsInv, RegsOnCpu, TablesOnCpu, Latest
  <2>2. FrameBehindCpu(c)'
    <3>1. \A i \in Slots : Holds(i, current[c])' => Holds(i, current[c])
      BY DEF Holds
    <3> QED BY <3>1 DEF RegsInv, FrameBehindCpu, Latest
  <2> QED BY Zenon, <2>1, <2>2
<1>3. ASSUME NEW i \in Slots PROVE RegsInSlot(i)'
  BY DEF RegsInv, RegsInSlot, Latest
<1> QED BY <1>1, <1>2, <1>3 DEF RegsInv

\* The console commands of the process table, and a delivery to a waiting process, leave the
\* registers where they are.
LEMMA ConsoleKeeps ==
    ASSUME TableInv, RegsInv,
           \/ SetTicks \/ StartRun \/ FinishRun
           \/ \E pid \in Pids : Reap(pid) \/ Deliver(pid)
    PROVE  RegsInv'
<1>0. slots \in [Slots -> Process] /\ console \in {"prompt", "run"}
  BY DEF TableInv, TableTypeOK, RegsInv, CpuTypes
<1>1. CASE SetTicks
  BY <1>0, <1>1, SlotsKept DEF SetTicks, SetSliceTicks, SetBudgetTicks
<1>2. CASE FinishRun
  BY <1>2, SlotsKept DEF FinishRun, tableVars
<1>3. CASE StartRun
  <2>1. PICK picked : Mark(picked) /\ console' = "run" /\ UNCHANGED cpuVars
    BY Zenon, <1>3 DEF StartRun, SelectAllReady, SelectOne
  <2>2. \A i \in Slots : slots'[i].pid = slots[i].pid /\ slots'[i].state = slots[i].state
    BY Zenon, <1>0, <2>1, MarkView
  <2> QED BY Zenon, <2>1, <2>2, SlotsKept DEF Mark
<1>4. ASSUME NEW pid \in Pids, Reap(pid) PROVE RegsInv'
  <2>1. PICK i \in Slots : slots' = [slots EXCEPT ![i] = FreeSlot]
    BY <1>4, Zenon DEF Reap, TakeForReap
  <2>2. \A j \in Slots : slots'[j].state = "Free" \/ slots'[j] = slots[j]
    BY <1>0, <2>1 DEF FreeSlot
  <2> QED BY <1>0, <1>4, <2>2, SlotsKept DEF Reap, TakeForReap
<1>5. ASSUME NEW pid \in Pids, Deliver(pid) PROVE RegsInv'
  <2>1. PICK i \in Slots : slots[i].state = "Blocked" /\ slots' = [slots EXCEPT ![i].state = "Ready"]
    BY <1>5, Zenon DEF Deliver, Unblock
  <2>2. \A j \in Slots : /\ slots'[j].pid = slots[j].pid
                         /\ \/ slots'[j].state = slots[j].state
                            \/ slots[j].state = "Blocked" /\ slots'[j].state = "Ready"
    BY <1>0, <2>1 DEF Process
  <2> QED BY <1>0, <1>5, <2>2, SlotsKept DEF Deliver, Unblock
<1> QED BY Zenon, <1>1, <1>2, <1>3, <1>4, <1>5

\* The slot that register changes was free and gets the next pid.
LEMMA SpawnTakes ==
    ASSUME slots \in [Slots -> Process], Spawn, NEW i \in Slots, slots'[i] # slots[i]
    PROVE  slots[i].state = "Free" /\ slots'[i].pid = nextPid /\ slots'[i].state = "Ready"
<1>1. PICK k \in Slots :
        slots[k].state = "Free" /\ slots' = [slots EXCEPT ![k] = ReadySlot(nextPid)]
  BY Zenon DEF Spawn, Register
<1>2. k = i
  BY Zenon, <1>1
<1>3. slots'[i] = ReadySlot(nextPid)
  BY Zenon, <1>1, <1>2
<1> QED BY Zenon, <1>1, <1>2, <1>3 DEF ReadySlot

\* register puts a process without registers into a free slot.
LEMMA SpawnKeeps == ASSUME TableInv, RegsInv, Spawn PROVE RegsInv'
<1> DEFINE taken == {i \in Slots : slots'[i] # slots[i]}
<1>0. /\ slots \in [Slots -> Process] /\ nextPid \in Nat \ {0} /\ nextPid <= MaxPid
      /\ nextPid' = nextPid + 1
      /\ UNCHANGED <<mode, cr3, regs, from, work, calls, console, current>>
  BY DEF TableInv, TableTypeOK, Spawn, Register
<1>1. /\ frame' = [i \in Slots |-> IF i \in taken THEN Fresh ELSE frame[i]]
      /\ area' = [i \in Slots |-> IF i \in taken THEN Fresh ELSE area[i]]
  BY DEF Spawn
<1>2. \A i \in taken : slots[i].state = "Free" /\ slots'[i].pid = nextPid /\ slots'[i].state = "Ready"
  BY Zenon, <1>0, SpawnTakes
<1>3. nextPid \in Pids /\ work[nextPid] = 0
  BY <1>0, TableAssumption DEF RegsInv, PidsFresh, Pids
<1>4. CpuTypes'
  BY <1>0, <1>1, FreshContext DEF RegsInv, CpuTypes
<1>5. PidsFresh'
  BY <1>0, TableAssumption DEF RegsInv, PidsFresh, Pids
<1>6. ASSUME NEW c \in Cpus PROVE RegsOnCpu(c)' /\ TablesOnCpu(c)' /\ FrameBehindCpu(c)'
  <2>1. RegsOnCpu(c)' /\ TablesOnCpu(c)'
    BY <1>0 DEF RegsInv, RegsOnCpu, TablesOnCpu, Latest
  <2>2. ASSUME mode[c] \in {"dispatched", "marked"}, NEW i \in Slots, Holds(i, current[c])'
        PROVE  frame'[i] = Latest(current[c])
    <3>1. current[c] # NoPid /\ current[c] # nextPid
      <4>1. current[c] # NoPid
        BY <2>2 DEF RegsInv, RegsOnCpu, InAgent
      <4>2. PICK j \in Slots : Holds(j, current[c])
        BY <4>1, CurrentIsKnown
      <4>3. slots[j].pid < nextPid
        BY <4>2, KnownPid DEF Holds
      <4> QED BY <1>0, <4>1, <4>2, <4>3 DEF Holds
    <3>2. i \notin taken
      BY <1>0, <1>2, <2>2, <3>1 DEF Holds
    <3>3. Holds(i, current[c]) /\ frame'[i] = frame[i]
      BY Zenon, <1>0, <1>1, <2>2, <3>2 DEF Holds
    <3> QED BY <2>2, <3>3 DEF RegsInv, FrameBehindCpu
  <2>3. FrameBehindCpu(c)'
    BY <1>0, <2>2 DEF FrameBehindCpu, Latest
  <2> QED BY <2>1, <2>3
<1>7. ASSUME NEW i \in Slots PROVE RegsInSlot(i)'
  <2>1. CASE i \in taken
    BY Zenon, <1>0, <1>1, <1>2, <1>3, <2>1 DEF RegsInSlot, Latest
  <2>2. CASE i \notin taken
    BY Zenon, <1>0, <1>1, <2>2 DEF RegsInv, RegsInSlot, Latest
  <2> QED BY Zenon, <2>1, <2>2
<1> QED BY <1>4, <1>5, <1>6, <1>7 DEF RegsInv

\* What holds of the other CPUs when one CPU c takes a step: their registers and
\* the processes they run are their own.
LEMMA OthersKept ==
    ASSUME TableInv, RegsInv, NEW c \in Cpus, NEW d \in Cpus, d # c,
           mode'[d] = mode[d], cr3'[d] = cr3[d], regs'[d] = regs[d], current'[d] = current[d],
           \A i \in Slots : slots'[i].state # "Free" =>
               slots'[i].pid = slots[i].pid /\ slots[i].state # "Free",
           \A i \in Slots : slots[i].state = "Running" /\ slots[i].home = d => frame'[i] = frame[i],
           \A p \in Pids : p = current[d] => work'[p] = work[p]
    PROVE  RegsOnCpu(d)' /\ TablesOnCpu(d)' /\ FrameBehindCpu(d)'
<1>1. TablesOnCpu(d)'
  BY Zenon DEF RegsInv, TablesOnCpu
<1>2. CASE mode[d] \notin InAgent
  BY <1>1, <1>2 DEF RegsOnCpu, FrameBehindCpu, InAgent
<1>3. CASE mode[d] \in InAgent
  <2>1. current[d] # NoPid
    BY <1>3 DEF RegsInv, RegsOnCpu
  <2>2. current[d] \in Pids
    BY <2>1, CurrentIsKnown
  <2>3. Latest(current[d])' = Latest(current[d])
    BY <2>2 DEF Latest
  <2>4. RegsOnCpu(d)'
    BY Zenon, <2>3 DEF RegsInv, RegsOnCpu
  <2>5. FrameBehindCpu(d)'
    <3> SUFFICES ASSUME mode[d] \in {"dispatched", "marked"}, NEW i \in Slots, Holds(i, current[d])'
                 PROVE  frame'[i] = Latest(current[d])
      BY Zenon, <2>3 DEF FrameBehindCpu
    <3>1. Holds(i, current[d])
      BY DEF Holds
    <3>2. slots[i].state = "Running" /\ slots[i].home = d
      BY Zenon, <2>1, <3>1, CurrentRuns
    <3> QED BY Zenon, <3>1, <3>2 DEF RegsInv, FrameBehindCpu
  <2> QED BY <1>1, <2>4, <2>5
<1> QED BY <1>2, <1>3

\* A step of CPU c, once it is shown for c itself and for the slots.
LEMMA StepOfOneCpu ==
    ASSUME TableInv, RegsInv, NEW c \in Cpus, CpuTypes', nextPid' = nextPid,
           \A d \in Cpus \ {c} : /\ mode'[d] = mode[d] /\ cr3'[d] = cr3[d]
                                 /\ regs'[d] = regs[d] /\ current'[d] = current[d],
           \A i \in Slots : slots'[i].state # "Free" =>
               slots'[i].pid = slots[i].pid /\ slots[i].state # "Free",
           \A i \in Slots : slots[i].state = "Running" /\ slots[i].home # c => frame'[i] = frame[i],
           \A p \in Pids : work'[p] = work[p] \/ (p = current[c] /\ current[c] # NoPid),
           RegsOnCpu(c)', TablesOnCpu(c)', FrameBehindCpu(c)',
           \A i \in Slots : RegsInSlot(i)'
    PROVE  RegsInv'
<1>1. ASSUME NEW d \in Cpus, d # c PROVE RegsOnCpu(d)' /\ TablesOnCpu(d)' /\ FrameBehindCpu(d)'
  <2>1. \A p \in Pids : p = current[d] => work'[p] = work[p]
    BY <1>1, CurrentDiffer
  <2>2. \A i \in Slots : slots[i].state = "Running" /\ slots[i].home = d => frame'[i] = frame[i]
    BY <1>1
  <2>3. mode'[d] = mode[d] /\ cr3'[d] = cr3[d] /\ regs'[d] = regs[d] /\ current'[d] = current[d]
    BY <1>1
  <2> QED BY Zenon, <1>1, <2>1, <2>2, <2>3, OthersKept
<1>2. PidsFresh'
  <2> SUFFICES ASSUME NEW p \in Pids, p >= nextPid PROVE work'[p] = 0
    BY DEF RegsInv, PidsFresh
  <2>1. work[p] = 0
    BY DEF RegsInv, PidsFresh
  <2>2. ~(p = current[c] /\ current[c] # NoPid)
    <3> SUFFICES ASSUME p = current[c], current[c] # NoPid PROVE FALSE
      OBVIOUS
    <3>1. PICK i \in Slots : Holds(i, current[c])
      BY CurrentIsKnown
    <3>2. slots[i].pid < nextPid /\ slots[i].pid = p
      BY <3>1, KnownPid DEF Holds
    <3>3. nextPid \in Nat
      BY Zenon DEF TableInv, TableTypeOK
    <3> QED BY <3>2, <3>3 DEF Pids
  <2> QED BY Zenon, <2>1, <2>2
<1> QED BY <1>1, <1>2 DEF RegsInv

\* dispatch_next hands the saved registers of a Ready process to the CPU.
LEMMA DispatchKeeps == ASSUME TableInv, RegsInv, NEW c \in Cpus, Dispatch(c) PROVE RegsInv'
<1>1. PICK i \in Slots : DispatchNext(c, i) /\ regs' = [regs EXCEPT ![c].gp = frame[i]]
  BY Zenon DEF Dispatch
<1>2. /\ mode' = [mode EXCEPT ![c] = "dispatched"]
      /\ UNCHANGED <<cr3, from, frame, area, work, calls, console>>
  BY DEF Dispatch
<1>3. /\ slots \in [Slots -> Process] /\ current \in [Cpus -> Nat] /\ CpuTypes
  BY DEF TableInv, TableTypeOK, RegsInv
<1>4. /\ slots[i].state = "Ready" /\ UNCHANGED nextPid
      /\ slots' = [slots EXCEPT ![i] = Dispatched(slots[i], c)]
      /\ current' = [current EXCEPT ![c] = slots[i].pid]
  BY <1>1 DEF DispatchNext, NextRunnable, OwnQueue, Runnable
<1>5. \A j \in Slots : /\ slots'[j].pid = slots[j].pid
                       /\ slots'[j].state = IF j = i THEN "Running" ELSE slots[j].state
  BY Zenon, <1>3, <1>4 DEF Dispatched, Process
<1>6. slots[i].pid \in Pids /\ slots[i].pid # NoPid /\ frame[i] = Latest(slots[i].pid)
  <2>1. frame[i] = Latest(slots[i].pid)
    BY <1>4 DEF RegsInv, RegsInSlot
  <2> QED BY Zenon, <1>4, <2>1, KnownPid
<1>7. current'[c] = slots[i].pid /\ regs'[c].gp = frame[i] /\ mode'[c] = "dispatched"
  BY <1>1, <1>2, <1>3, <1>4 DEF CpuTypes
<1>8. CpuTypes'
  BY Zenon, <1>1, <1>2, <1>3 DEF CpuTypes, Modes
<1>9. \A d \in Cpus \ {c} : /\ mode'[d] = mode[d] /\ cr3'[d] = cr3[d]
                            /\ regs'[d] = regs[d] /\ current'[d] = current[d]
  BY Zenon, <1>1, <1>2, <1>3, <1>4 DEF CpuTypes
<1>10. RegsOnCpu(c)' /\ TablesOnCpu(c)'
  BY <1>2, <1>6, <1>7 DEF RegsOnCpu, TablesOnCpu, Latest
<1>11. FrameBehindCpu(c)'
  <2> SUFFICES ASSUME NEW j \in Slots, Holds(j, current[c])' PROVE frame[j] = Latest(slots[i].pid)
    BY Zenon, <1>2, <1>7 DEF FrameBehindCpu, Latest
  <2>1. slots[j].state # "Free" /\ slots[j].pid = slots[i].pid
    BY <1>4, <1>5, <1>7 DEF Holds
  <2>2. j = i
    BY Zenon, <1>4, <2>1 DEF TableInv, PidsUnique, Holds
  <2> QED BY Zenon, <1>6, <2>2
<1>12. \A j \in Slots : RegsInSlot(j)'
  BY <1>2, <1>5 DEF RegsInv, RegsInSlot, Latest
<1>13. \A j \in Slots : slots'[j].state # "Free" => slots'[j].pid = slots[j].pid /\ slots[j].state # "Free"
  BY Zenon, <1>4, <1>5
<1> QED BY Zenon, <1>2, <1>4, <1>8, <1>9, <1>10, <1>11, <1>12, <1>13, StepOfOneCpu

\* Steps that leave the table, the saved frames and the general registers alone.
LEMMA QuietStep ==
    ASSUME TableInv, RegsInv, NEW c \in Cpus, CpuTypes',
           UNCHANGED <<current, nextPid, frame, work>>,
           \A i \in Slots : slots'[i].pid = slots[i].pid /\ slots'[i].state = slots[i].state,
           \A d \in Cpus \ {c} : mode'[d] = mode[d] /\ cr3'[d] = cr3[d] /\ regs'[d] = regs[d],
           regs'[c].gp = regs[c].gp,
           mode'[c] \in InAgent => mode[c] \in InAgent,
           mode'[c] \in {"dispatched", "marked"} => mode[c] \in {"dispatched", "marked"},
           TablesOnCpu(c)'
    PROVE  RegsInv'
<1>1. RegsOnCpu(c)'
  BY Zenon DEF RegsInv, RegsOnCpu, Latest
<1>2. FrameBehindCpu(c)'
  BY DEF RegsInv, FrameBehindCpu, Latest, Holds
<1>3. \A i \in Slots : RegsInSlot(i)'
  BY DEF RegsInv, RegsInSlot, Latest
<1> QED BY Zenon, <1>1, <1>2, <1>3, StepOfOneCpu

\* The steps of run_one and of the switch that move registers within one processor keep them with
\* their owner.
LEMMA QuietKeeps ==
    ASSUME TableInv, RegsInv, NEW c \in Cpus,
           RunOneMarks(c) \/ EnterRing3(c) \/ SaveRegisters(c) \/ RestoreIncoming(c) \/ Resume(c)
    PROVE  RegsInv'
<1>0. slots \in [Slots -> Process] /\ current \in [Cpus -> Nat] /\ CpuTypes
  BY Zenon DEF TableInv, TableTypeOK, RegsInv
<1>1. CASE RunOneMarks(c)
  <2>1. /\ mode[c] = "dispatched" /\ mode' = [mode EXCEPT ![c] = "marked"]
        /\ UNCHANGED <<cr3, regs, from, frame, area, work, calls, console>>
    BY Zenon, <1>1 DEF RunOneMarks
  <2>2. /\ UNCHANGED <<current, nextPid>>
        /\ \A i \in Slots : slots'[i].pid = slots[i].pid /\ slots'[i].state = slots[i].state
    <3>1. CASE UNCHANGED tableVars
      BY <3>1 DEF tableVars
    <3>2. CASE MarkStarted(c)
      <4>1. PICK i \in Slots : slots' = [slots EXCEPT ![i].started = TRUE]
        BY <3>2, Zenon DEF MarkStarted
      <4> QED BY <1>0, <3>2, <4>1 DEF MarkStarted, Process
    <3> QED BY <1>1, <3>1, <3>2 DEF RunOneMarks
  <2>3. CpuTypes'
    BY <1>0, <2>1 DEF CpuTypes, Modes
  <2>4. mode'[c] = "marked" /\ \A d \in Cpus \ {c} : mode'[d] = mode[d]
    BY Zenon, <1>0, <2>1 DEF CpuTypes
  <2>5. TablesOnCpu(c)'
    BY Zenon, <2>4 DEF TablesOnCpu
  <2> QED BY Zenon, <2>1, <2>2, <2>3, <2>4, <2>5, QuietStep DEF InAgent
<1>2. CASE EnterRing3(c) \/ RestoreIncoming(c)
  <2>1. PICK i \in Slots : Found(current[c], i) /\ regs' = [regs EXCEPT ![c].fp = area[i]]
    BY <1>2 DEF EnterRing3, RestoreIncoming
  <2>2. /\ mode[c] \in InAgent /\ mode' = [mode EXCEPT ![c] = "user"]
        /\ cr3' = [cr3 EXCEPT ![c] = current[c]]
        /\ UNCHANGED <<tableVars, from, frame, area, work, calls, console>>
    BY Zenon, <1>2 DEF EnterRing3, RestoreIncoming, InAgent
  <2>3. current[c] \in Pids
    <3>1. current[c] # NoPid
      BY <2>2 DEF RegsInv, RegsOnCpu
    <3> QED BY Zenon, <3>1, CurrentIsKnown
  <2>4. CpuTypes'
    BY Zenon, <1>0, <2>1, <2>2, <2>3 DEF CpuTypes, Modes
  <2>5. /\ mode'[c] = "user" /\ cr3'[c] = current[c] /\ regs'[c].gp = regs[c].gp
        /\ \A d \in Cpus \ {c} : mode'[d] = mode[d] /\ cr3'[d] = cr3[d] /\ regs'[d] = regs[d]
    BY <1>0, <2>1, <2>2 DEF CpuTypes
  <2>6. UNCHANGED <<slots, current, nextPid>>
    BY <2>2 DEF tableVars
  <2>7. TablesOnCpu(c)'
    BY Zenon, <2>5, <2>6 DEF TablesOnCpu
  <2> QED BY Zenon, <2>2, <2>4, <2>5, <2>6, <2>7, QuietStep
<1>3. CASE SaveRegisters(c)
  <2>1. /\ mode[c] \in {"switching", "parking"}
        /\ area' = [area EXCEPT ![from[c]] = regs[c].fp]
        /\ from' = [from EXCEPT ![c] = 0]
        /\ mode' = [mode EXCEPT ![c] = IF @ = "switching" THEN "incoming" ELSE "leaving"]
        /\ UNCHANGED <<tableVars, cr3, regs, frame, work, calls, console>>
    BY <1>3 DEF SaveRegisters
  <2>2. 0 \in Slots
    BY TableAssumption DEF Slots
  <2>3. CpuTypes'
    BY Zenon, <1>0, <2>1, <2>2 DEF CpuTypes, Modes
  <2>4. /\ mode'[c] = (IF mode[c] = "switching" THEN "incoming" ELSE "leaving")
        /\ \A d \in Cpus \ {c} : mode'[d] = mode[d]
    BY <1>0, <2>1 DEF CpuTypes
  <2>5. UNCHANGED <<slots, current, nextPid>>
    BY Zenon, <2>1 DEF tableVars
  <2>6. TablesOnCpu(c)'
    BY Zenon, <2>4 DEF TablesOnCpu
  <2>7. mode'[c] \in InAgent => mode[c] \in InAgent
    BY <2>4 DEF InAgent
  <2>8. mode'[c] \notin {"dispatched", "marked"}
    BY <2>4
  <2> QED BY Zenon, <2>1, <2>3, <2>4, <2>5, <2>6, <2>7, <2>8, QuietStep
<1>4. CASE Resume(c)
  <2>1. /\ cr3' = [cr3 EXCEPT ![c] = NoPid] /\ mode' = [mode EXCEPT ![c] = "idle"]
        /\ UNCHANGED <<tableVars, regs, from, frame, area, work, calls, console>>
    BY Zenon, <1>4 DEF Resume
  <2>2. CpuTypes'
    BY Zenon, <1>0, <2>1 DEF CpuTypes, Modes
  <2>3. mode'[c] = "idle" /\ \A d \in Cpus \ {c} : mode'[d] = mode[d] /\ cr3'[d] = cr3[d]
    BY Zenon, <1>0, <2>1 DEF CpuTypes
  <2>4. UNCHANGED <<slots, current, nextPid>>
    BY <2>1 DEF tableVars
  <2>5. TablesOnCpu(c)' /\ mode'[c] \notin InAgent /\ mode'[c] \notin {"dispatched", "marked"}
    BY Zenon, <2>3 DEF TablesOnCpu, InAgent
  <2> QED BY Zenon, <2>1, <2>2, <2>3, <2>4, <2>5, QuietStep
<1> QED BY <1>1, <1>2, <1>3, <1>4

\* A CPU c takes its process off: slot i gets the state st and, if the process may go on,
\* the frame it left with; nothing else of the table and of the other CPUs changes.
Relinquished(c, i, st) ==
    /\ current[c] # NoPid /\ Holds(i, current[c])
    /\ \A j \in Slots : /\ slots'[j].pid = slots[j].pid
                        /\ slots'[j].state = IF j = i THEN st ELSE slots[j].state
    /\ \A j \in Slots \ {i} : frame'[j] = frame[j]
    /\ st \in {"Ready", "Blocked"} => frame'[i] = Latest(current[c])
    /\ CpuTypes' /\ UNCHANGED <<work, nextPid, cr3>>
    /\ mode'[c] \notin InAgent
    /\ \A d \in Cpus \ {c} : mode'[d] = mode[d] /\ regs'[d] = regs[d] /\ current'[d] = current[d]

\* A CPU gives up its process: if that may go on later, its slot has its registers.
LEMMA GivesUp ==
    ASSUME TableInv, RegsInv, NEW c \in Cpus, NEW i \in Slots,
           NEW st \in {"Ready", "Blocked", "Zombie", "Crashed", "Killed"}, Relinquished(c, i, st)
    PROVE  RegsInv'
<1>1. slots[i].state = "Running" /\ slots[i].home = c /\ slots[i].pid = current[c] /\ current[c] # NoPid
  <2>1. current[c] # NoPid /\ Holds(i, current[c])
    BY Zenon DEF Relinquished
  <2> QED BY <2>1, CurrentRuns DEF Holds
<1>2. \A j \in Slots : /\ slots'[j].pid = slots[j].pid
                      /\ slots'[j].state = IF j = i THEN st ELSE slots[j].state
  BY Zenon DEF Relinquished
<1>3. /\ \A j \in Slots \ {i} : frame'[j] = frame[j]
      /\ st \in {"Ready", "Blocked"} => frame'[i] = Latest(current[c])
  BY Zenon DEF Relinquished
<1>4. /\ CpuTypes' /\ UNCHANGED <<work, nextPid, cr3>> /\ mode'[c] \notin InAgent
      /\ \A d \in Cpus \ {c} : mode'[d] = mode[d] /\ regs'[d] = regs[d] /\ current'[d] = current[d]
  BY Zenon DEF Relinquished
<1>5. RegsOnCpu(c)' /\ TablesOnCpu(c)' /\ FrameBehindCpu(c)'
  BY Zenon, <1>4 DEF RegsOnCpu, TablesOnCpu, FrameBehindCpu, InAgent
<1>6. ASSUME NEW j \in Slots PROVE RegsInSlot(j)'
  <2>0. Latest(slots[j].pid)' = Latest(slots[j].pid)
    <3>1. work' = work /\ slots'[j].pid = slots[j].pid
      BY Zenon, <1>2, <1>4
    <3> QED BY Zenon, <3>1 DEF Latest
  <2>1. CASE j = i
    <3>1. slots'[j].state = st /\ Latest(slots[j].pid) = Latest(current[c])
      BY Zenon, <1>1, <1>2, <2>1
    <3> QED BY Zenon, <1>3, <2>0, <2>1, <3>1 DEF RegsInSlot
  <2>2. CASE j # i
    <3>1. slots'[j].state = slots[j].state /\ frame'[j] = frame[j]
      BY Zenon, <1>2, <1>3, <2>2
    <3>2. RegsInSlot(j)
      BY Zenon DEF RegsInv
    <3> QED BY Zenon, <2>0, <3>1, <3>2 DEF RegsInSlot
  <2> QED BY Zenon, <2>1, <2>2
<1>7. \A j \in Slots : slots'[j].state # "Free" => slots'[j].pid = slots[j].pid /\ slots[j].state # "Free"
  BY Zenon, <1>1, <1>2
<1>8. \A j \in Slots : slots[j].state = "Running" /\ slots[j].home # c => frame'[j] = frame[j]
  BY <1>1, <1>3
<1> QED BY Zenon, <1>4, <1>5, <1>6, <1>7, <1>8, StepOfOneCpu

\* What Leave does to the current processes and to the slots' states.
Vacates(c, st) ==
    /\ current[c] # NoPid /\ UNCHANGED nextPid
    /\ \A d \in Cpus \ {c} : current'[d] = current[d]
    /\ \E i \in Slots :
         /\ Found(current[c], i)
         /\ \A j \in Slots : /\ slots'[j].pid = slots[j].pid
                             /\ slots'[j].state = IF j = i THEN st ELSE slots[j].state

\* Taking the current process off its processor changes the state of that process and of no other.
LEMMA LeaveView ==
    ASSUME TableInv, NEW c \in Cpus, NEW state, NEW scheduled, Leave(c, state, scheduled)
    PROVE  Vacates(c, state)
<1>0. slots \in [Slots -> Process] /\ current \in [Cpus -> Nat]
  BY DEF TableInv, TableTypeOK
<1>1. PICK i \in Slots :
        /\ Found(current[c], i)
        /\ slots' = [slots EXCEPT ![i].state = state, ![i].scheduled = @ /\ scheduled]
  BY Zenon DEF Leave
<1>2. \A j \in Slots : /\ slots'[j].pid = slots[j].pid
                       /\ slots'[j].state = IF j = i THEN state ELSE slots[j].state
  BY <1>0, <1>1 DEF Process
<1> QED BY <1>0, <1>1, <1>2 DEF Leave, Vacates

\* find is unambiguous, so the frame saved is that of the slot that leaves.
LEMMA FoundOnce ==
    ASSUME TableInv, NEW pid, NEW i \in Slots, NEW j \in Slots, Holds(i, pid), Holds(j, pid)
    PROVE  i = j
BY DEF TableInv, PidsUnique, Holds

\* A process that cannot be entered is put back, its registers unread.
LEMMA EnterFailsKeeps == ASSUME TableInv, RegsInv, NEW c \in Cpus, EnterFails(c) PROVE RegsInv'
<1>0. current \in [Cpus -> Nat] /\ CpuTypes
  BY DEF TableInv, TableTypeOK, RegsInv
<1>1. PICK k \in Slots : Found(current[c], k) /\ regs' = [regs EXCEPT ![c].fp = area[k]]
  BY Zenon DEF EnterFails
<1>2. /\ mode[c] = "marked" /\ mode' = [mode EXCEPT ![c] = "idle"]
      /\ console' = (IF Supervise THEN console ELSE "prompt")
      /\ UNCHANGED <<cr3, from, frame, area, work, calls>>
  BY DEF EnterFails
<1>2a. Leave(c, "Ready", FALSE)
  BY Zenon DEF EnterFails, PutBack
<1>2b. Vacates(c, "Ready")
  BY Zenon, <1>2a, LeaveView
<1>3. PICK i \in Slots :
        /\ Found(current[c], i)
        /\ \A j \in Slots : /\ slots'[j].pid = slots[j].pid
                            /\ slots'[j].state = IF j = i THEN "Ready" ELSE slots[j].state
  BY Zenon, <1>2b DEF Vacates
<1>4. /\ current[c] # NoPid /\ UNCHANGED nextPid
      /\ \A d \in Cpus \ {c} : current'[d] = current[d]
  BY <1>2b DEF Vacates
<1>5. CpuTypes'
  BY Zenon, <1>0, <1>1, <1>2 DEF CpuTypes, Modes
<1>6. mode'[c] \notin InAgent /\ \A d \in Cpus \ {c} : mode'[d] = mode[d] /\ regs'[d] = regs[d]
  BY Zenon, <1>0, <1>1, <1>2 DEF CpuTypes, InAgent
<1>7. Holds(i, current[c]) /\ frame[i] = Latest(current[c])
  BY <1>2, <1>3 DEF Found, RegsInv, FrameBehindCpu
<1>8. Relinquished(c, i, "Ready")
  BY Zenon, <1>2, <1>3, <1>4, <1>5, <1>6, <1>7 DEF Relinquished
<1> QED BY <1>8, GivesUp

\* A blocking call saves the frame before the process is marked blocked.
LEMMA ParkKeeps == ASSUME TableInv, RegsInv, NEW c \in Cpus, Park(c) PROVE RegsInv'
<1>0. current \in [Cpus -> Nat] /\ CpuTypes
  BY DEF TableInv, TableTypeOK, RegsInv
<1>1. PICK k \in Slots : /\ Found(current[c], k)
                         /\ frame' = [frame EXCEPT ![k] = regs[c].gp]
                         /\ from' = [from EXCEPT ![c] = k]
  BY Zenon DEF Park
<1>2. /\ mode[c] = "user" /\ mode' = [mode EXCEPT ![c] = "parking"]
      /\ calls[cr3[c]] < MaxCalls /\ calls' = [calls EXCEPT ![cr3[c]] = @ + 1]
      /\ UNCHANGED <<cr3, regs, area, work, console>>
  BY DEF Park
<1>2a. Leave(c, "Blocked", TRUE)
  BY Zenon DEF Park, BlockCurrent
<1>2b. Vacates(c, "Blocked")
  BY Zenon, <1>2a, LeaveView
<1>3. PICK i \in Slots :
        /\ Found(current[c], i)
        /\ \A j \in Slots : /\ slots'[j].pid = slots[j].pid
                            /\ slots'[j].state = IF j = i THEN "Blocked" ELSE slots[j].state
  BY <1>2b DEF Vacates
<1>4. /\ current[c] # NoPid /\ UNCHANGED nextPid
      /\ \A d \in Cpus \ {c} : current'[d] = current[d]
  BY Zenon, <1>2b DEF Vacates
<1>5. Holds(i, current[c]) /\ k = i
  BY <1>1, <1>3, FoundOnce DEF Found
<1>6. regs[c].gp = Latest(current[c]) /\ cr3[c] = current[c] /\ current[c] \in Pids
  <2>1. regs[c].gp = Latest(current[c]) /\ cr3[c] = current[c]
    BY <1>2 DEF RegsInv, RegsOnCpu, TablesOnCpu, InAgent
  <2> QED BY Zenon, <1>4, <2>1, CurrentIsKnown
<1>7. calls' \in [Pids -> 0 .. MaxCalls]
  BY <1>0, <1>2, <1>6, CpuAssumption DEF CpuTypes
<1>8. CpuTypes'
  BY Zenon, <1>0, <1>1, <1>2, <1>7 DEF CpuTypes, Modes
<1>9. mode'[c] \notin InAgent /\ \A d \in Cpus \ {c} : mode'[d] = mode[d] /\ regs'[d] = regs[d]
  BY <1>0, <1>2 DEF CpuTypes, InAgent
<1>10. frame'[i] = Latest(current[c]) /\ \A j \in Slots \ {i} : frame'[j] = frame[j]
  BY Zenon, <1>0, <1>1, <1>5, <1>6 DEF CpuTypes
<1>11. Relinquished(c, i, "Blocked")
  BY Zenon, <1>2, <1>3, <1>4, <1>5, <1>8, <1>9, <1>10 DEF Relinquished
<1> QED BY <1>11, GivesUp

\* An exit or a crash ends the process whose registers the processor holds.
LEMMA EndKeeps == ASSUME TableInv, RegsInv, NEW c \in Cpus, End(c) PROVE RegsInv'
<1>0. current \in [Cpus -> Nat] /\ CpuTypes
  BY DEF TableInv, TableTypeOK, RegsInv
<1>1. PICK st \in {"Zombie", "Crashed"} : Leave(c, st, FALSE)
  BY Zenon DEF End, ExitCurrent, CrashCurrent
<1>2. /\ mode' = [mode EXCEPT ![c] = "leaving"]
      /\ UNCHANGED <<cr3, regs, from, frame, area, work, calls, console>>
  BY DEF End
<1>2b. Vacates(c, st)
  BY Zenon, <1>1, LeaveView
<1>3. PICK i \in Slots :
        /\ Found(current[c], i)
        /\ \A j \in Slots : /\ slots'[j].pid = slots[j].pid
                            /\ slots'[j].state = IF j = i THEN st ELSE slots[j].state
  BY <1>2b DEF Vacates
<1>4. /\ current[c] # NoPid /\ UNCHANGED nextPid
      /\ \A d \in Cpus \ {c} : current'[d] = current[d]
  BY Zenon, <1>2b DEF Vacates
<1>5. CpuTypes'
  BY Zenon, <1>0, <1>2 DEF CpuTypes, Modes
<1>6. mode'[c] \notin InAgent /\ \A d \in Cpus \ {c} : mode'[d] = mode[d]
  BY <1>0, <1>2 DEF CpuTypes, InAgent
<1>7. Holds(i, current[c]) /\ st \notin {"Ready", "Blocked"}
  BY Zenon, <1>3 DEF Found
<1>8. Relinquished(c, i, st)
  BY Zenon, <1>2, <1>3, <1>4, <1>5, <1>6, <1>7 DEF Relinquished
<1> QED BY <1>8, GivesUp

\* A step of a CPU or of the console is a table operation or leaves the table
\* alone.
LEMMA StepRefines == [Next]_vars => [TableNext]_tableVars
<1> SUFFICES ASSUME [Next]_vars PROVE [TableNext]_tableVars
  OBVIOUS
<1>1. CASE Spawn
  BY <1>1 DEF Spawn, TableNext
<1>2. ASSUME NEW pid \in Pids, Reap(pid) PROVE TableNext
  BY <1>2 DEF Reap, TableNext
<1>3. CASE SetTicks
  BY <1>3 DEF SetTicks, TableNext
<1>4. CASE StartRun
  BY <1>4 DEF StartRun, TableNext
<1>5. ASSUME NEW pid \in Pids, Deliver(pid) PROVE TableNext
  BY <1>5 DEF Deliver, TableNext
<1>6. CASE FinishRun
  BY <1>6 DEF FinishRun
<1>7. ASSUME NEW c \in Cpus,
             KernelStep(c) \/ EnterFails(c) \/ Compute(c) \/ Tick(c) \/ Park(c) \/ End(c)
      PROVE  CpuStep(c) \/ UNCHANGED tableVars
  <2>1. CASE Dispatch(c)
    BY Zenon, <2>1 DEF Dispatch, CpuStep
  <2>2. CASE RunOneMarks(c)
    BY Zenon, <2>2 DEF RunOneMarks, CpuStep
  <2>3. CASE EnterRing3(c) \/ SaveRegisters(c) \/ RestoreIncoming(c) \/ Resume(c) \/ Compute(c)
    BY <2>3 DEF EnterRing3, SaveRegisters, RestoreIncoming, Resume, Compute
  <2>4. CASE EnterFails(c)
    BY <2>4 DEF EnterFails, CpuStep
  <2>5. CASE Tick(c)
    BY Zenon, <2>5 DEF Tick, CpuStep
  <2>6. CASE Park(c)
    BY <2>6 DEF Park, CpuStep
  <2>7. CASE End(c)
    BY <2>7 DEF End, CpuStep
  <2> QED BY Zenon, <1>7, <2>1, <2>2, <2>3, <2>4, <2>5, <2>6, <2>7 DEF KernelStep
<1>8. CASE UNCHANGED vars
  BY <1>8 DEF vars
<1> QED BY Zenon, <1>1, <1>2, <1>3, <1>4, <1>5, <1>6, <1>7, <1>8 DEF Next, TableNext

-----------------------------------------------------------------------------
(* Each agent resumes with the general registers it last had. *)

\* The agent changes its registers: no slot and no other CPU holds a copy.
LEMMA ComputeKeeps == ASSUME TableInv, RegsInv, NEW c \in Cpus, Compute(c) PROVE RegsInv'
<1> DEFINE p == cr3[c]
           now == [owner |-> p, progress |-> work[p] + 1]
<1>0. CpuTypes
  BY Zenon DEF RegsInv
<1>1. /\ mode[c] = "user" /\ work[p] < MaxWork[p]
      /\ work' = [work EXCEPT ![p] = @ + 1]
      /\ regs' = [regs EXCEPT ![c] = [gp |-> now, fp |-> now]]
      /\ UNCHANGED <<tableVars, mode, cr3, from, frame, area, calls, console>>
  BY Zenon DEF Compute
<1>2. p = current[c] /\ current[c] # NoPid
  BY <1>1 DEF RegsInv, RegsOnCpu, TablesOnCpu, InAgent
<1>3. p \in Pids /\ p \in Nat /\ work[p] + 1 \in Nat
  <2>1. p \in Pids
    BY <1>2, CurrentIsKnown
  <2> QED BY <1>0, <2>1 DEF Pids, CpuTypes
<1>4. now \in Context
  BY Zenon, <1>3 DEF Context
<1>5. UNCHANGED <<slots, current, nextPid>>
  BY Zenon, <1>1 DEF tableVars
<1>6. regs' \in [Cpus -> [gp : Context, fp : Context]]
  BY Zenon, <1>0, <1>1, <1>4 DEF CpuTypes
<1>7. work' \in [Pids -> Nat] /\ \A q \in Pids : work'[q] \in 0 .. MaxWork[q]
  <2>1. work \in [Pids -> Nat] /\ \A q \in Pids : work[q] \in 0 .. MaxWork[q] /\ MaxWork[q] \in Nat
    BY Zenon, <1>0, CpuAssumption DEF CpuTypes
  <2>2. work[p] < MaxWork[p] /\ work' = [work EXCEPT ![p] = @ + 1]
    BY <1>1
  <2> HIDE DEF p
  <2>3. work' \in [Pids -> Nat]
    BY Zenon, <1>3, <2>1, <2>2
  <2>4. ASSUME NEW q \in Pids PROVE work'[q] \in 0 .. MaxWork[q]
    <3>1. work'[q] = IF q = p THEN work[p] + 1 ELSE work[q]
      BY Zenon, <1>3, <2>1, <2>2
    <3> QED BY <1>3, <2>1, <2>2, <3>1
  <2> QED BY <2>3, <2>4
<1>8. CpuTypes'
  BY Zenon, <1>0, <1>1, <1>6, <1>7 DEF CpuTypes
<1>9. work'[p] = work[p] + 1 /\ \A q \in Pids \ {p} : work'[q] = work[q]
  BY Zenon, <1>0, <1>1, <1>3 DEF CpuTypes
<1>10. regs'[c].gp = now /\ \A d \in Cpus \ {c} : regs'[d] = regs[d]
  BY Zenon, <1>0, <1>1 DEF CpuTypes
<1>11. RegsOnCpu(c)' /\ TablesOnCpu(c)' /\ FrameBehindCpu(c)'
  <2>1. Latest(p)' = now
    <3>0. work[p] \in Nat
      BY Zenon, <1>0, <1>3 DEF CpuTypes
    <3>1. work'[p] # 0 /\ p' = p
      BY <1>1, <1>9, <3>0
    <3> QED BY Zenon, <1>9, <3>1 DEF Latest
  <2>2. mode'[c] = "user" /\ current'[c] = p /\ cr3'[c] = p
    BY Zenon, <1>1, <1>2, <1>5
  <2> QED BY Zenon, <1>2, <1>10, <2>1, <2>2 DEF RegsOnCpu, TablesOnCpu, FrameBehindCpu, Latest
<1>12. ASSUME NEW i \in Slots PROVE RegsInSlot(i)'
  <2> SUFFICES ASSUME slots[i].state \in {"Ready", "Blocked"} PROVE frame'[i] = Latest(slots[i].pid)'
    BY <1>5 DEF RegsInSlot
  <2>1. slots[i].pid # p
    BY <1>2, CurrentRuns DEF Holds
  <2>2. slots[i].pid \in Pids
    BY KnownPid
  <2>3. work'[slots[i].pid] = work[slots[i].pid]
    BY Zenon, <1>9, <2>1, <2>2
  <2> QED BY Zenon, <1>1, <1>5, <2>3 DEF RegsInv, RegsInSlot, Latest
<1> HIDE DEF p, now
<1>13. \A q \in Pids : work'[q] = work[q] \/ (q = current[c] /\ current[c] # NoPid)
  BY <1>2, <1>9
<1> QED BY Zenon, <1>1, <1>5, <1>8, <1>10, <1>11, <1>12, <1>13, StepOfOneCpu

\* tick saves the frame of the process it takes off and hands out that of the next.
LEMMA TickKeeps == ASSUME TableInv, RegsInv, NEW c \in Cpus, Tick(c) PROVE RegsInv'
<1>0. slots \in [Slots -> Process] /\ current \in [Cpus -> Nat] /\ CpuTypes
  BY DEF TableInv, TableTypeOK, RegsInv
<1>1. mode[c] = "user" /\ UNCHANGED <<cr3, area, work, calls, console>>
  BY DEF Tick
<1>2. ASSUME NEW i \in Slots, TickContinue(c, i), UNCHANGED <<mode, regs, from, frame>>
      PROVE  RegsInv'
  <2>1. slots' = [slots EXCEPT ![i].ticks = @ + 1] /\ UNCHANGED <<current, nextPid>>
    BY <1>2 DEF TickContinue
  <2>2. \A j \in Slots : slots'[j].pid = slots[j].pid /\ slots'[j].state = slots[j].state
    BY Zenon, <1>0, <2>1 DEF Process
  <2>3. CpuTypes'
    BY Zenon, <1>0, <1>1, <1>2 DEF CpuTypes
  <2>4. TablesOnCpu(c)'
    BY Zenon, <1>1, <1>2, <2>1 DEF RegsInv, TablesOnCpu
  <2> QED BY Zenon, <1>1, <1>2, <2>1, <2>2, <2>3, <2>4, QuietStep
<1>3. ASSUME NEW i \in Slots, TickKill(c, i), mode' = [mode EXCEPT ![c] = "leaving"],
             UNCHANGED <<regs, from, frame>>
      PROVE  RegsInv'
  <2>1. /\ current[c] # NoPid /\ Holds(i, current[c]) /\ UNCHANGED nextPid
        /\ slots' = [slots EXCEPT ![i].ticks = @ + 1, ![i].state = "Killed", ![i].scheduled = FALSE]
        /\ current' = [current EXCEPT ![c] = NoPid]
    BY <1>3 DEF TickKill, Charged, Found
  <2>2. \A j \in Slots : /\ slots'[j].pid = slots[j].pid
                         /\ slots'[j].state = IF j = i THEN "Killed" ELSE slots[j].state
    BY Zenon, <1>0, <2>1 DEF Process
  <2>3. CpuTypes'
    BY Zenon, <1>0, <1>1, <1>3 DEF CpuTypes, Modes
  <2>4. mode'[c] \notin InAgent /\ \A d \in Cpus \ {c} : mode'[d] = mode[d] /\ current'[d] = current[d]
    BY Zenon, <1>0, <1>3, <2>1 DEF CpuTypes, InAgent
  <2>5. Relinquished(c, i, "Killed")
    BY Zenon, <1>1, <1>3, <2>1, <2>2, <2>3, <2>4 DEF Relinquished
  <2> QED BY Zenon, <2>5, GivesUp
<1>4. ASSUME NEW i \in Slots, NEW n \in Slots, TickSwitch(c, i, n),
             frame' = [frame EXCEPT ![i] = regs[c].gp], regs' = [regs EXCEPT ![c].gp = frame[n]],
             from' = [from EXCEPT ![c] = i], mode' = [mode EXCEPT ![c] = "switching"]
      PROVE  RegsInv'
  <2>1. /\ current[c] # NoPid /\ Holds(i, current[c]) /\ UNCHANGED nextPid /\ slots[n].state = "Ready"
        /\ slots' = [slots EXCEPT ![i].ticks = @ + 1, ![i].state = "Ready", ![n] = Dispatched(@, c)]
        /\ current' = [current EXCEPT ![c] = slots[n].pid]
    BY <1>4 DEF TickSwitch, Charged, Found, NextRunnable, OwnQueue, Runnable
  <2>2. slots[i].state = "Running" /\ slots[i].home = c /\ slots[i].pid = current[c] /\ i # n
    BY <2>1, CurrentRuns DEF Holds
  <2>3. \A j \in Slots :
          /\ slots'[j].pid = slots[j].pid
          /\ slots'[j].state = IF j = i THEN "Ready" ELSE IF j = n THEN "Running" ELSE slots[j].state
    BY <1>0, <2>1, <2>2 DEF Process, Dispatched
  <2>4. regs[c].gp = Latest(current[c]) /\ frame[n] = Latest(slots[n].pid)
    BY <1>1, <2>1 DEF RegsInv, RegsOnCpu, RegsInSlot, InAgent
  <2>5. slots[n].pid # NoPid
    BY <2>1, KnownPid
  <2>6. CpuTypes'
    BY Zenon, <1>0, <1>1, <1>4 DEF CpuTypes, Modes
  <2>7. /\ mode'[c] = "switching" /\ current'[c] = slots[n].pid /\ regs'[c].gp = frame[n]
        /\ \A d \in Cpus \ {c} : /\ mode'[d] = mode[d] /\ cr3'[d] = cr3[d]
                                 /\ regs'[d] = regs[d] /\ current'[d] = current[d]
    BY Zenon, <1>0, <1>1, <1>4, <2>1 DEF CpuTypes
  <2>8. frame'[i] = regs[c].gp /\ \A j \in Slots \ {i} : frame'[j] = frame[j]
    BY Zenon, <1>0, <1>4 DEF CpuTypes
  <2>9. RegsOnCpu(c)' /\ TablesOnCpu(c)' /\ FrameBehindCpu(c)'
    BY Zenon, <1>1, <2>4, <2>5, <2>7 DEF RegsOnCpu, TablesOnCpu, FrameBehindCpu, Latest
  <2>10. ASSUME NEW j \in Slots PROVE RegsInSlot(j)'
    <3>0. slots'[j].pid = slots[j].pid /\ Latest(slots[j].pid)' = Latest(slots[j].pid)
      <4>1. slots'[j].pid = slots[j].pid /\ work' = work
        BY Zenon, <1>1, <2>3
      <4> QED BY Zenon, <4>1 DEF Latest
    <3>1. CASE j = i
      <4>1. frame'[j] = Latest(slots[j].pid)
        BY Zenon, <2>2, <2>4, <2>8, <3>1
      <4> QED BY Zenon, <3>0, <4>1 DEF RegsInSlot
    <3>2. CASE j # i
      <4>1. frame'[j] = frame[j] /\ slots'[j].state = IF j = n THEN "Running" ELSE slots[j].state
        BY Zenon, <2>3, <2>8, <3>2
      <4>2. slots'[j].state \in {"Ready", "Blocked"} => slots[j].state \in {"Ready", "Blocked"}
        BY <4>1
      <4> QED BY Zenon, <3>0, <4>1, <4>2 DEF RegsInv, RegsInSlot
    <3> QED BY Zenon, <3>1, <3>2
  <2>11. \A j \in Slots : slots'[j].state # "Free" => slots'[j].pid = slots[j].pid /\ slots[j].state # "Free"
    BY Zenon, <2>1, <2>2, <2>3
  <2>12. \A j \in Slots : slots[j].state = "Running" /\ slots[j].home # c => frame'[j] = frame[j]
    BY <2>2, <2>8
  <2> QED BY Zenon, <1>1, <2>1, <2>6, <2>7, <2>9, <2>10, <2>11, <2>12, StepOfOneCpu
<1> QED BY Zenon, <1>2, <1>3, <1>4 DEF Tick

\* Every step of the processors, the timer and the console keeps the registers with their owner.
LEMMA RegsNext == TableInv /\ RegsInv /\ [Next]_vars => RegsInv'
<1> SUFFICES ASSUME TableInv, RegsInv, [Next]_vars PROVE RegsInv'
  OBVIOUS
<1>1. CASE Spawn
  BY <1>1, SpawnKeeps
<1>2. CASE SetTicks \/ StartRun \/ FinishRun \/ \E pid \in Pids : Reap(pid) \/ Deliver(pid)
  BY Zenon, <1>2, ConsoleKeeps
<1>3. ASSUME NEW c \in Cpus,
             KernelStep(c) \/ EnterFails(c) \/ Compute(c) \/ Tick(c) \/ Park(c) \/ End(c)
      PROVE  RegsInv'
  <2>1. CASE Dispatch(c)
    BY <2>1, DispatchKeeps
  <2>2. CASE RunOneMarks(c) \/ EnterRing3(c) \/ SaveRegisters(c) \/ RestoreIncoming(c) \/ Resume(c)
    BY Zenon, <2>2, QuietKeeps
  <2>3. CASE EnterFails(c)
    BY <2>3, EnterFailsKeeps
  <2>4. CASE Compute(c)
    BY <2>4, ComputeKeeps
  <2>5. CASE Tick(c)
    BY <2>5, TickKeeps
  <2>6. CASE Park(c)
    BY <2>6, ParkKeeps
  <2>7. CASE End(c)
    BY <2>7, EndKeeps
  <2> QED BY Zenon, <1>3, <2>1, <2>2, <2>3, <2>4, <2>5, <2>6, <2>7 DEF KernelStep
<1>4. CASE UNCHANGED vars
  <2>1. UNCHANGED <<cpuVars, current, nextPid, slots, console>>
    BY <1>4 DEF vars, tableVars
  <2>2. console' \in {"prompt", "run"}
    BY <2>1 DEF RegsInv, CpuTypes
  <2> QED BY Zenon, <2>1, <2>2, SlotsKept
<1> QED BY Zenon, <1>1, <1>2, <1>3, <1>4 DEF Next

\* On any number of CPUs, through preemption, blocking and stealing, an agent in
\* ring 3 has the general registers it last had, and is the process that CPU's
\* ticks are charged to (tick, block_current, run_one).
THEOREM RegistersAreOwn == Spec => []RunsItsOwnState
<1>1. Init => TableInv /\ RegsInv
  BY InitInv, RegsInit DEF Init
<1>2. TableInv /\ RegsInv /\ [Next]_vars => (TableInv /\ RegsInv)'
  BY StepRefines, NextInv, RegsNext
<1>3. TableInv /\ RegsInv => RunsItsOwnState
  <2> SUFFICES ASSUME TableInv, RegsInv PROVE RunsItsOwnState
    OBVIOUS
  <2>1. TypeOK
    BY Zenon DEF TableInv, RegsInv, CpuTypes, TypeOK
  <2>2. ASSUME NEW c \in Cpus, mode[c] = "user"
        PROVE  regs[c].gp = Latest(cr3[c]) /\ cr3[c] = current[c] /\ current[c] # NoPid
    BY Zenon, <2>2 DEF RegsInv, RegsOnCpu, TablesOnCpu, InAgent
  <2>3. FrameIntact
    BY <2>2 DEF FrameIntact
  <2>4. ExecutingIsCurrent
    BY <2>2, CurrentDiffer DEF ExecutingIsCurrent
  <2> QED BY <2>1, <2>3, <2>4 DEF RunsItsOwnState
<1> QED BY <1>1, <1>2, <1>3, PTL DEF Spec

-----------------------------------------------------------------------------
(* The console's CPU alone: FPU registers and page tables. *)

\* fpu::save is due after the table lock was released.
Saving(c) == mode[c] \in {"switching", "parking"}

\* The process of slot i has its FPU registers in the slot's area: it is not in
\* ring 3, and the CPU it left does not have to save them first.
InArea(c, i) ==
    /\ slots[i].state \in {"Ready", "Blocked", "Running"}
    /\ ~(slots[i].state = "Running" /\ mode[c] = "user")
    /\ ~(Saving(c) /\ i = from[c])
AreaKept(c, i) == InArea(c, i) => area[i] = Latest(slots[i].pid)

FpuOnCpu(c) ==
    /\ mode[c] = "user" => regs[c].fp = Latest(current[c])
    /\ Saving(c) => /\ slots[from[c]].state \in {"Ready", "Blocked"}
                    /\ regs[c].fp = Latest(slots[from[c]].pid)
TablesLoaded(c) ==
    /\ mode[c] \in {"idle", "dispatched", "marked"} => cr3[c] = NoPid
    /\ cr3[c] # NoPid => \E i \in Slots : Holds(i, cr3[c])
ConsoleWaits(c) ==
    /\ mode[c] # "idle" => console = "run"
    /\ mode[c] \notin InAgent => current[c] = NoPid

FpuInv(c) ==
    ConsoleWaits(c) /\ TablesLoaded(c) /\ FpuOnCpu(c) /\ \A i \in Slots : AreaKept(c, i)

\* A running process is the current one of the only CPU.
LEMMA OnlyRuns ==
    ASSUME TableInv, RegsInv, NEW c \in Cpus, Cpus = {c},
           NEW i \in Slots, slots[i].state = "Running"
    PROVE  current[c] # NoPid /\ slots[i].pid = current[c] /\ Holds(i, current[c])
<1>1. slots[i].home = c /\ current[slots[i].home] = slots[i].pid
  BY DEF TableInv, OneCpuPerProcess
<1>2. slots[i].pid # NoPid
  BY KnownPid
<1> QED BY Zenon, <1>1, <1>2 DEF Holds

\* No process but that of slot i runs.
LEMMA OthersWait ==
    ASSUME TableInv, RegsInv, NEW c \in Cpus, Cpus = {c}, NEW i \in Slots, Holds(i, current[c])
    PROVE  \A j \in Slots \ {i} : slots[j].state # "Running"
BY Zenon, OnlyRuns, FoundOnce

\* A step that changes nobody's registers leaves the areas valid that were and are in use.
LEMMA AreasStay ==
    ASSUME NEW c, FpuInv(c), work' = work,
           \A i \in Slots : InArea(c, i)' => /\ InArea(c, i)
                                             /\ slots'[i].pid = slots[i].pid /\ area'[i] = area[i]
    PROVE  \A i \in Slots : AreaKept(c, i)'
<1> SUFFICES ASSUME NEW i \in Slots, InArea(c, i)' PROVE area'[i] = Latest(slots[i].pid)'
  BY Zenon DEF AreaKept
<1>1. InArea(c, i) /\ slots'[i].pid = slots[i].pid /\ area'[i] = area[i]
  OBVIOUS
<1>2. area[i] = Latest(slots[i].pid)
  BY Zenon, <1>1 DEF FpuInv, AreaKept
<1>3. Latest(slots[i].pid)' = Latest(slots[i].pid)
  BY Zenon, <1>1 DEF Latest
<1> QED BY Zenon, <1>1, <1>2, <1>3

\* What the console does while the CPU is its own.
LEMMA IdleKeeps ==
    ASSUME NEW c, FpuInv(c), mode[c] = "idle",
           UNCHANGED <<mode, cr3, regs, from, work, current>>,
           \A i \in Slots : slots'[i].state \in {"Ready", "Blocked", "Running"} =>
               \/ /\ slots[i].state \in {"Ready", "Blocked", "Running"}
                  /\ slots'[i].pid = slots[i].pid /\ area'[i] = area[i]
               \/ area'[i] = Fresh /\ work[slots'[i].pid] = 0
    PROVE  FpuInv(c)'
<1>1. mode'[c] = "idle" /\ cr3'[c] = NoPid /\ current'[c] = NoPid
  BY Zenon DEF FpuInv, ConsoleWaits, TablesLoaded, InAgent
<1>2. ConsoleWaits(c)' /\ TablesLoaded(c)' /\ FpuOnCpu(c)'
  BY Zenon, <1>1 DEF ConsoleWaits, TablesLoaded, FpuOnCpu, Saving
<1>3. ASSUME NEW i \in Slots, InArea(c, i)' PROVE area'[i] = Latest(slots[i].pid)'
  <2>1. slots'[i].state \in {"Ready", "Blocked", "Running"} /\ work' = work
    BY Zenon, <1>3 DEF InArea
  <2>2. CASE /\ slots[i].state \in {"Ready", "Blocked", "Running"}
             /\ slots'[i].pid = slots[i].pid /\ area'[i] = area[i]
    <3>1. InArea(c, i)
      BY Zenon, <2>2 DEF InArea, Saving
    <3>2. area[i] = Latest(slots[i].pid)
      BY Zenon, <3>1 DEF FpuInv, AreaKept
    <3> QED BY Zenon, <2>1, <2>2, <3>2 DEF Latest
  <2>3. CASE area'[i] = Fresh /\ work[slots'[i].pid] = 0
    BY Zenon, <2>1, <2>3 DEF Latest
  <2> QED BY Zenon, <2>1, <2>2, <2>3
<1> QED BY Zenon, <1>2, <1>3 DEF FpuInv, AreaKept

\* The console's commands run only while the CPU has no agent; a new process starts
\* with fresh registers.
LEMMA CommandKeepsFpu ==
    ASSUME TableInv, RegsInv, NEW c \in Cpus, Cpus = {c}, c = 0, FpuInv(c),
           \/ Spawn \/ SetTicks \/ StartRun \/ FinishRun
           \/ \E pid \in Pids : Reap(pid) \/ Deliver(pid)
    PROVE  FpuInv(c)'
<1>0. slots \in [Slots -> Process] /\ nextPid \in Nat
  BY DEF TableInv, TableTypeOK
<1>1. mode[c] = "idle"
  <2>1. console = "prompt" \/ ConsoleFree
    BY Zenon DEF Spawn, SetTicks, StartRun, FinishRun, Reap, Deliver
  <2>2. ConsoleFree => mode[c] = "idle"
    BY Zenon DEF ConsoleFree, Supervise
  <2>3. console = "prompt" => mode[c] = "idle"
    BY DEF FpuInv, ConsoleWaits
  <2> QED BY Zenon, <2>1, <2>2, <2>3
<1>2. CASE Spawn
  <2> DEFINE taken == {i \in Slots : slots'[i] # slots[i]}
  <2>1. /\ UNCHANGED <<mode, cr3, regs, from, work, current>>
        /\ area' = [i \in Slots |-> IF i \in taken THEN Fresh ELSE area[i]]
    BY Zenon, <1>2 DEF Spawn, Register
  <2>2. \A i \in taken : slots'[i].pid = nextPid
    BY Zenon, <1>0, <1>2, SpawnTakes
  <2>3. work[nextPid] = 0
    BY <1>0, <1>2, TableAssumption DEF RegsInv, PidsFresh, Pids, Spawn, Register, TableInv, TableTypeOK
  <2>4. \A i \in Slots : \/ slots'[i] = slots[i] /\ area'[i] = area[i]
                         \/ area'[i] = Fresh /\ work[slots'[i].pid] = 0
    BY Zenon, <2>1, <2>2, <2>3
  <2> QED BY Zenon, <1>1, <2>1, <2>4, IdleKeeps
<1>3. CASE SetTicks \/ FinishRun
  <2>1. UNCHANGED <<slots, current, cpuVars>>
    BY <1>3 DEF SetTicks, SetSliceTicks, SetBudgetTicks, FinishRun, tableVars
  <2> QED BY Zenon, <1>1, <2>1, IdleKeeps DEF cpuVars
<1>4. CASE StartRun
  <2>1. PICK picked : Mark(picked) /\ UNCHANGED cpuVars
    BY Zenon, <1>4 DEF StartRun, SelectAllReady, SelectOne
  <2>2. \A i \in Slots : slots'[i].pid = slots[i].pid /\ slots'[i].state = slots[i].state
    BY Zenon, <1>0, <2>1, MarkView
  <2>3. UNCHANGED <<current, cpuVars>>
    BY Zenon, <2>1 DEF Mark
  <2> QED BY Zenon, <1>1, <2>2, <2>3, IdleKeeps DEF cpuVars
<1>5. ASSUME NEW pid \in Pids, Reap(pid) PROVE FpuInv(c)'
  <2>1. PICK i \in Slots : slots' = [slots EXCEPT ![i] = FreeSlot]
    BY <1>5, Zenon DEF Reap, TakeForReap
  <2>2. \A j \in Slots : slots'[j].state = "Free" \/ slots'[j] = slots[j]
    BY <1>0, <2>1 DEF FreeSlot
  <2>3. UNCHANGED <<current, cpuVars>>
    BY Zenon, <1>5 DEF Reap, TakeForReap
  <2>4. \A j \in Slots : slots'[j].state \in {"Ready", "Blocked", "Running"} => slots'[j] = slots[j]
    BY <2>2
  <2> QED BY Zenon, <1>1, <2>3, <2>4, IdleKeeps DEF cpuVars
<1>6. ASSUME NEW pid \in Pids, Deliver(pid) PROVE FpuInv(c)'
  <2>1. PICK i \in Slots : slots[i].state = "Blocked" /\ slots' = [slots EXCEPT ![i].state = "Ready"]
    BY <1>6, Zenon DEF Deliver, Unblock
  <2>2. \A j \in Slots : slots'[j].pid = slots[j].pid /\ (j = i \/ slots'[j].state = slots[j].state)
    BY Zenon, <1>0, <2>1 DEF Process
  <2>3. UNCHANGED <<current, cpuVars>>
    BY Zenon, <1>6 DEF Deliver, Unblock
  <2> QED BY Zenon, <1>1, <2>1, <2>2, <2>3, IdleKeeps DEF cpuVars
<1> QED BY Zenon, <1>2, <1>3, <1>4, <1>5, <1>6

\* run_one before ring 3: the process's registers stay in its area.
LEMMA EntryKeepsFpu ==
    ASSUME TableInv, RegsInv, NEW c \in Cpus, Cpus = {c}, c = 0, FpuInv(c),
           Dispatch(c) \/ RunOneMarks(c)
    PROVE  FpuInv(c)'
<1>0. slots \in [Slots -> Process] /\ mode \in [Cpus -> Modes]
  BY DEF TableInv, TableTypeOK, RegsInv, CpuTypes
<1>1. /\ mode[c] \in {"idle", "dispatched"} /\ mode'[c] \in {"dispatched", "marked"}
      /\ UNCHANGED <<cr3, area, work, console>>
  BY Zenon, <1>0 DEF Dispatch, RunOneMarks
<1>2. console = "run" /\ cr3[c] = NoPid
  <2>1. Dispatch(c) => console = "run"
    BY Zenon DEF Dispatch, Supervise
  <2>2. RunOneMarks(c) => console = "run"
    BY DEF RunOneMarks, FpuInv, ConsoleWaits
  <2> QED BY <1>1, <2>1, <2>2 DEF FpuInv, TablesLoaded
<1>3. \A j \in Slots : /\ slots'[j].pid = slots[j].pid
                       /\ \/ slots'[j].state = slots[j].state
                          \/ slots[j].state = "Ready"
  <2>1. CASE Dispatch(c)
    <3>1. PICK i \in Slots : slots[i].state = "Ready" /\ slots' = [slots EXCEPT ![i] = Dispatched(slots[i], c)]
      BY Zenon, <2>1 DEF Dispatch, DispatchNext, NextRunnable, OwnQueue, Runnable
    <3> QED BY <1>0, <3>1 DEF Process, Dispatched
  <2>2. CASE RunOneMarks(c)
    <3>1. slots' = slots \/ \E i \in Slots : slots' = [slots EXCEPT ![i].started = TRUE]
      BY Zenon, <2>2 DEF RunOneMarks, MarkStarted, tableVars
    <3>2. ASSUME NEW i \in Slots, slots' = [slots EXCEPT ![i].started = TRUE], NEW j \in Slots
          PROVE  slots'[j].pid = slots[j].pid /\ slots'[j].state = slots[j].state
      BY Zenon, <1>0, <3>2 DEF Process
    <3> QED BY Zenon, <3>1, <3>2
  <2> QED BY Zenon, <2>1, <2>2
<1>4. ConsoleWaits(c)' /\ TablesLoaded(c)' /\ FpuOnCpu(c)'
  BY <1>1, <1>2 DEF ConsoleWaits, TablesLoaded, FpuOnCpu, Saving, InAgent
<1>5. \A j \in Slots : InArea(c, j)' => InArea(c, j)
  BY <1>1, <1>3 DEF InArea, Saving
<1>6. \A j \in Slots : AreaKept(c, j)'
  BY Zenon, <1>1, <1>3, <1>5, AreasStay
<1> QED BY Zenon, <1>4, <1>6 DEF FpuInv

\* fpu::restore hands the process its area, and its page tables are loaded.
LEMMA RestoreKeepsFpu ==
    ASSUME TableInv, RegsInv, NEW c \in Cpus, Cpus = {c}, FpuInv(c),
           EnterRing3(c) \/ RestoreIncoming(c)
    PROVE  FpuInv(c)'
<1>0. CpuTypes
  BY DEF RegsInv
<1>1. PICK i \in Slots : Found(current[c], i) /\ regs' = [regs EXCEPT ![c].fp = area[i]]
  BY Zenon DEF EnterRing3, RestoreIncoming
<1>2. /\ mode[c] \in {"marked", "incoming"} /\ mode' = [mode EXCEPT ![c] = "user"]
      /\ cr3' = [cr3 EXCEPT ![c] = current[c]]
      /\ UNCHANGED <<tableVars, from, frame, area, work, calls, console>>
  BY Zenon DEF EnterRing3, RestoreIncoming
<1>3. /\ mode'[c] = "user" /\ cr3'[c] = current[c] /\ regs'[c].fp = area[i]
      /\ UNCHANGED <<slots, current, work, area, console>>
  BY Zenon, <1>0, <1>1, <1>2 DEF CpuTypes, tableVars
<1>4. current[c] # NoPid /\ Holds(i, current[c]) /\ slots[i].state = "Running"
  <2>1. current[c] # NoPid /\ Holds(i, current[c])
    BY <1>1, <1>2 DEF RegsInv, RegsOnCpu, InAgent, Found
  <2> QED BY <2>1, CurrentRuns
<1>5. area[i] = Latest(current[c])
  <2>1. InArea(c, i) /\ slots[i].pid = current[c]
    BY <1>2, <1>4 DEF InArea, Saving, Holds
  <2> QED BY Zenon, <2>1 DEF FpuInv, AreaKept
<1>6. ConsoleWaits(c)'
  <2>1. console = "run"
    BY <1>2 DEF FpuInv, ConsoleWaits
  <2> QED BY <1>3, <2>1 DEF ConsoleWaits, InAgent
<1>7. TablesLoaded(c)'
  <2>1. Holds(i, cr3[c])'
    BY Zenon, <1>3, <1>4 DEF Holds
  <2> QED BY <1>3, <2>1 DEF TablesLoaded
<1>8. FpuOnCpu(c)'
  <2>1. Latest(current[c])' = Latest(current[c])
    BY Zenon, <1>3 DEF Latest
  <2>2. ~Saving(c)'
    BY <1>3 DEF Saving
  <2> QED BY Zenon, <1>3, <1>5, <2>1, <2>2 DEF FpuOnCpu
<1>9. \A j \in Slots : InArea(c, j)' => InArea(c, j)
  BY <1>2, <1>3 DEF InArea, Saving
<1>10. \A j \in Slots : AreaKept(c, j)'
  BY Zenon, <1>3, <1>9, AreasStay
<1> QED BY Zenon, <1>6, <1>7, <1>8, <1>10 DEF FpuInv

\* The process in slot i is taken off the CPU and may not run on, or never ran: what is in
\* the areas stays there.
LEMMA LeaveKeepsFpu ==
    ASSUME TableInv, RegsInv, NEW c \in Cpus, Cpus = {c}, FpuInv(c),
           NEW st, NEW i \in Slots, Holds(i, current[c]),
           \A j \in Slots : /\ slots'[j].pid = slots[j].pid
                            /\ slots'[j].state = IF j = i THEN st ELSE slots[j].state,
           UNCHANGED <<cr3, area, work>>, current'[c] = NoPid,
           \/ /\ mode[c] = "user" /\ mode'[c] = "leaving" /\ console' = console
              /\ st \in {"Zombie", "Crashed", "Killed"}
           \/ mode[c] = "marked" /\ mode'[c] = "idle" /\ st = "Ready"
    PROVE  FpuInv(c)'
<1>0. st # "Free" /\ (mode[c] = "marked" => cr3[c] = NoPid)
  BY Zenon DEF FpuInv, TablesLoaded
<1>1. ConsoleWaits(c)'
  <2>1. mode[c] = "user" => console = "run"
    BY Zenon DEF FpuInv, ConsoleWaits
  <2> QED BY Zenon, <2>1 DEF ConsoleWaits
<1>2. TablesLoaded(c)'
  <2>1. \A j \in Slots : Holds(j, cr3[c]) => Holds(j, cr3[c])'
    BY Zenon, <1>0 DEF Holds
  <2>2. mode'[c] \notin {"dispatched", "marked"} /\ (mode'[c] = "idle" => mode[c] = "marked")
    BY Zenon
  <2> QED BY Zenon, <1>0, <2>1, <2>2 DEF FpuInv, TablesLoaded
<1>3. FpuOnCpu(c)'
  BY Zenon DEF FpuOnCpu, Saving
<1>4. ASSUME NEW j \in Slots, InArea(c, j)' PROVE InArea(c, j)
  <2>1. CASE j = i
    <3>1. mode[c] = "marked" /\ slots[i].state = "Running"
      <4>1. mode[c] = "marked"
        BY Zenon, <1>4, <2>1 DEF InArea
      <4>2. current[c] # NoPid
        BY Zenon, <4>1 DEF RegsInv, RegsOnCpu, InAgent
      <4> QED BY Zenon, <4>1, <4>2, CurrentRuns
    <3> QED BY <2>1, <3>1 DEF InArea, Saving
  <2>2. CASE j # i
    <3>1. slots[j].state # "Running"
      BY Zenon, <2>2, OthersWait
    <3> QED BY <1>4, <2>2, <3>1 DEF InArea, Saving
  <2> QED BY Zenon, <2>1, <2>2
<1>5. \A j \in Slots : AreaKept(c, j)'
  BY Zenon, <1>4, AreasStay
<1> QED BY Zenon, <1>1, <1>2, <1>3, <1>5 DEF FpuInv

\* The process in slot i is taken off the CPU to go on later: its FPU registers are still
\* in the CPU, to be saved next.
LEMMA DepartKeepsFpu ==
    ASSUME TableInv, RegsInv, NEW c \in Cpus, Cpus = {c}, FpuInv(c),
           NEW st \in {"Ready", "Blocked"}, NEW i \in Slots, Holds(i, current[c]), current[c] # NoPid,
           \A j \in Slots :
             /\ slots'[j].pid = slots[j].pid
             /\ IF j = i THEN slots'[j].state = st
                         ELSE slots'[j].state = slots[j].state \/ slots[j].state = "Ready",
           UNCHANGED <<cr3, area, work, console>>, mode[c] = "user", from'[c] = i,
           regs'[c].fp = regs[c].fp,
           mode'[c] = "switching" \/ (mode'[c] = "parking" /\ current'[c] = NoPid),
           \A j \in Slots : slots'[j].state # "Free" \/ slots[j].state = "Free"
    PROVE  FpuInv(c)'
<1>1. ConsoleWaits(c)'
  <2>1. console = "run"
    BY Zenon DEF FpuInv, ConsoleWaits
  <2>2. "switching" \in InAgent
    BY Zenon DEF InAgent
  <2> QED BY Zenon, <2>1, <2>2 DEF ConsoleWaits
<1>2. TablesLoaded(c)'
  <2>1. \A j \in Slots : Holds(j, cr3[c]) => Holds(j, cr3[c])'
    BY Zenon DEF Holds
  <2> QED BY Zenon, <2>1 DEF FpuInv, TablesLoaded
<1>3. FpuOnCpu(c)'
  <2>1. regs[c].fp = Latest(current[c]) /\ slots'[i].pid = current[c]
    BY DEF FpuInv, FpuOnCpu, Holds
  <2>2. Latest(slots[i].pid)' = Latest(current[c])
    BY Zenon, <2>1 DEF Latest
  <2>3. mode'[c] # "user" /\ slots'[i].state \in {"Ready", "Blocked"}
    BY Zenon
  <2>4. regs'[c].fp = Latest(slots[from[c]].pid)'
    BY Zenon, <2>1, <2>2 DEF Latest
  <2> QED BY Zenon, <2>3, <2>4 DEF FpuOnCpu
<1>4. ASSUME NEW j \in Slots, InArea(c, j)' PROVE InArea(c, j)
  <2>1. j # i
    BY Zenon, <1>4 DEF InArea, Saving
  <2>2. slots[j].state # "Running"
    BY Zenon, <2>1, OthersWait
  <2>3. slots[j].state \in {"Ready", "Blocked", "Running"}
    BY Zenon, <1>4, <2>1 DEF InArea
  <2>4. ~Saving(c)
    BY Zenon DEF Saving
  <2> QED BY Zenon, <2>2, <2>3, <2>4 DEF InArea
<1>5. \A j \in Slots : AreaKept(c, j)'
  BY Zenon, <1>4, AreasStay
<1> QED BY Zenon, <1>1, <1>2, <1>3, <1>5 DEF FpuInv

\* An exit, a crash or an entry that fails.
LEMMA EndKeepsFpu ==
    ASSUME TableInv, RegsInv, NEW c \in Cpus, Cpus = {c}, FpuInv(c), End(c) \/ EnterFails(c)
    PROVE  FpuInv(c)'
<1>0. current \in [Cpus -> Nat] /\ mode \in [Cpus -> Modes]
  BY DEF TableInv, TableTypeOK, RegsInv, CpuTypes
<1>1. PICK st : /\ Leave(c, st, FALSE)
                /\ \/ /\ mode[c] = "user" /\ mode' = [mode EXCEPT ![c] = "leaving"]
                      /\ console' = console /\ st \in {"Zombie", "Crashed", "Killed"}
                   \/ mode[c] = "marked" /\ mode' = [mode EXCEPT ![c] = "idle"] /\ st = "Ready"
  BY Zenon DEF End, ExitCurrent, CrashCurrent, EnterFails, PutBack
<1>2. UNCHANGED <<cr3, area, work>>
  BY Zenon DEF End, EnterFails
<1>3. Vacates(c, st)
  BY Zenon, <1>1, LeaveView
<1>4. PICK i \in Slots :
        /\ Found(current[c], i)
        /\ \A j \in Slots : /\ slots'[j].pid = slots[j].pid
                            /\ slots'[j].state = IF j = i THEN st ELSE slots[j].state
  BY Zenon, <1>3 DEF Vacates
<1>5. current'[c] = NoPid
  BY Zenon, <1>0, <1>1 DEF Leave
<1>6. \/ /\ mode[c] = "user" /\ mode'[c] = "leaving" /\ console' = console
         /\ st \in {"Zombie", "Crashed", "Killed"}
      \/ mode[c] = "marked" /\ mode'[c] = "idle" /\ st = "Ready"
  BY Zenon, <1>0, <1>1
<1>7. Holds(i, current[c])
  BY Zenon, <1>4 DEF Found
<1> QED BY Zenon, <1>2, <1>4, <1>5, <1>6, <1>7, LeaveKeepsFpu

\* A blocking call.
LEMMA ParkKeepsFpu ==
    ASSUME TableInv, RegsInv, NEW c \in Cpus, Cpus = {c}, FpuInv(c), Park(c)
    PROVE  FpuInv(c)'
<1>0. current \in [Cpus -> Nat] /\ mode \in [Cpus -> Modes] /\ from \in [Cpus -> Slots]
  BY DEF TableInv, TableTypeOK, RegsInv, CpuTypes
<1>1. PICK k \in Slots : Found(current[c], k) /\ from' = [from EXCEPT ![c] = k]
  BY Zenon DEF Park
<1>2. /\ Leave(c, "Blocked", TRUE) /\ mode[c] = "user" /\ mode' = [mode EXCEPT ![c] = "parking"]
      /\ UNCHANGED <<cr3, regs, area, work, console>>
  BY Zenon DEF Park, BlockCurrent
<1>3. Vacates(c, "Blocked")
  BY Zenon, <1>2, LeaveView
<1>4. PICK i \in Slots :
        /\ Found(current[c], i)
        /\ \A j \in Slots : /\ slots'[j].pid = slots[j].pid
                            /\ slots'[j].state = IF j = i THEN "Blocked" ELSE slots[j].state
  BY Zenon, <1>3 DEF Vacates
<1>5. k = i /\ Holds(i, current[c])
  BY Zenon, <1>1, <1>4, FoundOnce DEF Found
<1>6. /\ current[c] # NoPid /\ current'[c] = NoPid /\ mode'[c] = "parking"
      /\ from'[c] = i /\ regs'[c].fp = regs[c].fp
  BY Zenon, <1>0, <1>1, <1>2, <1>5 DEF Leave
<1>7. \A j \in Slots :
        /\ slots'[j].pid = slots[j].pid
        /\ IF j = i THEN slots'[j].state = "Blocked"
                    ELSE slots'[j].state = slots[j].state \/ slots[j].state = "Ready"
  BY Zenon, <1>4
<1>8. \A j \in Slots : slots'[j].state # "Free" \/ slots[j].state = "Free"
  BY <1>4
<1> QED BY Zenon, <1>2, <1>5, <1>6, <1>7, <1>8, DepartKeepsFpu

\* A timer tick in ring 3.
LEMMA TickKeepsFpu ==
    ASSUME TableInv, RegsInv, NEW c \in Cpus, Cpus = {c}, FpuInv(c), Tick(c)
    PROVE  FpuInv(c)'
<1>0. slots \in [Slots -> Process] /\ current \in [Cpus -> Nat] /\ CpuTypes
  BY DEF TableInv, TableTypeOK, RegsInv
<1>1. mode[c] = "user" /\ UNCHANGED <<cr3, area, work, console>>
  BY DEF Tick
<1>2. ASSUME NEW i \in Slots, TickContinue(c, i), UNCHANGED <<mode, regs, from, frame>>
      PROVE  FpuInv(c)'
  <2>1. slots' = [slots EXCEPT ![i].ticks = @ + 1] /\ current' = current
    BY <1>2 DEF TickContinue
  <2>2. \A j \in Slots : slots'[j].pid = slots[j].pid /\ slots'[j].state = slots[j].state
    BY Zenon, <1>0, <2>1 DEF Process
  <2>3. ConsoleWaits(c)' /\ TablesLoaded(c)'
    <3>1. \A j \in Slots : Holds(j, cr3[c]) => Holds(j, cr3[c])'
      BY Zenon, <1>1, <2>2 DEF Holds
    <3> QED BY Zenon, <1>1, <1>2, <2>1, <3>1 DEF FpuInv, ConsoleWaits, TablesLoaded
  <2>4. FpuOnCpu(c)'
    <3>1. ~Saving(c)'
      BY <1>1, <1>2 DEF Saving
    <3>2. Latest(current[c])' = Latest(current[c])
      BY Zenon, <1>1, <2>1 DEF Latest
    <3>3. regs[c].fp = Latest(current[c]) /\ regs' = regs
      BY Zenon, <1>1, <1>2 DEF FpuInv, FpuOnCpu
    <3> QED BY Zenon, <3>1, <3>2, <3>3 DEF FpuOnCpu
  <2>5. \A j \in Slots : InArea(c, j)' => InArea(c, j)
    BY Zenon, <1>2, <2>2 DEF InArea, Saving
  <2>6. \A j \in Slots : AreaKept(c, j)'
    BY Zenon, <1>1, <2>2, <2>5, AreasStay
  <2> QED BY Zenon, <2>3, <2>4, <2>6 DEF FpuInv
<1>3. ASSUME NEW i \in Slots, TickKill(c, i), mode' = [mode EXCEPT ![c] = "leaving"]
      PROVE  FpuInv(c)'
  <2>1. /\ Holds(i, current[c]) /\ current' = [current EXCEPT ![c] = NoPid]
        /\ slots' = [slots EXCEPT ![i].ticks = @ + 1, ![i].state = "Killed", ![i].scheduled = FALSE]
    BY <1>3 DEF TickKill, Charged, Found
  <2>2. \A j \in Slots : /\ slots'[j].pid = slots[j].pid
                         /\ slots'[j].state = IF j = i THEN "Killed" ELSE slots[j].state
    BY Zenon, <1>0, <2>1 DEF Process
  <2>3. current'[c] = NoPid /\ mode'[c] = "leaving"
    BY Zenon, <1>0, <1>3, <2>1 DEF CpuTypes
  <2> QED BY Zenon, <1>1, <2>1, <2>2, <2>3, LeaveKeepsFpu
<1>4. ASSUME NEW i \in Slots, NEW n \in Slots, TickSwitch(c, i, n),
             regs' = [regs EXCEPT ![c].gp = frame[n]],
             from' = [from EXCEPT ![c] = i], mode' = [mode EXCEPT ![c] = "switching"]
      PROVE  FpuInv(c)'
  <2>1. /\ current[c] # NoPid /\ Holds(i, current[c]) /\ slots[n].state = "Ready"
        /\ slots' = [slots EXCEPT ![i].ticks = @ + 1, ![i].state = "Ready", ![n] = Dispatched(@, c)]
    BY <1>4 DEF TickSwitch, Charged, Found, NextRunnable, OwnQueue, Runnable
  <2>2. slots[i].state = "Running" /\ i # n
    BY <2>1, CurrentRuns
  <2>3. \A j \in Slots :
          /\ slots'[j].pid = slots[j].pid
          /\ slots'[j].state = IF j = i THEN "Ready" ELSE IF j = n THEN "Running" ELSE slots[j].state
    BY <1>0, <2>1, <2>2 DEF Process, Dispatched
  <2>4. \A j \in Slots :
          /\ slots'[j].pid = slots[j].pid
          /\ IF j = i THEN slots'[j].state = "Ready"
                      ELSE slots'[j].state = slots[j].state \/ slots[j].state = "Ready"
    BY Zenon, <2>1, <2>3
  <2>5. \A j \in Slots : slots'[j].state # "Free" \/ slots[j].state = "Free"
    BY <2>3
  <2>6. mode'[c] = "switching" /\ from'[c] = i /\ regs'[c].fp = regs[c].fp
    BY Zenon, <1>0, <1>4 DEF CpuTypes
  <2> QED BY Zenon, <1>1, <2>1, <2>4, <2>5, <2>6, DepartKeepsFpu
<1> QED BY Zenon, <1>2, <1>3, <1>4 DEF Tick

\* fpu::save after a switch or a blocking call, and the way back to the kernel.
LEMMA SaveKeepsFpu ==
    ASSUME TableInv, RegsInv, NEW c \in Cpus, Cpus = {c}, FpuInv(c), SaveRegisters(c)
    PROVE  FpuInv(c)'
<1>0. CpuTypes
  BY DEF RegsInv
<1>1. /\ Saving(c) /\ area' = [area EXCEPT ![from[c]] = regs[c].fp]
      /\ mode' = [mode EXCEPT ![c] = IF @ = "switching" THEN "incoming" ELSE "leaving"]
      /\ UNCHANGED <<slots, current, cr3, work, console>>
  BY Zenon DEF SaveRegisters, Saving, tableVars
<1>2. mode'[c] = IF mode[c] = "switching" THEN "incoming" ELSE "leaving"
  BY Zenon, <1>0, <1>1 DEF CpuTypes
<1>3. ConsoleWaits(c)'
  BY Zenon, <1>1, <1>2 DEF FpuInv, ConsoleWaits, Saving, InAgent
<1>4. TablesLoaded(c)'
  <2>1. \A j \in Slots : Holds(j, cr3[c]) => Holds(j, cr3[c])'
    BY Zenon, <1>1 DEF Holds
  <2>2. mode'[c] \notin {"idle", "dispatched", "marked"}
    BY Zenon, <1>2
  <2> QED BY Zenon, <1>1, <2>1, <2>2 DEF FpuInv, TablesLoaded
<1>5. FpuOnCpu(c)'
  BY <1>2 DEF FpuOnCpu, Saving
<1>6. ASSUME NEW j \in Slots, InArea(c, j)' PROVE area'[j] = Latest(slots[j].pid)'
  <2>1. Latest(slots[j].pid)' = Latest(slots[j].pid)
    BY Zenon, <1>1 DEF Latest
  <2>2. area'[j] = IF j = from[c] THEN regs[c].fp ELSE area[j]
    BY Zenon, <1>0, <1>1 DEF CpuTypes
  <2>3. CASE j = from[c]
    BY Zenon, <1>1, <2>1, <2>2, <2>3 DEF FpuInv, FpuOnCpu
  <2>4. CASE j # from[c]
    <3>1. InArea(c, j)
      BY <1>1, <1>6, <2>4 DEF InArea, Saving
    <3> QED BY Zenon, <2>1, <2>2, <2>4, <3>1 DEF FpuInv, AreaKept
  <2> QED BY Zenon, <2>3, <2>4
<1> QED BY Zenon, <1>3, <1>4, <1>5, <1>6 DEF FpuInv, AreaKept

\* cdk_user_resume loads the kernel's page tables.
LEMMA ResumeKeepsFpu ==
    ASSUME TableInv, RegsInv, NEW c \in Cpus, Cpus = {c}, FpuInv(c), Resume(c)
    PROVE  FpuInv(c)'
<1>0. CpuTypes
  BY DEF RegsInv
<1>1. /\ mode[c] = "leaving" /\ mode'[c] = "idle" /\ cr3'[c] = NoPid
      /\ UNCHANGED <<slots, current, area, work, from>>
  BY Zenon, <1>0 DEF Resume, CpuTypes, tableVars
<1>2. ConsoleWaits(c)' /\ TablesLoaded(c)' /\ FpuOnCpu(c)'
  <2>1. current[c] = NoPid
    BY Zenon, <1>1 DEF FpuInv, ConsoleWaits, InAgent
  <2> QED BY Zenon, <1>1, <2>1 DEF ConsoleWaits, TablesLoaded, FpuOnCpu, Saving
<1>3. \A j \in Slots : InArea(c, j)' => InArea(c, j)
  BY <1>1 DEF InArea, Saving
<1>4. \A j \in Slots : AreaKept(c, j)'
  BY Zenon, <1>1, <1>3, AreasStay
<1> QED BY Zenon, <1>2, <1>4 DEF FpuInv

\* The agent changes its registers, which no area holds.
LEMMA ComputeKeepsFpu ==
    ASSUME TableInv, RegsInv, NEW c \in Cpus, Cpus = {c}, FpuInv(c), Compute(c)
    PROVE  FpuInv(c)'
<1> DEFINE p == current[c]
           now == [owner |-> p, progress |-> work[p] + 1]
<1>0. CpuTypes
  BY DEF RegsInv
<1>1. mode[c] = "user" /\ cr3[c] = current[c] /\ current[c] # NoPid
  BY DEF Compute, RegsInv, RegsOnCpu, TablesOnCpu, InAgent
<1>2. /\ work' = [work EXCEPT ![p] = @ + 1] /\ regs' = [regs EXCEPT ![c] = [gp |-> now, fp |-> now]]
      /\ UNCHANGED <<slots, current, mode, cr3, from, area, console>>
  BY Zenon, <1>1 DEF Compute, tableVars
<1>3. p \in Pids /\ work[p] \in Nat
  BY Zenon, <1>0, <1>1, CurrentIsKnown DEF CpuTypes
<1>4. work'[p] = work[p] + 1 /\ regs'[c].fp = now /\ \A q \in Pids \ {p} : work'[q] = work[q]
  BY Zenon, <1>0, <1>2, <1>3 DEF CpuTypes
<1>5. ConsoleWaits(c)' /\ TablesLoaded(c)'
  BY Zenon, <1>2 DEF FpuInv, ConsoleWaits, TablesLoaded, Holds
<1>6. FpuOnCpu(c)'
  <2>1. work'[p] # 0
    BY <1>3, <1>4
  <2>2. regs'[c].fp = Latest(current[c])'
    BY Zenon, <1>2, <1>4, <2>1 DEF Latest
  <2>3. ~Saving(c)'
    BY <1>1, <1>2 DEF Saving
  <2> QED BY Zenon, <2>2, <2>3 DEF FpuOnCpu
<1>7. ASSUME NEW j \in Slots, InArea(c, j)' PROVE area'[j] = Latest(slots[j].pid)'
  <2>1. InArea(c, j) /\ slots[j].state \notin {"Running", "Free"}
    BY <1>1, <1>2, <1>7 DEF InArea, Saving
  <2>2. slots[j].pid \in Pids /\ slots[j].pid # p
    BY <1>1, <2>1, KnownPid, CurrentRuns DEF Holds
  <2>3. work'[slots[j].pid] = work[slots[j].pid]
    BY Zenon, <1>4, <2>2
  <2> QED BY Zenon, <1>2, <2>1, <2>3 DEF FpuInv, AreaKept, Latest
<1> QED BY Zenon, <1>5, <1>6, <1>7 DEF FpuInv, AreaKept

\* Every step of the machine with one CPU.
LEMMA FpuNext ==
    ASSUME TableInv, RegsInv, Cpus = {0}, FpuInv(0), [Next]_vars
    PROVE  FpuInv(0)'
<1>0. 0 \in Cpus
  OBVIOUS
<1>1. CASE \/ Spawn \/ SetTicks \/ StartRun \/ FinishRun
           \/ \E pid \in Pids : Reap(pid) \/ Deliver(pid)
  BY Zenon, <1>0, <1>1, CommandKeepsFpu
<1>2. CASE KernelStep(0)
  BY Zenon, <1>0, <1>2, EntryKeepsFpu, RestoreKeepsFpu, SaveKeepsFpu, ResumeKeepsFpu DEF KernelStep
<1>3. CASE EnterFails(0) \/ Compute(0) \/ Tick(0) \/ Park(0) \/ End(0)
  BY Zenon, <1>0, <1>3, EndKeepsFpu, ComputeKeepsFpu, TickKeepsFpu, ParkKeepsFpu
<1>4. CASE UNCHANGED vars
  <2>1. UNCHANGED <<slots, current, mode, cr3, regs, from, area, work, console>>
    BY Zenon, <1>4 DEF vars, tableVars, cpuVars
  <2> QED BY Zenon, <2>1 DEF FpuInv, ConsoleWaits, TablesLoaded, FpuOnCpu, AreaKept, InArea, Saving,
                             Holds, Latest
<1> QED BY Zenon, <1>1, <1>2, <1>3, <1>4 DEF Next

\* Where the console's CPU is the only one (no application processors), an agent in ring 3
\* has the FPU and vector registers it last had, through preemption, blocking and reuse of
\* its slot, and no page tables are loaded that reap destroyed (fpu.rs, paging.rs destroy).
THEOREM CpuStateOnOneCpu == Cpus = {0} => (Spec => []CpuStateIsOwn)
<1> SUFFICES ASSUME Cpus = {0} PROVE Spec => []CpuStateIsOwn
  OBVIOUS
<1> DEFINE Inv == TableInv /\ RegsInv /\ FpuInv(0)
<1>1. Init => Inv
  <2> SUFFICES ASSUME Init PROVE Inv
    OBVIOUS
  <2>1. TableInv /\ RegsInv
    BY InitInv, RegsInit DEF Init
  <2>2. FpuInv(0)
    <3>1. /\ mode[0] = "idle" /\ cr3[0] = NoPid /\ current[0] = NoPid
          /\ \A i \in Slots : slots[i].state = "Free"
      BY DEF Init, TableInit, FreeSlot
    <3> QED BY <3>1 DEF FpuInv, ConsoleWaits, TablesLoaded, FpuOnCpu, AreaKept, InArea, Saving
  <2> QED BY <2>1, <2>2
<1>2. Inv /\ [Next]_vars => Inv'
  BY Zenon, StepRefines, NextInv, RegsNext, FpuNext
<1>3. Inv => CpuStateIsOwn
  <2> SUFFICES ASSUME Inv PROVE CpuStateIsOwn
    OBVIOUS
  <2>1. mode[0] = "user" => regs[0].fp = Latest(cr3[0])
    BY Zenon DEF RegsInv, TablesOnCpu, FpuInv, FpuOnCpu
  <2>2. cr3[0] # NoPid => \E i \in Slots : Holds(i, cr3[0])
    BY Zenon DEF FpuInv, TablesLoaded
  <2> QED BY <2>1, <2>2 DEF CpuStateIsOwn, FpuIntact, DestroyedIsInactive
<1> QED BY <1>1, <1>2, <1>3, PTL DEF Spec
=============================================================================
