------------------------- MODULE ProcessTable_proofs -------------------------
(***************************************************************************)
(* Proofs about the process table, for every number of slots and CPUs,     *)
(* every slice and budget and every number of processes.                   *)
(***************************************************************************)
EXTENDS ProcessTable, TLAPS

\* Homes and Cpus have the same elements, all of them numbers.
LEMMA CpusAreNaturals == Cpus \subseteq Nat /\ \A k \in 1 .. Len(Homes) : Homes[k] \in Cpus
BY TableAssumption DEF Cpus

\* The home CPU that select computes for a picked slot is an agent CPU.
LEMMA HomeIsACpu ==
    ASSUME NEW n \in Nat PROVE Homes[1 + (n % Len(Homes))] \in Cpus
<1>1. Len(Homes) \in Nat /\ Len(Homes) > 0
  BY TableAssumption
<1>2. 1 + (n % Len(Homes)) \in 1 .. Len(Homes)
  BY <1>1
<1> QED BY Zenon, <1>2, CpusAreNaturals

\* The slot found for a CPU's current process is the one running on that CPU.
LEMMA CurrentSlot ==
    ASSUME TableInv, NEW c \in Cpus, current[c] # NoPid,
           NEW i \in Slots, Holds(i, current[c])
    PROVE  slots[i].state = "Running" /\ slots[i].home = c /\ slots[i].scheduled
<1>1. PICK k \in Slots : slots[k].state = "Running" /\ slots[k].pid = current[c] /\ slots[k].home = c
  BY DEF TableInv, OneCpuPerProcess
<1>2. k = i
  BY <1>1 DEF TableInv, PidsUnique, Holds
<1> QED BY <1>1, <1>2 DEF TableInv, ScheduledStates

\* The invariant holds when the table is created (ProcessTable::new).
LEMMA InitInv == TableInit => TableInv
<1> SUFFICES ASSUME TableInit PROVE TableInv
  OBVIOUS
<1> USE TableAssumption DEF TableInit
<1>1. TableTypeOK
  BY DEF TableTypeOK, FreeSlot, Process, States, Budgets, Slots, NoPid
<1>2. PidsUnique
  BY DEF PidsUnique, FreeSlot
<1>3. OneCpuPerProcess
  BY DEF OneCpuPerProcess, FreeSlot
<1>4. ScheduledStates
  BY DEF ScheduledStates, FreeSlot
<1> QED BY <1>1, <1>2, <1>3, <1>4 DEF TableInv

-----------------------------------------------------------------------------
(* One lemma per operation. *)

\* register hands out a pid nobody has, in a free slot.
LEMMA RegisterInv == TableInv /\ Register => TableInv'
<1> SUFFICES ASSUME TableInv, Register PROVE TableInv'
  OBVIOUS
<1> USE TableAssumption DEF TableInv, TableTypeOK
<1>1. CASE UNCHANGED slots
  BY <1>1 DEF Register, PidsUnique, OneCpuPerProcess, ScheduledStates, Holds
<1>2. CASE ~UNCHANGED slots
  <2> DEFINE new == ReadySlot(nextPid)
  <2>1. PICK i \in Slots : slots[i].state = "Free" /\ slots' = [slots EXCEPT ![i] = new]
    BY <1>2 DEF Register
  <2>2. new \in Process /\ new.state = "Ready" /\ new.pid = nextPid /\ ~new.scheduled
    BY DEF ReadySlot, Process, States
  <2> HIDE DEF new
  <2>3. UNCHANGED <<current, sliceUsed, cursor, slice, budget>> /\ nextPid' = nextPid + 1
    BY DEF Register
  <2>4. TableTypeOK'
    BY <2>1, <2>2, <2>3
  <2>5. PidsUnique'
    BY <2>1, <2>2, <2>3 DEF PidsUnique, Holds
  <2>6. OneCpuPerProcess'
    BY <2>1, <2>2, <2>3 DEF OneCpuPerProcess
  <2>7. ScheduledStates'
    BY <2>1, <2>2 DEF ScheduledStates
  <2> QED BY <2>4, <2>5, <2>6, <2>7
<1> QED BY <1>1, <1>2

\* What marking does to each slot: only `scheduled` and the home CPU change.
LEMMA MarkView ==
    ASSUME slots \in [Slots -> Process], NEW picked, Mark(picked)
    PROVE  /\ slots' \in [Slots -> Process]
           /\ \A i \in Slots : /\ slots'[i].state = slots[i].state
                               /\ slots'[i].pid = slots[i].pid
                               /\ slots'[i].ticks = slots[i].ticks
                               /\ i \in picked => slots'[i].scheduled = TRUE
                               /\ i \notin picked => slots'[i].scheduled = FALSE
<1>1. PICK rank \in [Slots -> Slots] :
        slots' = [i \in Slots |->
                    IF i \in picked
                    THEN [slots[i] EXCEPT !.scheduled = TRUE,
                                          !.home = Homes[1 + (rank[i] % Len(Homes))]]
                    ELSE [slots[i] EXCEPT !.scheduled = FALSE]]
  BY Zenon DEF Mark
<1> DEFINE home(i) == Homes[1 + (rank[i] % Len(Homes))]
<1>2. \A i \in Slots : home(i) \in Nat
  <2>1. \A i \in Slots : rank[i] \in Nat
    BY TableAssumption DEF Slots
  <2> QED BY Zenon, <2>1, HomeIsACpu, CpusAreNaturals
<1>3. slots' = [i \in Slots |->
                   IF i \in picked
                   THEN [slots[i] EXCEPT !.scheduled = TRUE, !.home = home(i)]
                   ELSE [slots[i] EXCEPT !.scheduled = FALSE]]
  BY Zenon, <1>1
<1> HIDE DEF home
<1>4. slots' \in [Slots -> Process]
  BY Zenon, <1>2, <1>3 DEF Process
<1>5. ASSUME NEW i \in Slots
      PROVE  /\ slots'[i].state = slots[i].state
             /\ slots'[i].pid = slots[i].pid
             /\ slots'[i].ticks = slots[i].ticks
             /\ i \in picked => slots'[i].scheduled = TRUE
             /\ i \notin picked => slots'[i].scheduled = FALSE
  <2>1. CASE i \in picked
    <3>1. slots'[i] = [slots[i] EXCEPT !.scheduled = TRUE, !.home = home(i)]
      BY Zenon, <1>3, <2>1
    <3> QED BY Zenon, <2>1, <3>1 DEF Process
  <2>2. CASE i \notin picked
    <3>1. slots'[i] = [slots[i] EXCEPT !.scheduled = FALSE]
      BY Zenon, <1>3, <2>2
    <3> QED BY Zenon, <2>2, <3>1 DEF Process
  <2> QED BY Zenon, <2>1, <2>2
<1> QED BY Zenon, <1>4, <1>5

\* Marking the picked processes for a run, which is done while no CPU is
\* busy, keeps the invariant.
LEMMA MarkInv ==
    ASSUME TableInv, ~Busy,
           NEW picked \in SUBSET {i \in Slots : slots[i].state = "Ready"}, Mark(picked)
    PROVE  TableInv'
<1> USE TableAssumption DEF TableInv
<1>2. slots \in [Slots -> Process]
  BY Zenon DEF TableTypeOK
<1>3. UNCHANGED <<current, sliceUsed, cursor, nextPid, slice, budget>>
  BY Zenon DEF Mark
<1>4. TableTypeOK'
  BY Zenon, <1>2, <1>3, MarkView DEF TableTypeOK
<1>5. \A i \in Slots : /\ slots'[i].state = slots[i].state
                       /\ slots'[i].pid = slots[i].pid
                       /\ i \in picked => slots'[i].scheduled = TRUE
                       /\ i \notin picked => slots'[i].scheduled = FALSE
  BY Zenon, <1>2, MarkView
<1>6. PidsUnique'
  BY <1>3, <1>5 DEF PidsUnique, Holds
<1>7. \A i \in Slots : slots[i].state # "Running"
  <2> SUFFICES ASSUME NEW i \in Slots, slots[i].state = "Running" PROVE FALSE
    OBVIOUS
  <2>1. slots[i].home \in Cpus /\ current[slots[i].home] = slots[i].pid
    BY DEF OneCpuPerProcess
  <2>2. slots[i].pid # NoPid
    BY DEF PidsUnique, NoPid, TableTypeOK
  <2> QED BY <2>1, <2>2 DEF Busy
<1>8. OneCpuPerProcess'
  BY <1>3, <1>5, <1>7 DEF OneCpuPerProcess, Busy
<1>9. ScheduledStates'
  BY <1>5, <1>7 DEF ScheduledStates
<1> QED BY <1>4, <1>6, <1>8, <1>9

\* select, for all ready processes or for one.
LEMMA SelectInv ==
    ASSUME TableInv, SelectAllReady \/ \E pid \in Pids : SelectOne(pid)
    PROVE  TableInv'
<1>1. CASE SelectAllReady
  BY <1>1, MarkInv DEF SelectAllReady
<1>2. ASSUME NEW pid \in Pids, SelectOne(pid) PROVE TableInv'
  BY <1>2, MarkInv DEF SelectOne
<1> QED BY <1>1, <1>2

\* take_for_reap frees a slot no CPU is running.
LEMMA TakeForReapInv ==
    ASSUME TableInv, NEW pid \in Pids, TakeForReap(pid)
    PROVE  TableInv'
<1> USE TableAssumption DEF TableInv, TableTypeOK
<1>1. PICK i \in Slots :
        /\ Found(pid, i)
        /\ slots[i].state \in {"Ready"} \cup Ended
        /\ slots' = [slots EXCEPT ![i] = FreeSlot]
  BY Zenon DEF TakeForReap
<1>2. UNCHANGED <<current, sliceUsed, cursor, nextPid, slice, budget>>
  BY DEF TakeForReap
<1>3. TableTypeOK'
  BY <1>1, <1>2 DEF FreeSlot, Process, States, NoPid
<1>4. PidsUnique'
  BY <1>1, <1>2 DEF PidsUnique, Holds, FreeSlot, NoPid
<1>5. OneCpuPerProcess'
  BY <1>1, <1>2 DEF OneCpuPerProcess, FreeSlot, Ended
<1>6. ScheduledStates'
  BY <1>1 DEF ScheduledStates, FreeSlot
<1> QED BY <1>3, <1>4, <1>5, <1>6

\* The console's slice and budget commands store positive values.
LEMMA SettingsInv ==
    ASSUME TableInv, NEW n \in TickSettings, SetSliceTicks(n) \/ SetBudgetTicks(n)
    PROVE  TableInv'
<1> USE TableAssumption DEF TableInv
<1>1. AtLeastOne(n) \in Nat \ {0} /\ AtLeastOne(n) \in Budgets
  BY DEF AtLeastOne, Budgets
<1>2. TableTypeOK'
  BY <1>1 DEF SetSliceTicks, SetBudgetTicks, TableTypeOK
<1>3. UNCHANGED <<slots, current, nextPid>>
  BY DEF SetSliceTicks, SetBudgetTicks
<1>4. PidsUnique' /\ OneCpuPerProcess' /\ ScheduledStates'
  BY <1>3 DEF PidsUnique, Holds, OneCpuPerProcess, ScheduledStates
<1> QED BY <1>2, <1>4

\* dispatch_next gives a Ready process to a CPU that has none.
LEMMA DispatchNextInv ==
    ASSUME TableInv, NEW c \in Cpus, NEW i \in Slots, DispatchNext(c, i)
    PROVE  TableInv'
<1> USE TableAssumption DEF TableInv
<1>1. Runnable(i) /\ current[c] = NoPid
  BY DEF DispatchNext, NextRunnable, OwnQueue
<1> DEFINE p == Dispatched(slots[i], c)
<1>2. /\ p \in Process
      /\ p.state = "Running" /\ p.home = c /\ p.pid = slots[i].pid
      /\ p.scheduled
  <2>1. slots[i] \in Process /\ slots[i].scheduled = TRUE
    BY <1>1 DEF TableTypeOK, Runnable, Process
  <2>2. p \in Process
    BY <2>1, CpusAreNaturals, Zenon DEF Dispatched, Process, States
  <2>3. p.state = "Running" /\ p.home = c /\ p.pid = slots[i].pid /\ p.scheduled = slots[i].scheduled
    BY <2>1 DEF Dispatched, Process
  <2> QED BY <2>1, <2>2, <2>3
<1> HIDE DEF p
<1>3. /\ slots' = [slots EXCEPT ![i] = p]
      /\ current' = [current EXCEPT ![c] = slots[i].pid]
      /\ cursor' = [cursor EXCEPT ![c] = i]
      /\ sliceUsed' = [sliceUsed EXCEPT ![c] = 0]
      /\ UNCHANGED <<nextPid, slice, budget>>
  BY DEF DispatchNext, p
<1>4. slots[i].pid \in Nat
  BY DEF TableTypeOK, Process
<1>5. TableTypeOK'
  BY <1>2, <1>3, <1>4 DEF TableTypeOK
<1>6. PidsUnique'
  BY <1>1, <1>2, <1>3 DEF PidsUnique, Holds, Runnable, TableTypeOK
<1>7. \A j \in Slots : slots[j].state = "Running" => slots[j].home # c
  BY <1>1 DEF OneCpuPerProcess, PidsUnique, NoPid
<1>8. OneCpuPerProcess'
  <2>1. slots'[i] = p /\ current'[c] = slots[i].pid
    BY <1>3 DEF TableTypeOK
  <2>2. \A j \in Slots \ {i} : slots'[j] = slots[j]
    BY <1>3 DEF TableTypeOK
  <2>3. \A d \in Cpus \ {c} : current'[d] = current[d]
    BY <1>3 DEF TableTypeOK
  <2>4. slots[i].state = "Ready"
    BY <1>1 DEF Runnable
  <2>5. \A j \in Slots : slots'[j].state = "Running" =>
          slots'[j].home \in Cpus /\ current'[slots'[j].home] = slots'[j].pid
    BY <1>2, <1>7, <2>1, <2>2, <2>3 DEF OneCpuPerProcess
  <2>6. ASSUME NEW d \in Cpus, current'[d] # NoPid
        PROVE  \E j \in Slots : /\ slots'[j].state = "Running"
                                /\ slots'[j].pid = current'[d]
                                /\ slots'[j].home = d
    BY <1>2, <2>1, <2>2, <2>3, <2>4, <2>6 DEF OneCpuPerProcess
  <2> QED BY <2>5, <2>6 DEF OneCpuPerProcess
<1>9. ScheduledStates'
  BY <1>1, <1>2, <1>3 DEF ScheduledStates, Runnable, TableTypeOK
<1> QED BY <1>5, <1>6, <1>8, <1>9

\* Giving a CPU's process another record with the same pid, and leaving the CPU
\* without a process, keeps the invariant if the record is not Running.
LEMMA LeavesCpu ==
    ASSUME TableInv, NEW c \in Cpus, current[c] # NoPid,
           NEW i \in Slots, Holds(i, current[c]),
           NEW p \in Process, p.pid = slots[i].pid,
           p.state \notin {"Running", "Free"},
           p.scheduled => p.state \in {"Ready", "Blocked"},
           slots' = [slots EXCEPT ![i] = p],
           current' = [current EXCEPT ![c] = NoPid],
           sliceUsed' \in [Cpus -> Nat],
           UNCHANGED <<cursor, nextPid, slice, budget>>
    PROVE  TableInv'
<1> USE TableAssumption DEF TableInv
<1>1. slots[i].state = "Running" /\ slots[i].home = c /\ slots[i].pid = current[c]
  BY CurrentSlot DEF Holds
<1>2. TableTypeOK'
  BY Zenon DEF TableTypeOK, NoPid
<1>3. PidsUnique'
  BY <1>1 DEF PidsUnique, Holds, TableTypeOK
<1>4. \A j \in Slots : slots[j].state = "Running" /\ slots[j].home = c => j = i
  BY <1>1 DEF OneCpuPerProcess, PidsUnique, Holds
<1>5. OneCpuPerProcess'
  <2>1. ASSUME NEW j \in Slots, slots'[j].state = "Running"
        PROVE  slots'[j].home \in Cpus /\ current'[slots'[j].home] = slots'[j].pid
    <3>1. j # i /\ slots'[j] = slots[j]
      BY <2>1 DEF TableTypeOK
    <3> QED BY <1>4, <2>1, <3>1 DEF OneCpuPerProcess, TableTypeOK
  <2>2. ASSUME NEW d \in Cpus, current'[d] # NoPid
        PROVE  \E j \in Slots : /\ slots'[j].state = "Running"
                                /\ slots'[j].pid = current'[d]
                                /\ slots'[j].home = d
    <3>1. d # c /\ current'[d] = current[d]
      BY <2>2 DEF TableTypeOK
    <3>2. PICK j \in Slots : slots[j].state = "Running" /\ slots[j].pid = current[d] /\ slots[j].home = d
      BY Zenon, <2>2, <3>1 DEF OneCpuPerProcess
    <3>3. slots'[j] = slots[j]
      BY <1>1, <3>1, <3>2 DEF TableTypeOK
    <3> QED BY <3>1, <3>2, <3>3
  <2> QED BY Zenon, <2>1, <2>2 DEF OneCpuPerProcess
<1>6. ScheduledStates'
  BY <1>1 DEF ScheduledStates, TableTypeOK
<1> QED BY <1>2, <1>3, <1>5, <1>6

\* Blocking, exit, crash and a failed entry take the process off its CPU.
LEMMA LeaveInv ==
    ASSUME TableInv, NEW c \in Cpus,
           BlockCurrent(c) \/ ExitCurrent(c) \/ CrashCurrent(c) \/ PutBack(c)
    PROVE  TableInv'
<1>1. ASSUME NEW state \in {"Blocked", "Zombie", "Crashed", "Ready"},
             NEW scheduled \in BOOLEAN,
             scheduled => state = "Blocked",
             Leave(c, state, scheduled)
      PROVE  TableInv'
  <2>1. PICK i \in Slots :
          /\ Found(current[c], i)
          /\ slots' = [slots EXCEPT ![i].state = state, ![i].scheduled = @ /\ scheduled]
    BY <1>1, Zenon DEF Leave
  <2> DEFINE p == [slots[i] EXCEPT !.state = state, !.scheduled = @ /\ scheduled]
  <2>2. slots[i] \in Process /\ slots \in [Slots -> Process] /\ sliceUsed \in [Cpus -> Nat]
    BY DEF TableInv, TableTypeOK
  <2>3. p \in Process /\ p.pid = slots[i].pid /\ p.state = state
    BY <2>2, Zenon DEF Process, States
  <2>4. p.scheduled => scheduled
    BY <2>2 DEF Process
  <2>5. slots' = [slots EXCEPT ![i] = p]
    BY <2>1, <2>2, Zenon
  <2> HIDE DEF p
  <2>6. /\ current[c] # NoPid /\ Holds(i, current[c])
        /\ current' = [current EXCEPT ![c] = NoPid]
        /\ sliceUsed' = sliceUsed
        /\ UNCHANGED <<cursor, nextPid, slice, budget>>
    BY <1>1, <2>1 DEF Leave, Found
  <2>7. p.state \notin {"Running", "Free"} /\ (p.scheduled => p.state \in {"Ready", "Blocked"})
    BY <1>1, <2>3, <2>4
  <2> QED BY <2>2, <2>3, <2>5, <2>6, <2>7, LeavesCpu, Zenon
<1> QED BY <1>1, Zenon DEF BlockCurrent, ExitCurrent, CrashCurrent, PutBack

\* A tick beyond the budget kills the process and frees its CPU.
LEMMA TickKillInv ==
    ASSUME TableInv, NEW c \in Cpus, NEW i \in Slots, TickKill(c, i)
    PROVE  TableInv'
<1> DEFINE p == [slots[i] EXCEPT !.ticks = @ + 1, !.state = "Killed", !.scheduled = FALSE]
<1>1. slots[i] \in Process /\ slots \in [Slots -> Process] /\ sliceUsed \in [Cpus -> Nat]
  BY DEF TableInv, TableTypeOK
<1>2. p \in Process
  <2>1. slots[i].ticks + 1 \in Nat
    BY <1>1 DEF Process
  <2> QED BY <1>1, <2>1, Zenon DEF Process, States
<1>2a. p.pid = slots[i].pid /\ p.state = "Killed" /\ p.scheduled = FALSE
  BY <1>1 DEF Process
<1>3. slots' = [slots EXCEPT ![i] = p]
  BY <1>1, Zenon DEF TickKill
<1> HIDE DEF p
<1>4. sliceUsed' \in [Cpus -> Nat]
  BY <1>1 DEF TickKill
<1> QED BY <1>2, <1>2a, <1>3, <1>4, LeavesCpu, Zenon DEF TickKill, Charged, Found

\* Replacing a record by one with the same pid, state, home and scheduled flag
\* disturbs nothing.
LEMMA SameRole ==
    ASSUME TableInv, NEW i \in Slots, NEW p \in Process,
           p.pid = slots[i].pid, p.state = slots[i].state,
           p.home = slots[i].home, p.scheduled = slots[i].scheduled,
           slots' = [slots EXCEPT ![i] = p],
           sliceUsed' \in [Cpus -> Nat],
           UNCHANGED <<current, cursor, nextPid, slice, budget>>
    PROVE  TableInv'
<1> USE DEF TableInv
<1>1. \A j \in Slots : /\ slots'[j].pid = slots[j].pid
                       /\ slots'[j].state = slots[j].state
                       /\ slots'[j].home = slots[j].home
                       /\ slots'[j].scheduled = slots[j].scheduled
  BY DEF TableTypeOK
<1>2. TableTypeOK'
  BY DEF TableTypeOK
<1>3. PidsUnique'
  BY <1>1 DEF PidsUnique, Holds
<1>4. OneCpuPerProcess'
  BY <1>1 DEF OneCpuPerProcess
<1>5. ScheduledStates'
  BY <1>1 DEF ScheduledStates
<1> QED BY <1>2, <1>3, <1>4, <1>5

\* run_one sets `started` and nothing else.
LEMMA MarkStartedInv ==
    ASSUME TableInv, NEW c \in Cpus, MarkStarted(c)
    PROVE  TableInv'
<1>1. PICK i \in Slots : slots' = [slots EXCEPT ![i].started = TRUE]
  BY Zenon DEF MarkStarted
<1> DEFINE p == [slots[i] EXCEPT !.started = TRUE]
<1>2. slots[i] \in Process /\ slots \in [Slots -> Process] /\ sliceUsed \in [Cpus -> Nat]
  BY DEF TableInv, TableTypeOK
<1>3. p \in Process
  BY <1>2, Zenon DEF Process
<1>4. /\ p.pid = slots[i].pid /\ p.state = slots[i].state
      /\ p.home = slots[i].home /\ p.scheduled = slots[i].scheduled
  BY <1>2 DEF Process
<1>5. slots' = [slots EXCEPT ![i] = p]
  BY <1>1, <1>2
<1> HIDE DEF p
<1> QED BY <1>2, <1>3, <1>4, <1>5, SameRole, Zenon DEF MarkStarted

\* A tick that continues charges the process and nothing else.
LEMMA TickContinueInv ==
    ASSUME TableInv, NEW c \in Cpus, NEW i \in Slots, TickContinue(c, i)
    PROVE  TableInv'
<1> DEFINE p == [slots[i] EXCEPT !.ticks = @ + 1]
<1>1. slots[i] \in Process /\ slots \in [Slots -> Process] /\ sliceUsed \in [Cpus -> Nat]
  BY DEF TableInv, TableTypeOK
<1>2. slots[i].ticks + 1 \in Nat
  BY <1>1 DEF Process
<1>3. p \in Process
  BY <1>1, <1>2 DEF Process
<1>4. /\ p.pid = slots[i].pid /\ p.state = slots[i].state
      /\ p.home = slots[i].home /\ p.scheduled = slots[i].scheduled
  BY <1>1 DEF Process
<1>5. slots' = [slots EXCEPT ![i] = p]
  BY <1>1 DEF TickContinue
<1>6. sliceUsed' \in [Cpus -> Nat]
  BY <1>1 DEF TickContinue
<1> HIDE DEF p
<1> QED BY <1>3, <1>4, <1>5, <1>6, SameRole, Zenon DEF TickContinue

\* unblock makes a Blocked process Ready; no CPU had it.
LEMMA UnblockInv ==
    ASSUME TableInv, NEW pid \in Pids, Unblock(pid)
    PROVE  TableInv'
<1> USE DEF TableInv
<1>1. PICK i \in Slots : slots[i].state = "Blocked" /\ slots' = [slots EXCEPT ![i].state = "Ready"]
  BY Zenon DEF Unblock
<1>2. UNCHANGED <<current, sliceUsed, cursor, nextPid, slice, budget>>
  BY DEF Unblock
<1>3. TableTypeOK'
  <2>1. slots[i] \in Process /\ "Ready" \in States
    BY DEF TableTypeOK, States
  <2>2. [slots[i] EXCEPT !.state = "Ready"] \in Process
    BY <2>1 DEF Process
  <2>3. slots' \in [Slots -> Process]
    BY <1>1, <2>2 DEF TableTypeOK
  <2> QED BY <1>2, <2>3 DEF TableTypeOK
<1>4. \A j \in Slots : /\ slots'[j].pid = slots[j].pid
                       /\ slots'[j].home = slots[j].home
                       /\ slots'[j].scheduled = slots[j].scheduled
                       /\ slots'[j].state = IF j = i THEN "Ready" ELSE slots[j].state
  BY <1>1 DEF TableTypeOK, Process
<1>5. PidsUnique'
  BY <1>1, <1>2, <1>4 DEF PidsUnique, Holds
<1>6. OneCpuPerProcess'
  BY <1>1, <1>2, <1>4 DEF OneCpuPerProcess
<1>7. ScheduledStates'
  BY <1>1, <1>4 DEF ScheduledStates
<1> QED BY <1>3, <1>5, <1>6, <1>7

\* A tick that switches exchanges a Running process for a Ready one.
LEMMA TickSwitchInv ==
    ASSUME TableInv, NEW c \in Cpus, NEW i \in Slots, NEW n \in Slots, TickSwitch(c, i, n)
    PROVE  TableInv'
<1> USE DEF TableInv
<1>1. /\ slots[i].state = "Running" /\ slots[i].home = c /\ slots[i].scheduled
      /\ slots[i].pid = current[c]
  BY CurrentSlot DEF TickSwitch, Charged, Found, Holds
<1>2. slots[n].scheduled /\ slots[n].state = "Ready" /\ n # i
  BY <1>1 DEF TickSwitch, NextRunnable, OwnQueue, Runnable
<1>3. slots[i] \in Process /\ slots[n] \in Process /\ slots \in [Slots -> Process]
  BY DEF TableTypeOK
<1> DEFINE p == [slots[i] EXCEPT !.ticks = @ + 1, !.state = "Ready"]
<1> DEFINE q == Dispatched(slots[n], c)
<1>4. p \in Process /\ q \in Process
  <2>1. slots[i].ticks + 1 \in Nat
    BY <1>3 DEF Process
  <2>2. p \in Process
    BY <1>3, <2>1, Zenon DEF Process, States
  <2>3. q \in Process
    BY <1>3, CpusAreNaturals, Zenon DEF Process, States, Dispatched
  <2> QED BY <2>2, <2>3
<1>5. p.state = "Ready" /\ p.pid = slots[i].pid /\ p.scheduled = slots[i].scheduled
  BY <1>3 DEF Process
<1>6. q.state = "Running" /\ q.home = c /\ q.pid = slots[n].pid /\ q.scheduled = slots[n].scheduled
  BY <1>3 DEF Process, Dispatched
<1>7. slots' = [slots EXCEPT ![i] = p, ![n] = q]
  BY <1>2, <1>3, Zenon DEF TickSwitch
<1> HIDE DEF p, q
<1>8. /\ current' = [current EXCEPT ![c] = slots[n].pid]
      /\ cursor' = [cursor EXCEPT ![c] = n]
      /\ sliceUsed' = [sliceUsed EXCEPT ![c] = 0]
      /\ UNCHANGED <<nextPid, slice, budget>>
  BY DEF TickSwitch
<1>9. slots'[i] = p /\ slots'[n] = q /\ \A j \in Slots \ {i, n} : slots'[j] = slots[j]
  BY <1>2, <1>3, <1>7
<1>10. current'[c] = slots[n].pid /\ \A d \in Cpus \ {c} : current'[d] = current[d]
  BY <1>8 DEF TableTypeOK
<1>11. TableTypeOK'
  <2>1. slots[n].pid \in Nat
    BY <1>3 DEF Process
  <2> QED BY <1>4, <1>7, <1>8, <2>1 DEF TableTypeOK
<1>12. PidsUnique'
  BY <1>1, <1>2, <1>5, <1>6, <1>8, <1>9 DEF PidsUnique, Holds
<1>13. \A j \in Slots : slots[j].state = "Running" /\ slots[j].home = c => j = i
  BY <1>1 DEF OneCpuPerProcess, PidsUnique, Holds
<1>14. OneCpuPerProcess'
  <2>1. \A j \in Slots : slots'[j].state = "Running" =>
          slots'[j].home \in Cpus /\ current'[slots'[j].home] = slots'[j].pid
    BY <1>5, <1>6, <1>9, <1>10, <1>13 DEF OneCpuPerProcess
  <2>2. ASSUME NEW d \in Cpus, current'[d] # NoPid
        PROVE  \E j \in Slots : /\ slots'[j].state = "Running"
                                /\ slots'[j].pid = current'[d]
                                /\ slots'[j].home = d
    BY <1>1, <1>2, <1>6, <1>9, <1>10, <2>2 DEF OneCpuPerProcess
  <2> QED BY Zenon, <2>1, <2>2 DEF OneCpuPerProcess
<1>15. ScheduledStates'
  BY <1>1, <1>2, <1>5, <1>6, <1>9, Zenon DEF ScheduledStates
<1> QED BY <1>11, <1>12, <1>14, <1>15

\* Every operation of the table preserves the invariant.
LEMMA NextInv == TableInv /\ [TableNext]_tableVars => TableInv'
<1> SUFFICES ASSUME TableInv, [TableNext]_tableVars PROVE TableInv'
  OBVIOUS
<1>1. CASE Register
  BY <1>1, RegisterInv
<1>2. CASE SelectAllReady \/ \E pid \in Pids : SelectOne(pid)
  BY <1>2, SelectInv
<1>3. CASE \E pid \in Pids : TakeForReap(pid)
  BY <1>3, TakeForReapInv
<1>4. CASE \E n \in TickSettings : SetSliceTicks(n) \/ SetBudgetTicks(n)
  BY <1>4, SettingsInv
<1>5. CASE \E pid \in Pids : Unblock(pid)
  BY <1>5, UnblockInv
<1>6. CASE \E c \in Cpus : CpuStep(c)
  BY Zenon, <1>6, DispatchNextInv, MarkStartedInv, TickKillInv, TickContinueInv,
     TickSwitchInv, LeaveInv DEF CpuStep
<1>7. CASE UNCHANGED tableVars
  BY <1>7 DEF tableVars, TableInv, TableTypeOK, PidsUnique, Holds, OneCpuPerProcess,
     ScheduledStates
<1> QED BY <1>1, <1>2, <1>3, <1>4, <1>5, <1>6, <1>7 DEF TableNext

\* The inductive invariant holds of every reachable table.
LEMMA TableInvariant == TableSpec => []TableInv
BY InitInv, NextInv, PTL DEF TableSpec

\* The table of process.rs stays well formed under every method of it.
THEOREM TypeCorrect == TableSpec => []TableTypeOK
BY TableInvariant, PTL DEF TableInv

\* find returns the only slot with a pid, whatever is registered and reaped.
THEOREM UniquePids == TableSpec => []PidsUnique
BY TableInvariant, PTL DEF TableInv

\* A process runs on at most one CPU and a CPU runs at most one process, for any
\* number of CPUs, with work stealing, preemption and migration.
THEOREM ExclusiveRunning == TableSpec => []OneCpuPerProcess
BY TableInvariant, PTL DEF TableInv

\* run_scheduled never finds outstanding() = (0, _) while a CPU runs an agent.
THEOREM SoundAccounting == TableSpec => []RunAccounting
<1>1. TableInv => RunAccounting
  BY DEF TableInv, OneCpuPerProcess, ScheduledStates, RunAccounting, Active, Busy
<1> QED BY <1>1, TableInvariant, PTL

\* What every method of process.rs may rely on while it holds the table's lock.
THEOREM Consistent == TableSpec => []TableConsistent
BY TypeCorrect, UniquePids, ExclusiveRunning, SoundAccounting, PTL DEF TableConsistent

-----------------------------------------------------------------------------
(* What a step may do to one slot: the watchdog and finality rest on it. *)

Live == {"Ready", "Running", "Blocked"}

SlotStep(i) ==
    \/ /\ slots'[i].pid = slots[i].pid /\ slots'[i].ticks = slots[i].ticks
       /\ slots'[i].state # slots[i].state =>
            slots[i].state \in Live /\ slots'[i].state \notin {"Free", "Killed"}
    \/ /\ slots'[i].pid = slots[i].pid /\ slots'[i].ticks = slots[i].ticks + 1
       /\ slots[i].state = "Running"
       /\ slots[i].ticks + 1 <= budget \/ slots'[i].state = "Killed"
    \/ slots[i].state = "Free" /\ slots'[i].ticks = 0
    \/ slots'[i].state = "Free" /\ slots'[i].ticks = 0

\* A slot that is not written makes a trivial step.
LEMMA UnchangedSlot ==
    ASSUME NEW i \in Slots, slots'[i] = slots[i] PROVE SlotStep(i)
BY DEF SlotStep

\* Whatever operation is done, each slot makes one of the steps above.
LEMMA SlotSteps ==
    ASSUME TableInv, [TableNext]_tableVars, NEW i \in Slots
    PROVE  SlotStep(i)
<1>0. slots \in [Slots -> Process] /\ slots[i] \in Process
  BY DEF TableInv, TableTypeOK
<1>1. CASE Register
  <2>1. \/ slots' = slots
        \/ \E j \in Slots : slots[j].state = "Free" /\ slots' = [slots EXCEPT ![j] = ReadySlot(nextPid)]
    BY <1>1 DEF Register
  <2>2. ReadySlot(nextPid).ticks = 0
    BY DEF ReadySlot
  <2> QED BY <1>0, <2>1, <2>2, UnchangedSlot DEF SlotStep
<1>2. ASSUME NEW picked \in SUBSET Slots, Mark(picked) PROVE SlotStep(i)
  <2>1. slots'[i].pid = slots[i].pid /\ slots'[i].ticks = slots[i].ticks /\ slots'[i].state = slots[i].state
    BY Zenon, <1>0, <1>2, MarkView
  <2> QED BY <2>1 DEF SlotStep
<1>3. ASSUME NEW pid \in Pids, TakeForReap(pid) PROVE SlotStep(i)
  <2>1. \E j \in Slots : slots' = [slots EXCEPT ![j] = FreeSlot]
    BY <1>3, Zenon DEF TakeForReap
  <2>2. FreeSlot.ticks = 0 /\ FreeSlot.state = "Free"
    BY DEF FreeSlot
  <2> QED BY <1>0, <2>1, <2>2, UnchangedSlot DEF SlotStep
<1>4. ASSUME NEW pid \in Pids, Unblock(pid) PROVE SlotStep(i)
  <2>1. PICK j \in Slots : slots[j].state = "Blocked" /\ slots' = [slots EXCEPT ![j].state = "Ready"]
    BY <1>4, Zenon DEF Unblock
  <2>2. CASE j = i
    BY <1>0, <2>1, <2>2 DEF SlotStep, Process, Live
  <2>3. CASE j # i
    BY Zenon, <1>0, <2>1, <2>3, UnchangedSlot
  <2> QED BY <2>2, <2>3
<1>5. ASSUME NEW c \in Cpus, NEW j \in Slots, DispatchNext(c, j) PROVE SlotStep(i)
  <2>1. slots[j].state = "Ready" /\ slots' = [slots EXCEPT ![j] = Dispatched(slots[j], c)]
    BY <1>5 DEF DispatchNext, NextRunnable, OwnQueue, Runnable
  <2>2. CASE j = i
    BY <1>0, <2>1, <2>2 DEF SlotStep, Process, Live, Dispatched
  <2>3. CASE j # i
    BY <1>0, <2>1, <2>3, UnchangedSlot
  <2> QED BY <2>2, <2>3
<1>6. ASSUME NEW c \in Cpus, MarkStarted(c) PROVE SlotStep(i)
  <2>1. slots'[i].pid = slots[i].pid /\ slots'[i].ticks = slots[i].ticks /\ slots'[i].state = slots[i].state
    BY <1>0, <1>6 DEF MarkStarted, Process
  <2> QED BY <2>1 DEF SlotStep
<1>7. ASSUME NEW c \in Cpus, NEW j \in Slots, TickKill(c, j) \/ TickContinue(c, j) PROVE SlotStep(i)
  <2>1. slots[j].state = "Running"
    BY <1>7, CurrentSlot DEF TickKill, TickContinue, Charged, Found
  <2>2. budget \in Nat
    BY TableAssumption DEF TableInv, TableTypeOK, Budgets, AtLeastOne
  <2>3. CASE j # i
    BY <1>0, <1>7, <2>3, UnchangedSlot DEF TickKill, TickContinue
  <2>4. CASE j = i /\ TickKill(c, j)
    BY <1>0, <2>1, <2>4 DEF SlotStep, Process, TickKill
  <2>5. CASE j = i /\ TickContinue(c, j)
    <3>1. slots'[i].pid = slots[i].pid /\ slots'[i].ticks = slots[i].ticks + 1
      BY <1>0, <2>5 DEF Process, TickContinue
    <3>2. slots[i].ticks + 1 <= budget
      BY <1>0, <2>2, <2>5 DEF Process, TickContinue, OverBudget
    <3> QED BY <2>1, <2>5, <3>1, <3>2 DEF SlotStep
  <2> QED BY <1>7, <2>3, <2>4, <2>5
<1>8. ASSUME NEW c \in Cpus, NEW j \in Slots, NEW n \in Slots, TickSwitch(c, j, n) PROVE SlotStep(i)
  <2>1. slots[j].state = "Running"
    BY <1>8, CurrentSlot DEF TickSwitch, Charged, Found
  <2>2. slots[n].state = "Ready"
    BY <1>8 DEF TickSwitch, NextRunnable, OwnQueue, Runnable
  <2>3. budget \in Nat
    BY TableAssumption DEF TableInv, TableTypeOK, Budgets, AtLeastOne
  <2>4. CASE i # j /\ i # n
    BY <1>0, <1>8, <2>4, UnchangedSlot DEF TickSwitch
  <2>5. CASE i = n
    <3>1. slots'[i] = Dispatched(slots[i], c)
      BY <1>0, <1>8, <2>1, <2>2, <2>5 DEF TickSwitch
    <3> QED BY <1>0, <2>2, <2>5, <3>1 DEF SlotStep, Process, Live, Dispatched
  <2>6. CASE i = j
    <3>1. slots'[i].pid = slots[i].pid /\ slots'[i].ticks = slots[i].ticks + 1
      BY <1>0, <1>8, <2>1, <2>2, <2>6 DEF Process, TickSwitch
    <3>2. slots[i].ticks + 1 <= budget
      BY <1>0, <1>8, <2>3, <2>6 DEF Process, TickSwitch, OverBudget
    <3> QED BY <2>1, <2>6, <3>1, <3>2 DEF SlotStep
  <2> QED BY <2>4, <2>5, <2>6
<1>9. ASSUME NEW c \in Cpus, NEW state \in {"Blocked", "Zombie", "Crashed", "Ready"},
             NEW scheduled \in BOOLEAN, Leave(c, state, scheduled)
      PROVE  SlotStep(i)
  <2>1. PICK j \in Slots :
          /\ Found(current[c], j) /\ current[c] # NoPid
          /\ slots' = [slots EXCEPT ![j].state = state, ![j].scheduled = @ /\ scheduled]
    BY <1>9, Zenon DEF Leave
  <2>2. slots[j].state = "Running"
    BY <2>1, CurrentSlot DEF Found
  <2>3. CASE j # i
    BY <1>0, <2>1, <2>3, UnchangedSlot
  <2>4. CASE j = i
    BY <1>0, <2>1, <2>2, <2>4 DEF SlotStep, Process, Live
  <2> QED BY <2>3, <2>4
<1>10. ASSUME UNCHANGED slots PROVE SlotStep(i)
  BY <1>10, UnchangedSlot
<1>11. CASE SelectAllReady \/ \E pid \in Pids : SelectOne(pid)
  BY <1>2, <1>11, Zenon DEF SelectAllReady, SelectOne
<1>12. CASE \E n \in TickSettings : SetSliceTicks(n) \/ SetBudgetTicks(n)
  BY <1>10, <1>12 DEF SetSliceTicks, SetBudgetTicks
<1>13. CASE \E c \in Cpus : CpuStep(c)
  BY <1>5, <1>6, <1>7, <1>8, <1>9, <1>13, Zenon
     DEF CpuStep, BlockCurrent, ExitCurrent, CrashCurrent, PutBack
<1> QED BY <1>1, <1>3, <1>4, <1>10, <1>11, <1>12, <1>13 DEF TableNext, tableVars

\* However a process is preempted, blocked and migrated, the watchdog of
\* on_user_tick bounds the ticks it consumes.
THEOREM WatchdogHolds == TableSpec => []WatchdogBound
<1>1. Budgets \subseteq Nat /\ DefaultBudget \in Budgets
  <2>1. ASSUME NEW n \in TickSettings PROVE AtLeastOne(n) \in Nat
    <3>1. n \in Nat
      BY TableAssumption
    <3> QED BY <3>1 DEF AtLeastOne
  <2>2. DefaultBudget \in Nat
    BY TableAssumption
  <2> QED BY <2>1, <2>2 DEF Budgets
<1>2. TableInit => WatchdogBound
  BY <1>1 DEF TableInit, WatchdogBound, FreeSlot
<1>3. ASSUME TableInv, WatchdogBound, [TableNext]_tableVars PROVE WatchdogBound'
  <2> SUFFICES ASSUME NEW i \in Slots
               PROVE  \E b \in Budgets :
                        slots'[i].ticks <= IF slots'[i].state = "Killed" THEN b + 1 ELSE b
    BY DEF WatchdogBound
  <2>1. slots[i].ticks \in Nat /\ budget \in Budgets
    BY Zenon, <1>3 DEF TableInv, TableTypeOK, Process
  <2>2. PICK b \in Budgets : slots[i].ticks <= IF slots[i].state = "Killed" THEN b + 1 ELSE b
    BY <1>3 DEF WatchdogBound
  <2>3. SlotStep(i)
    BY <1>3, SlotSteps
  <2>4. CASE slots'[i].ticks = 0
    BY <1>1, <2>4
  <2>5. CASE /\ slots'[i].ticks = slots[i].ticks
             /\ slots'[i].state # slots[i].state =>
                  slots[i].state \in Live /\ slots'[i].state \notin {"Free", "Killed"}
    BY <1>1, <2>1, <2>2, <2>5 DEF Live
  <2>6. CASE /\ slots'[i].ticks = slots[i].ticks + 1
             /\ slots[i].state = "Running"
             /\ slots[i].ticks + 1 <= budget \/ slots'[i].state = "Killed"
    <3>1. CASE slots'[i].state = "Killed"
      <4>1. slots'[i].ticks <= b + 1
        BY <1>1, <2>1, <2>2, <2>6
      <4> QED BY <3>1, <4>1
    <3>2. CASE slots'[i].state # "Killed"
      BY <2>1, <2>6, <3>2
    <3> QED BY <3>1, <3>2
  <2> QED BY Zenon, <2>3, <2>4, <2>5, <2>6 DEF SlotStep
<1> QED BY <1>2, <1>3, TableInvariant, PTL DEF TableSpec

\* Nothing but reap takes an exited, crashed or killed process out of its slot.
THEOREM EndIsFinal == TableSpec => EndedIsFinal
<1>1. ASSUME TableInv, [TableNext]_tableVars
      PROVE  \A i \in Slots : slots[i].state \in Ended =>
               slots'[i].state = "Free" \/
               (slots'[i].state = slots[i].state /\ slots'[i].pid = slots[i].pid)
  BY <1>1, SlotSteps DEF SlotStep, Live, Ended
<1> QED BY <1>1, TableInvariant, PTL DEF TableSpec, EndedIsFinal

\* The arithmetic of the circular scan of next_runnable: a slot behind the one
\* dispatched is nearer to the new cursor than it was to the old one.
LEMMA ScanMovesOn ==
    ASSUME NEW M \in Nat, NEW k \in 0 .. M - 1, NEW n \in 0 .. M - 1, NEW i \in 0 .. M - 1,
           n # i,
           (IF n > k THEN n - k - 1 ELSE n - k - 1 + M) <= (IF i > k THEN i - k - 1 ELSE i - k - 1 + M)
    PROVE  (IF i > n THEN i - n - 1 ELSE i - n - 1 + M) < (IF i > k THEN i - k - 1 ELSE i - k - 1 + M)
OBVIOUS

\* next_runnable cannot starve a process of the CPU's own queue: every dispatch
\* brings it nearer to the head.
THEOREM RoundRobinHolds == TableSpec => RoundRobin
<1>1. ASSUME TableInv, [TableNext]_tableVars,
             NEW c \in Cpus, NEW i \in Slots,
             current'[c] # current[c], current'[c] # NoPid,
             i \in OwnQueue(c), i \in OwnQueue(c)'
      PROVE  Distance(c, i)' < Distance(c, i)
  <2>0. current \in [Cpus -> Nat] /\ cursor \in [Cpus -> Slots] /\ slots \in [Slots -> Process]
    BY <1>1 DEF TableInv, TableTypeOK
  <2>1. PICK n \in Slots : /\ NextRunnable(c, n) /\ cursor' = [cursor EXCEPT ![c] = n]
                           /\ slots'[n].state = "Running"
    <3>1. PICK d \in Cpus : CpuStep(d)
      BY <1>1, Zenon DEF TableNext, tableVars, Register, SelectAllReady, SelectOne, Mark, TakeForReap,
         SetSliceTicks, SetBudgetTicks, Unblock
    <3>2. CASE \E n \in Slots : DispatchNext(d, n)
      <4>1. PICK n \in Slots : DispatchNext(d, n)
        BY <3>2
      <4>2. d = c
        BY <1>1, <2>0, <4>1 DEF DispatchNext
      <4>3. slots'[n].state = "Running"
        BY <2>0, <4>1 DEF DispatchNext, Dispatched, Process
      <4> QED BY <4>1, <4>2, <4>3, Zenon DEF DispatchNext
    <3>3. CASE \E j, n \in Slots : TickSwitch(d, j, n)
      <4>1. PICK j \in Slots, n \in Slots : TickSwitch(d, j, n)
        BY <3>3
      <4>2. d = c
        BY <1>1, <2>0, <4>1 DEF TickSwitch
      <4>3. slots[j].state = "Running" /\ slots[n].state = "Ready"
        BY <1>1, <4>1, CurrentSlot DEF TickSwitch, Charged, Found, NextRunnable, OwnQueue, Runnable
      <4>4. slots'[n].state = "Running"
        BY <2>0, <4>1, <4>3 DEF TickSwitch, Dispatched, Process
      <4> QED BY <4>1, <4>2, <4>4, Zenon DEF TickSwitch
    <3>4. current' = current \/ current' = [current EXCEPT ![d] = NoPid]
             \/ (\E n \in Slots : DispatchNext(d, n)) \/ (\E j, n \in Slots : TickSwitch(d, j, n))
      BY <3>1, Zenon DEF CpuStep, MarkStarted, TickKill, TickContinue, BlockCurrent, ExitCurrent,
         CrashCurrent, PutBack, Leave
    <3>5. ~(current' = current \/ current' = [current EXCEPT ![d] = NoPid])
      BY <1>1, <2>0
    <3> QED BY <3>2, <3>3, <3>4, <3>5
  <2>2. i # n
    BY <1>1, <2>1 DEF OwnQueue, Runnable
  <2>3. Distance(c, n) <= Distance(c, i)
    BY <1>1, <2>1 DEF NextRunnable
  <2>4. cursor'[c] = n
    BY <2>0, <2>1
  <2> QED BY Zenon, <2>0, <2>2, <2>3, <2>4, ScanMovesOn, TableAssumption DEF Distance, Slots
<1>2. ASSUME TableInv, [TableNext]_tableVars
      PROVE  \A c \in Cpus : \A i \in Slots :
               (/\ current'[c] # current[c] /\ current'[c] # NoPid
                /\ i \in OwnQueue(c) /\ i \in OwnQueue(c)')
               => Distance(c, i)' < Distance(c, i)
  BY <1>1, <1>2
<1> QED BY <1>2, TableInvariant, PTL DEF TableSpec, RoundRobin
=============================================================================
