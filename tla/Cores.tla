-------------------------------- MODULE Cores --------------------------------
(* The processors of the kernel: how application processors (APs) are        *)
(* brought up through the shared trampoline page, the ready queue with the   *)
(* run queue and running slot of every core, and TLB shootdown.              *)
(*                                                                           *)
(* Steps taken under the kernel lock are atomic.  `con` is the program       *)
(* counter of the boot processor's own thread of control, which first starts *)
(* the APs and then serves the console; a command that keeps the lock over a *)
(* wait leaves `con` at that wait, and interrupt handlers, which only try    *)
(* the lock, then do nothing.  The lock-free words of the shootdown are      *)
(* written one at a time.                                                    *)
EXTENDS Integers, Sequences, FiniteSets, SequencesExt

CONSTANTS
    Aps,         \* APIC ids of the application processors; the boot one is 0
    NewAps,      \* APIC ids the operator registers by hand
    Order,       \* all of them in the order of their table, the boot one first
    Tasks,       \* objects that are scheduled
    Intent,      \* the intent each was created with
    ReadyRoom,   \* MAX_QUEUE_SIZE (32)
    QueueRoom,   \* MAX_CORE_RQ (16)
    Slice,       \* TICKS_PER_SLICE (50)
    ShotPages,       \* page addresses shot down; 0 is a full flush
    Machines     \* the machines checked: the APs a machine has, and bounds on the
                 \* tasks submitted, shootdowns and commands on cores

ASSUME CoresAssumption ==
    /\ Aps \subseteq Nat \ {0} /\ NewAps \subseteq Nat \ {0} /\ IsFiniteSet(Aps)
    /\ Range(Order) = {0} \cup Aps \cup NewAps /\ Head(Order) = 0
    /\ \A n \in {ReadyRoom, QueueRoom, Slice} : n \in Nat \ {0}

VARIABLES
    cores,     \* MultiCoreManager.cores, run_queues, drive modes and tick cursors
    ready,     \* Scheduler.ready
    running,   \* Scheduler.running: task and ticks since its slice began
    mailbox,   \* StartupMailbox: pending core, the core the page names, sequence
               \* number, last core acknowledged
    ap,        \* each AP: where it is, and who the trampoline page told it it is
    apReady,   \* AP_READY_MASK and AP_READY_SEQ
    proxied,   \* AP_RUNTIME_CORES
    con,       \* the boot processor's thread: boot sequence, then console
    tlb,       \* TLB_SHOOTDOWN_PAGE, _ACK and _PENDING
    handler,   \* the shootdown handler of each core, in its idle loop and its interrupt
    budget,    \* the machine, with the commands still allowed
    tally,     \* history: submitted, completed and dropped tasks
    forced,    \* history: cores acknowledged by the operator
    fresh      \* history: cores that dropped the newest page since it was published

tasks == <<cores, ready, running, tally>>
boots == <<mailbox, ap, apReady, proxied, forced>>
tlbs == <<tlb, handler, fresh>>
coreVars == <<cores, ready, running, mailbox, ap, apReady, proxied, con, tlb, handler,
          budget, tally, forced, fresh>>

Nothing == "none"
Nobody == 0          \* no AP: the boot processor is never started
Apics == {0} \cup Aps \cup NewAps
Known(s) == {c \in Apics : s.cores[c].st # "unknown"}
Online(s) == {c \in Apics : s.cores[c].st = "online"}

NewCore(st, drive) == [st |-> st, depth |-> 0, queue |-> <<>>, drive |-> drive, cursor |-> 0]
NoTask == [task |-> Nothing, age |-> 0]

-----------------------------------------------------------------------------
(* The scheduler and the run queues, as operators on their state. *)

Now == [cores |-> cores, ready |-> ready, running |-> running, tally |-> tally, told |-> Nothing]

IntentToPriority(i) ==
    CASE i = "low_latency" -> 10
      [] i = "interactive" -> 7
      [] i = "batch" -> 3
      [] i = "energy_saving" -> 2
      [] OTHER -> 5

Priority(t) == IntentToPriority(Intent[t])

\* sort_unstable with the reversed order: the highest priority first.
Sorted(q) ==
    LET at(p) == SelectSeq(q, LAMBDA t : Priority(t) = p)
    IN at(10) \o at(7) \o at(5) \o at(3) \o at(2)

Dropped(s, t) == [s EXCEPT !.tally.dropped[t] = @ + 1]

InsertAfter(q, t, n) == SubSeq(q, 1, n) \o <<t>> \o SubSeq(q, n + 1, Len(q))

\* Mutant: the task is inserted where it belongs in a sorted queue, which the
\* queue need not be.
PushInOrder(s, t) ==
    IF Len(s.ready) >= ReadyRoom THEN Dropped(s, t)
    ELSE [s EXCEPT !.ready = InsertAfter(@, t, Cardinality({i \in DOMAIN @ : Priority(@[i]) >= Priority(t)}))]

\* A task that does not fit is dropped, and only a push that succeeds sorts.
Push(s, t) ==
    IF Len(s.ready) < ReadyRoom THEN [s EXCEPT !.ready = Sorted(Append(@, t))] ELSE Dropped(s, t)

\* A slot entered at tick 0 is as old as the core's clock.
Occupy(s, c, t, age) == [s EXCEPT !.running[c] = [task |-> t, age |-> age], !.told = t]

SwapRemoveFirst(q) == IF Len(q) = 1 THEN <<>> ELSE <<Last(q)>> \o SubSeq(q, 2, Len(q) - 1)

ExecuteNextOnAt(s, c, age) ==
    IF s.running[c].task # Nothing \/ s.ready = <<>> THEN s
    ELSE Occupy([s EXCEPT !.ready = SwapRemoveFirst(@)], c, Head(s.ready), age)

PreemptIfExpiredOn(s, c) ==
    IF s.running[c].task = Nothing \/ s.running[c].age < Slice THEN s
    ELSE IF s.ready = <<>> THEN [s EXCEPT !.running[c].age = 0]
    ELSE ExecuteNextOnAt(Push([s EXCEPT !.running[c] = NoTask], s.running[c].task), c, 0)

CompleteRunningOn(s, c) == [s EXCEPT !.running[c] = NoTask, !.tally.done[s.running[c].task] = @ + 1]
YieldRunningOn(s, c) == Push([s EXCEPT !.running[c] = NoTask], s.running[c].task)

TakeQueuedById(s, t, c) ==
    IF s.running[c].task # Nothing \/ t \notin Range(s.ready) THEN s
    ELSE Occupy([s EXCEPT !.ready = RemoveAt(@, SelectInSeq(@, LAMBDA u : u = t))], c, t, s.cores[c].cursor)

WithQueue(s, c, q) == [s EXCEPT !.cores[c].queue = q, !.cores[c].depth = Len(q)]

HaltCore(s, c) == [WithQueue(s, c, <<>>) EXCEPT !.cores[c].st = "halted"]

EnqueueCoreTask(s, c, t) ==
    IF c \notin Known(s) \/ Len(s.cores[c].queue) >= QueueRoom THEN s
    ELSE WithQueue(s, c, Append(s.cores[c].queue, t))

\* The lightest online cores.  The code breaks ties by the number of dispatches
\* a core has made; any of them may be that one.
SelectDispatchCore(s) == {c \in Online(s) : \A d \in Online(s) : s.cores[c].depth <= s.cores[d].depth}

QueueTaskToCore(s, t, c) == EnqueueCoreTask(s, c, t)
QueueTargets(s) == IF Online(s) = {} THEN {0} ELSE SelectDispatchCore(s)

Victims(s, c) == {d \in Online(s) \ {c} : s.cores[d].depth > 0}
Busiest(s, c) ==
    CHOOSE d \in Victims(s, c) : \A e \in Victims(s, c) :
        s.cores[d].depth > s.cores[e].depth \/ (s.cores[d].depth = s.cores[e].depth /\ d <= e)

\* The front of the core's own queue, else the back of the busiest one.
TakeTaskForCore(s, c) ==
    LET own == s.cores[c].queue
        victim == s.cores[Busiest(s, c)].queue
    IN IF own # <<>> THEN [s |-> WithQueue(s, c, Tail(own)), task |-> Head(own)]
       ELSE IF Victims(s, c) = {} \/ victim = <<>> THEN [s |-> s, task |-> Nothing]
       ELSE [s |-> WithQueue(s, Busiest(s, c), Front(victim)), task |-> Last(victim)]

\* An entry the scheduler does not know goes back to the end of this core's queue.
ExecuteNextOnCore(s, c) ==
    LET took == TakeTaskForCore(s, c)
        next == TakeQueuedById(took.s, took.task, c)
    IN IF took.task = Nothing THEN s
       ELSE IF next.told # Nothing THEN next
       ELSE EnqueueCoreTask(took.s, c, took.task)

\* The first online core, of those tried in order, that takes a task; the global
\* queue when none does.
ExecuteNext(s, first) ==
    LET try(t, c) == IF t.told # Nothing THEN t ELSE ExecuteNextOnCore(t, c)
        tried == FoldLeft(try, s, <<first>> \o SelectSeq(Order, LAMBDA c : c \in Online(s)))
    IN IF tried.told # Nothing THEN tried ELSE ExecuteNextOnAt(tried, 0, s.cores[0].cursor)

Older(n) == IF n < Slice THEN n + 1 ELSE n

\* next_runtime_tick, then preempt or dispatch.
ServiceCoreRuntimeStep(s, c) ==
    LET ticked == [s EXCEPT !.cores[c].cursor = Older(@), !.running[c].age =
                                IF s.running[c].task = Nothing THEN @ ELSE Older(@)]
        switched == PreemptIfExpiredOn(ticked, c)
    IN IF switched.running[c].task # Nothing THEN switched ELSE ExecuteNextOnCore(switched, c)

Becomes(s) ==
    /\ cores' = s.cores /\ ready' = s.ready /\ running' = s.running /\ tally' = s.tally
    /\ UNCHANGED <<boots, tlbs>>

-----------------------------------------------------------------------------
(* Bring-up. *)

\* The mailbox is free, or already this core's.
MayPlan(c) ==
    /\ mailbox.pending \in {Nobody, c}
    /\ c # 0 /\ cores[c].st \in {"registered", "halted"}

\* The trampoline is copied with the handoff record: the page names `target` and
\* `seq` from then on.
InstallTrampolineSlot(m, c) == [m EXCEPT !.target = c, !.seq = @ + 1]

PlanApStartup(c) ==
    /\ MayPlan(c)
    /\ mailbox' = [InstallTrampolineSlot(mailbox, c) EXCEPT !.pending = c]
    /\ cores' = [cores EXCEPT ![c].st = "booting"]

\* INIT stops the AP wherever it is and empties its TLB; the first SIPI starts it
\* in the trampoline.  A command register that stays busy ends the attempt before
\* either, or after the first of the two SIPIs: `got` is what reached the AP.
Ipis == {"nothing", "init", "sipi"}
BringupAp(c, got) ==
    LET at == IF got = "sipi" THEN "trampoline" ELSE "off"
    IN IF got = "nothing" THEN UNCHANGED <<ap, handler, fresh>>
       ELSE /\ ap' = IF c \in Aps THEN [ap EXCEPT ![c] = [pc |-> at, id |-> Nobody, seq |-> 0]] ELSE ap
            /\ handler' = [handler EXCEPT ![c] = [loop |-> <<>>, isr |-> <<>>]]
            /\ fresh' = fresh \cup {c}

Completes(c, seq) ==
    /\ cores[c].st = "booting"
    /\ mailbox.pending = c
    /\ mailbox.seq = seq

AlreadyOnline(c) == cores[c].st = "online" /\ mailbox.acked = c

ActivateApLocalTimer(cs, c) == [cs EXCEPT ![c].drive = "local-apic"]

\* complete_ap_startup_with_seq, and activate_ap_local_timer when it returns Ok.
\* The depth is reset; the run queue is not.
ApEntryHook(c, seq) ==
    IF c # 0 /\ Completes(c, seq)
    THEN /\ cores' = ActivateApLocalTimer([cores EXCEPT ![c].st = "online", ![c].depth = 0], c)
         /\ mailbox' = [mailbox EXCEPT !.pending = Nobody, !.acked = c]
    ELSE /\ cores' = IF c # 0 /\ AlreadyOnline(c) THEN ActivateApLocalTimer(cores, c) ELSE cores
         /\ UNCHANGED mailbox

\* The loop over the APs: `con.ap` is the one being started.
Later(c) == {d \in budget.aps : d > c}
NextAp(c) == IF Later(c) = {} THEN Nobody ELSE Min(Later(c))
BootNext == con' = IF NextAp(con.ap) = Nobody THEN [pc |-> "prompt", ap |-> 0]
                   ELSE [pc |-> "plan", ap |-> NextAp(con.ap)]

StartApPlan ==
    /\ con.pc = "plan"
    /\ IF MayPlan(con.ap)
       THEN PlanApStartup(con.ap) /\ con' = [con EXCEPT !.pc = "ipi"]
       ELSE BootNext /\ UNCHANGED <<mailbox, cores>>
    /\ UNCHANGED <<ready, running, tally, ap, apReady, proxied, forced, tlbs, budget>>

\* bringup_ap, then the wait; when it returns false the AP is given up.
StartApIpi ==
    /\ con.pc = "ipi"
    /\ \E got \in Ipis :
        /\ BringupAp(con.ap, got)
        /\ \/ got = "sipi" /\ con' = [con EXCEPT !.pc = "poll"]
           \/ BootNext
    /\ UNCHANGED <<tasks, mailbox, apReady, proxied, forced, tlb, budget>>

\* Mutant: a wait that gives up the mailbox of an AP that is late.
CleanWait ==
    /\ con.pc = "poll"
    /\ IF apReady[con.ap] # 0
       THEN con' = [con EXCEPT !.pc = "sync"] /\ UNCHANGED <<cores, mailbox>>
       ELSE /\ BootNext
            /\ mailbox' = [mailbox EXCEPT !.pending = Nobody]
            /\ cores' = [cores EXCEPT ![con.ap].st = "halted"]
    /\ UNCHANGED <<ready, running, tally, ap, apReady, proxied, forced, tlbs, budget>>

\* The wait for the ready word is bounded; the AP may come too late for it.
StartApWait ==
    /\ con.pc = "poll"
    /\ \/ apReady[con.ap] # 0 /\ con' = [con EXCEPT !.pc = "sync"]
       \/ apReady[con.ap] = 0 /\ BootNext
    /\ UNCHANGED <<tasks, boots, tlbs, budget>>

StartApSync ==
    /\ con.pc = "sync"
    /\ ApEntryHook(con.ap, IF apReady[con.ap] # 0 THEN apReady[con.ap] ELSE mailbox.seq)
    /\ BootNext
    /\ UNCHANGED <<ready, running, tally, ap, apReady, proxied, forced, tlbs, budget>>

\* The AP, on the trampoline's stack, reads who it is from the trampoline page
\* and moves to its own stack.
ApKernelEntry(a) ==
    /\ ap[a].pc = "trampoline"
    /\ ap' = [ap EXCEPT ![a] = [pc |-> "stub", id |-> mailbox.target, seq |-> mailbox.seq]]
    /\ UNCHANGED <<tasks, mailbox, apReady, proxied, forced, con, tlbs, budget>>

SignalApReady(a) ==
    /\ ap[a].pc = "stub"
    /\ apReady' = [apReady EXCEPT ![ap[a].id] = ap[a].seq]
    /\ ap' = [ap EXCEPT ![a].pc = "signalled"]
    /\ UNCHANGED <<tasks, mailbox, proxied, forced, con, tlbs, budget>>

LockFree == con.pc \in {"plan", "ipi", "poll", "sync", "prompt"}

\* The entry hook when the lock can be had, then timer and runtime registration.
ApEntryStub(a) ==
    /\ ap[a].pc = "signalled"
    /\ IF LockFree THEN ApEntryHook(ap[a].id, ap[a].seq) ELSE UNCHANGED <<cores, mailbox>>
    /\ proxied' = IF ap[a].id \in Range(proxied) THEN proxied ELSE Append(proxied, ap[a].id)
    /\ ap' = [ap EXCEPT ![a].pc = "idle"]
    /\ UNCHANGED <<ready, running, tally, apReady, forced, con, tlbs, budget>>

-----------------------------------------------------------------------------
(* Console commands on cores and tasks, and the interrupts that drive them. *)

Prompt == con.pc = "prompt"
Spend(what) == budget[what] > 0 /\ budget' = [budget EXCEPT ![what] = @ - 1]

CmdCpuAddAp ==
    /\ Prompt /\ Spend("starts")
    /\ \E c \in NewAps :
        /\ cores[c].st = "unknown"
        /\ cores' = [cores EXCEPT ![c].st = "registered"]
    /\ UNCHANGED <<ready, running, tally, boots, con, tlbs>>

\* The lock is kept until the trampoline reports, or the wait runs out; when
\* bringup_ap returns false there is no wait.
CmdCpuStartAp ==
    /\ Prompt /\ Spend("starts")
    /\ \E c \in Aps \cup NewAps :
        /\ PlanApStartup(c)
        /\ \E got \in Ipis :
            /\ BringupAp(c, got)
            /\ \/ got = "sipi" /\ con' = [pc |-> "status", ap |-> 0]
               \/ UNCHANGED con
    /\ UNCHANGED <<ready, running, tally, apReady, proxied, forced, tlb>>

\* With `force` the core is acknowledged without waiting for it.
CmdCpuStartApForce ==
    /\ Prompt /\ Spend("starts")
    /\ \E c \in Aps \cup NewAps :
        /\ MayPlan(c)
        /\ BringupAp(c, "sipi")
        /\ mailbox' = [InstallTrampolineSlot(mailbox, c) EXCEPT !.pending = Nobody, !.acked = c]
        /\ cores' = ActivateApLocalTimer([cores EXCEPT ![c].st = "online", ![c].depth = 0], c)
        /\ forced' = forced \cup {c}
    /\ UNCHANGED <<ready, running, tally, apReady, proxied, con, tlb>>

StatusWaitEnds ==
    /\ con.pc = "status"
    /\ con' = [pc |-> "prompt", ap |-> 0]
    /\ UNCHANGED <<tasks, boots, tlbs, budget>>

CmdCpuAckAp ==
    /\ Prompt /\ Spend("starts")
    /\ \E c \in Aps \cup NewAps, seq \in 1..mailbox.seq :
        /\ Completes(c, seq)
        /\ ApEntryHook(c, seq)
        /\ forced' = forced \cup {c}
    /\ UNCHANGED <<ready, running, tally, ap, apReady, proxied, con, tlbs>>

\* The table's row only: the processor itself goes on.
CmdCpuHalt ==
    /\ Prompt /\ Spend("starts")
    /\ \E c \in Known(Now) : Becomes(HaltCore(Now, c))
    /\ UNCHANGED con

CmdSchedule ==
    /\ Prompt /\ Spend("submits")
    /\ \E t \in Tasks, c \in QueueTargets(Now) :
        Becomes(QueueTaskToCore(Push([Now EXCEPT !.tally.submitted[t] = @ + 1], t), t, c))
    /\ UNCHANGED con

CmdComplete ==
    /\ Prompt
    /\ \E c \in Apics :
        /\ running[c].task # Nothing
        /\ Becomes(CompleteRunningOn(Now, c))
    /\ UNCHANGED <<con, budget>>

CmdYield ==
    /\ Prompt
    /\ \E c \in Apics, target \in QueueTargets(Now) :
        /\ running[c].task # Nothing
        /\ Becomes(QueueTaskToCore(YieldRunningOn(Now, c), running[c].task, target))
    /\ UNCHANGED <<con, budget>>

CmdRunNext ==
    /\ Prompt
    /\ \/ \E c \in SelectDispatchCore(Now) : Becomes(ExecuteNext(Now, c))
       \/ Online(Now) = {} /\ Becomes(ExecuteNextOnAt(Now, 0, cores[0].cursor))
    /\ UNCHANGED <<con, budget>>

\* A tick by hand, for a core that is driven by its own timer.
CmdCpuStepAp ==
    /\ Prompt
    /\ \E c \in Known(Now) :
        cores[c].drive = "local-apic" /\ Becomes(ServiceCoreRuntimeStep(Now, c))
    /\ UNCHANGED <<con, budget>>

\* A processor that takes interrupts: the boot one, or an AP in its idle loop.
Alive(c) == c = 0 \/ \E a \in Aps : ap[a].pc = "idle" /\ ap[a].id = c

\* Local timer interrupt, when its core is driven by it.
LocalApicTick(c) ==
    /\ LockFree /\ Alive(c) /\ c \in Known(Now)
    /\ cores[c].drive = "local-apic"
    /\ Becomes(ServiceCoreRuntimeStep(Now, c))
    /\ UNCHANGED <<con, budget>>

\* Reschedule interrupt: served whatever the drive mode and whether or not the
\* request bit is set.
RescheduleIpi(c) ==
    /\ LockFree /\ Alive(c) /\ c \in Known(Now)
    /\ Becomes(ServiceCoreRuntimeStep(Now, c))
    /\ UNCHANGED <<con, budget>>

\* A turn of the AP's idle loop serves the core as the interrupt does; its drain
\* of the shootdown word is TakePending(c, "loop") and the steps after it.
ApIdleLoop(a) == ap[a].pc = "idle" /\ RescheduleIpi(ap[a].id)

\* The PIT interrupt of the boot processor serves the APs it stands in for.
PitTick ==
    /\ LockFree
    /\ LET mine == SelectSeq(proxied, LAMBDA c : cores[c].drive = "bsp-proxy")
           serve(s, c) == [ServiceCoreRuntimeStep(s, c) EXCEPT !.told = Nothing]
       IN mine # <<>> /\ Becomes(FoldLeft(serve, Now, mine))
    /\ UNCHANGED <<con, budget>>

-----------------------------------------------------------------------------
(* TLB shootdown. *)

BroadcastMask == Online(Now) \ {0}

\* broadcast_tlb_shootdown to every other online core, or a request to one.
CmdCpuIpiTlb ==
    /\ Prompt /\ Spend("shots")
    /\ \E page \in ShotPages, mask \in {BroadcastMask} \cup {{c} : c \in Known(Now)}, wait \in BOOLEAN :
        /\ wait <=> mask = BroadcastMask
        /\ con' = [pc |-> "page", ap |-> 0, page |-> page, mask |-> mask, wait |-> wait]
    /\ UNCHANGED <<tasks, boots, tlbs>>

\* begin_tlb_shootdown: the page, then no acknowledgements, then the requests.
StorePage ==
    /\ con.pc = "page"
    /\ tlb' = [tlb EXCEPT !.page = con.page]
    /\ fresh' = {}
    /\ con' = [con EXCEPT !.pc = "ack"]
    /\ UNCHANGED <<tasks, boots, handler, budget>>

StoreAck ==
    /\ con.pc = "ack"
    /\ tlb' = [tlb EXCEPT !.ack = {}]
    /\ con' = [con EXCEPT !.pc = "pend"]
    /\ UNCHANGED <<tasks, boots, handler, fresh, budget>>

StorePending ==
    /\ con.pc = "pend"
    /\ tlb' = [tlb EXCEPT !.pend = con.mask]
    /\ con' = IF con.wait THEN [con EXCEPT !.pc = "acks"] ELSE [pc |-> "prompt", ap |-> 0]
    /\ UNCHANGED <<tasks, boots, handler, fresh, budget>>

\* All acknowledged, or 50,000 spins later.
WaitEnds ==
    /\ con.pc = "acks"
    /\ con' = [pc |-> "prompt", ap |-> 0]
    /\ UNCHANGED <<tasks, boots, tlbs, budget>>

\* A core runs the handler from its idle loop (APs) and from the interrupt, which
\* may come while the loop is inside it.
Runs(c, ctx) ==
    /\ Alive(c)
    /\ ctx = "loop" => c # 0 /\ handler[c].isr = <<>>

TakePending(c, ctx) ==
    /\ Runs(c, ctx)
    /\ handler[c][ctx] = <<>> /\ c \in tlb.pend
    /\ tlb' = [tlb EXCEPT !.pend = @ \ {c}]
    /\ handler' = [handler EXCEPT ![c][ctx] = <<"taken">>]
    /\ UNCHANGED <<tasks, boots, con, fresh, budget>>

SetAck(c, ctx) ==
    /\ Runs(c, ctx)
    /\ handler[c][ctx] = <<"taken">>
    /\ tlb' = [tlb EXCEPT !.ack = @ \cup {c}]
    /\ handler' = [handler EXCEPT ![c][ctx] = <<"acked">>]
    /\ UNCHANGED <<tasks, boots, con, fresh, budget>>

LoadShotPage(c, ctx) ==
    /\ Runs(c, ctx)
    /\ handler[c][ctx] = <<"acked">>
    /\ handler' = [handler EXCEPT ![c][ctx] = <<"loaded", tlb.page>>]
    /\ UNCHANGED <<tasks, boots, con, tlb, fresh, budget>>

Flushes(p) == p \in {0, tlb.page}

ApplyTlbShootdown(c, ctx) ==
    /\ Runs(c, ctx)
    /\ handler[c][ctx] # <<>> /\ handler[c][ctx][1] = "loaded"
    /\ fresh' = IF Flushes(handler[c][ctx][2]) THEN fresh \cup {c} ELSE fresh
    /\ handler' = [handler EXCEPT ![c][ctx] = <<>>]
    /\ UNCHANGED <<tasks, boots, con, tlb, budget>>

-----------------------------------------------------------------------------
Zeros == [t \in Tasks |-> 0]

CoresInit ==
    /\ budget \in Machines
    /\ cores = [c \in Apics |-> IF c = 0 THEN NewCore("online", "local-apic")
                                ELSE IF c \in budget.aps THEN NewCore("registered", "bsp-proxy")
                                ELSE NewCore("unknown", "bsp-proxy")]
    /\ ready = <<>> /\ running = [c \in Apics |-> NoTask]
    /\ mailbox = [pending |-> Nobody, target |-> 0, seq |-> 0, acked |-> Nobody]
    /\ ap = [a \in Aps |-> [pc |-> "off", id |-> Nobody, seq |-> 0]]
    /\ apReady = [c \in Apics |-> 0] /\ proxied = <<>>
    /\ con = IF budget.aps = {} THEN [pc |-> "prompt", ap |-> 0] ELSE [pc |-> "plan", ap |-> NextAp(0)]
    /\ tlb = [page |-> 0, ack |-> {}, pend |-> {}]
    /\ handler = [c \in Apics |-> [loop |-> <<>>, isr |-> <<>>]]
    /\ tally = [submitted |-> Zeros, done |-> Zeros, dropped |-> Zeros]
    /\ forced = {} /\ fresh = {}

Boot == StartApPlan \/ StartApIpi \/ StartApWait \/ StartApSync
Arrive(a) == ApKernelEntry(a) \/ SignalApReady(a) \/ ApEntryStub(a) \/ ApIdleLoop(a)
Console ==
    \/ CmdCpuAddAp \/ CmdCpuStartAp \/ CmdCpuStartApForce \/ StatusWaitEnds \/ CmdCpuAckAp
    \/ CmdCpuHalt \/ CmdSchedule \/ CmdComplete \/ CmdYield \/ CmdRunNext \/ CmdCpuStepAp
    \/ CmdCpuIpiTlb \/ StorePage \/ StoreAck \/ StorePending \/ WaitEnds
Shoot(c, ctx) ==
    TakePending(c, ctx) \/ SetAck(c, ctx) \/ LoadShotPage(c, ctx) \/ ApplyTlbShootdown(c, ctx)
Interrupt(c) == LocalApicTick(c) \/ RescheduleIpi(c)

CoresNext ==
    \/ Boot \/ Console \/ PitTick
    \/ \E a \in Aps : Arrive(a)
    \/ \E c \in Apics : Interrupt(c)
    \/ \E c \in Apics, ctx \in {"loop", "isr"} : Shoot(c, ctx)

CoresSpec == CoresInit /\ [][CoresNext]_coreVars

-----------------------------------------------------------------------------
CoreStates == {"unknown", "registered", "booting", "online", "halted"}
Handlers == {<<>>, <<"taken">>, <<"acked">>} \cup {<<"loaded", p>> : p \in ShotPages \cup {0}}

\* Every variable holds a value of its kind, within the room of its table.
CoresTypeOK ==
    /\ \A c \in Apics :
        /\ cores[c].st \in CoreStates /\ cores[c].drive \in {"bsp-proxy", "local-apic"}
        /\ Range(cores[c].queue) \subseteq Tasks /\ Len(cores[c].queue) <= QueueRoom
        /\ cores[c].depth \in 0..QueueRoom /\ cores[c].cursor \in 0..Slice
        /\ running[c] \in [task : Tasks \cup {Nothing}, age : 0..Slice]
        /\ handler[c] \in [loop : Handlers, isr : Handlers]
    /\ Range(ready) \subseteq Tasks /\ Len(ready) <= ReadyRoom
    /\ mailbox.pending \in Apics /\ mailbox.target \in Apics
    /\ \A a \in Aps : ap[a].pc \in {"off", "trampoline", "stub", "signalled", "idle"}
    /\ tlb.ack \subseteq Apics /\ tlb.pend \subseteq Apics /\ tlb.page \in ShotPages \cup {0}

Copies(t) ==
    Cardinality({i \in DOMAIN ready : ready[i] = t}) + Cardinality({c \in Apics : running[c].task = t})

\* No dispatch, steal, preemption, yield or halt loses a scheduled task or runs
\* it twice: what was submitted is ready, running, completed or was dropped from
\* a full ready queue.
TasksConserved ==
    \A t \in Tasks : tally.submitted[t] = Copies(t) + tally.done[t] + tally.dropped[t]

Preempted(c) == running[c].task # Nothing /\ running'[c].task # Nothing /\ running[c].age >= Slice
                /\ running'[c].age = 0 /\ ready # <<>>

\* A core whose slice ran out goes on with a task of the highest priority there
\* is, although dispatching from the middle and swap_remove disturb the order
\* of the ready queue (Scheduler::preempt_if_expired_on).
PreemptPicksHighest ==
    [][\A c \in Apics : Preempted(c) =>
        \A t \in Range(ready') : Priority(t) <= Priority(running'[c].task)]_coreVars

\* A booting core owns the startup mailbox, so at most one core is booting, and
\* a core that has come online has given it back (plan_ap_startup,
\* complete_ap_startup_with_seq).
BootingOwnsMailbox ==
    \A c \in Apics :
        /\ cores[c].st = "booting" => mailbox.pending = c
        /\ cores[c].st = "online" => c = 0 \/ mailbox.pending # c

\* The trampoline page and its stack serve one AP at a time, and what an AP reads
\* there names that AP, however late it comes, unless the operator acknowledged
\* a core by hand (the comment at the start of the AP loop in kernel_main).
TrampolineExclusive ==
    forced = {} =>
        /\ Cardinality({a \in Aps : ap[a].pc = "trampoline"}) <= 1
        /\ \A a \in Aps : ap[a].id \in {Nobody, a}

\* A core the kernel dispatches to has really arrived, with the sequence number
\* of its latest start, unless the operator acknowledged it by hand.
OnlineArrived ==
    forced = {} => \A a \in Aps :
        cores[a].st = "online" => ap[a].pc \in {"signalled", "idle"} /\ apReady[a] = ap[a].seq

\* A core whose acknowledgement stands has dropped the page being shot down, or
\* is in its handler and about to: a handler overtaken by the next shootdown
\* answers for the new page (take_tlb_shootdown, begin_tlb_shootdown).
AckCarriesPage ==
    con.pc # "ack" => \A c \in tlb.ack :
        \/ c \in fresh
        \/ \E ctx \in {"loop", "isr"} :
            handler[c][ctx] = <<"acked">> \/ \E p \in {0, tlb.page} : handler[c][ctx] = <<"loaded", p>>

HasWork(s, c) ==
    /\ s.cores[c].st = "online" /\ s.running[c].task = Nothing
    /\ \E t \in Range(s.cores[c].queue) : t \in Range(s.ready)

AfterTicks(s, c, n) ==
    LET after[k \in 0..n] == IF k = 0 THEN s ELSE [ServiceCoreRuntimeStep(after[k - 1], c) EXCEPT !.told = Nothing]
    IN after[n]

\* An idle core takes a ready task of its run queue within as many ticks as the
\* queue is long, whatever stale entries stand before it
\* (Kernel::execute_next_on_core).
IdleCoreTakesWork ==
    \A c \in Apics : HasWork(Now, c) => AfterTicks(Now, c, Len(cores[c].queue)).running[c].task # Nothing

\* Scheduled work is neither lost nor duplicated, an idle core gets to the work
\* queued on it, and a core whose slice is over goes on with the most urgent
\* (kernel.rs, scheduler.rs, multicore.rs).
SchedulingSound == [](CoresTypeOK /\ TasksConserved /\ IdleCoreTakesWork) /\ PreemptPicksHighest

\* The words and pages through which one processor starts another, or has it drop
\* a translation, are used for one at a time, and an answer left there is the
\* answer to the last request (multicore.rs, main.rs).
AnswersAreCurrent == BootingOwnsMailbox /\ TrampolineExclusive /\ OnlineArrived /\ AckCarriesPage
=============================================================================
