# A TLA+ model of the Cognitive Distributed Kernel

CDK is a bare-metal kernel in Rust that runs agents in ring 3 under capabilities
and human approval.  This directory holds TLA+ modules translated from its code,
TLC configurations that check them on small instances, and TLAPS proofs of the
properties that matter most for every value of the constants.  `PROJECT.json`
maps every definition to the lines it models and lists the runs, the findings,
the hazards and the theorems.

## The system and its parts

* **Kernel** (`src/src`).  The console's CPU (topology slot 0) boots, measures
  what it boots, starts the other processors (APs) and then serves the operator's
  console.  Agents are processes in a fixed table (`process.rs`).  With APs they
  run there and the console's CPU only supervises; without, it runs them from its
  own loop.  Timer ticks charge budgets, preempt and kill.  System calls
  (`syscall.rs`, `agent.rs`, `tools.rs`) act on capability handles; a send that
  needs approval, and a tool call, block the agent until the console, the
  operators (`approvals.rs`), the gateway or a time-out answers.  What handles an
  agent may get is decided by reviewed grants under a policy (`policy.rs`), and
  everything is written to an audit log (`audit.rs`).
* **Link** (`src/link`).  The protocol crate shared by kernel and gateway:
  handshake and sealing (`secure.rs`), tools, approvals, attestation, peer
  capabilities, the sealed store.  Bytes travel over a virtio console or vsock.
* **Gateway** (`src/gateway`).  A host process: it attests the machine, and then
  offers MCP tools and models, the operators' spool, the store's file, and
  relays messages between CDK instances.
* **Loader** (`src/boot/uefi-loader`).  Measures and starts kernel and ramdisk.

The full list, with what is modelled of each, is under "components".

## Modules

| Module | Code | What it has |
|---|---|---|
| `ProcessTable` | `process.rs`, the methods under the `TABLE` lock | the table as a state machine; one action is one acquisition of the lock |
| `AgentCpu` | `run_one`, `on_user_tick`, `block_current`, `run_frame`, `cdk_user_resume`, `fpu.rs` | what CPUs do between two acquisitions; extends `ProcessTable`, whose actions are its table steps |
| `BlockingCalls` | `agent.rs`, `tools.rs`, `run_scheduled` | blocking calls and the loop that answers them; extends `ProcessTable` |
| `Approvals` | `approvals.rs`, `link/src/approval.rs`, `spool.rs`, `cdk-approve.rs` | signed approvals across CDK, gateway and operators |
| `Authority` | `capability.rs`, `agent.rs`, `policy.rs`, `console.rs`, `tools.rs` | tokens, handle tables, policy, review of grants, rules and listings, and what agents do through their handles |
| `AuditLog` | `audit.rs` | the ring of chained records, checkpoints, `verify` |
| `KernelObjects` | `kernel.rs`, `object.rs`, `message.rs`, `network.rs`, `transport.rs` | object table, mailboxes, software network stack, the bridge between them |
| `Cores` | `multicore.rs`, `scheduler.rs`, `kernel.rs`, `main.rs`, `percpu.rs`, `local_apic.rs`, `interrupts.rs` | start of the APs through one trampoline, run queues and preemption of intents, TLB shootdown |
| `Frames`, `Paging`, `Elf`, `Memory` | `allocator.rs`, `phys_mem.rs`, `heap.rs`, `paging.rs`, `elf.rs`, `um.rs`, `iommu.rs`, `gpu.rs` | frame allocator, page tables, program loader, and who owns which memory |
| `VirtioPci`, `VirtioConsole`, `Vsock`, `LinkTransport` | the virtio drivers and the choice between them | devices and byte streams under the link |
| `SecureChannel` | | abstract: each direction of each session delivers a prefix of what was sealed |
| `Attestation`, `SecureLink` | `link.rs`, `link/src/secure.rs`, gateway `serve`, `attestation.rs`, tool listings | handshake, sealed frames, attestation, approved listings; implements `SecureChannel` |
| `Tpm`, `Boot` | `tpm.rs`, `boot.rs`, `initrd.rs`, the UEFI loader | the TIS driver and its command sequences; from boot media to a running, attested kernel |
| `PeerCredentials`, `PeerStore` | `peer.rs`, `store.rs`, `link/src/peer.rs`, gateway store and relay | capabilities between nodes, and the sealed store that keeps replay and revocation lists over reboots |
| `*_proofs` | | theorems and proofs of the module they are named after; `Authority_inv` and `BlockingCalls_inv` hold the inductive invariants and most of the lemmas, one per action, that `Authority_proofs` and `BlockingCalls_proofs` combine |
| `MC*` | | constants for TLC, and modules that put independent components beside each other |

**State and code.**  `ProcessTable` has one record per slot (`slots`), and per CPU
`current`, `sliceUsed` and `cursor`; `nextPid`, `slice` and `budget` are the
statics.  A tick is three actions, one per result of `tick` (`TickKill`,
`TickContinue`, `TickSwitch`), each with everything that happens under the same
lock.  `AgentCpu` adds where each CPU is, whose page tables it has loaded, and the
contents of general and FPU registers, abstracted to "whose, and how recent".
`BlockingCalls` has one variable per queue (`PENDING`, `OPEN`, `INFLIGHT`), the
program counter of every agent CPU and of `run_scheduled`; a step is one
acquisition of one lock, since requests are made on APs while the loop runs.  Time
is the age of each call; `lag` is the time since `poll` read the clock.
`Approvals` has the requests, the signatures made so far, the files in the spool,
the parts on the channel and the assembler's buffer.

`Authority` has the handle table of every process, the policy, the open batch, the
pinned listing and the queue of requests.  A console command holds the kernel until
it is over, and run_scheduled returns only when every agent it started has exited,
so commands and runs alternate (`con`); a command that applies several grants is
one step per table insertion, and `cap_derive` is two steps, one per lock, with the
token in the making between them (`child`).  A token's signature is what it covers
(`proof`).  `granted`, `reach` and `effects` are histories: grants that passed
review, lines of the reach diffs shown, what agents did.  `AuditLog` models a chain
hash as the list of what it covers.  `KernelObjects` numbers every accepted payload,
so that its whole way through mailboxes, queues and rings can be followed.  In
`Cores` the boot processor is one thread with a program counter (`con`), every AP
another, and the lock-free words of the shootdown are written one at a time.
`Memory` keeps every frame's content and every page table; each command is one
action, since it runs to its end under the allocator's lock, and what varies is
the order of commands and where memory, slots or windows run out.  `SecureLink`
names a session key by the two hellos that made it, and has kernel, gateway, agents
and frames in flight as separate state; frames may be lost, repeated or delayed, the
gateway restarted, the machine rebooted.  `Tpm` has the driver's wait loops against
a device that may be slow, silent or wrong.  `PeerStore` has a node that may crash
between any two steps, a TPM counter that survives, and a gateway whose answers may
come late.

**Composition.**  `AgentCpu` performs `ProcessTable`'s own actions on the table and
nothing else, so it implements it by construction.  `BlockingCalls` uses the same table
actions from the state right after `select`; preemption is left to `AgentCpu`, since a
syscall is not preempted, and so is a `run_frame` that fails: without APs it ends the
run with processes still Blocked (process.rs:795), which is a way for a call never
to return that `CallsReturn` does not speak of.  In
`BlockingCalls` and `Authority` a decision of the operators is one step that may or
may not happen; `Approvals` is that step in detail.  `SecureLink` takes the frames of
a byte stream as they come; `LinkTransport` shows what they come as.  `Boot` extends
`Tpm`, `Memory` extends `Elf`, `Paging` and `Frames`, `PeerStore` extends
`PeerCredentials`, `SecureLink` extends `Attestation`.  The modules `MCTables`
(objects, table, CPUs, log), `MCAgents` (CPUs, calls), `MCOperators` (votes,
authority), `MCMachine` (cores, calls, memory) and `MCLink` (transports, sessions) put
components that share no state side by side: a behaviour exercises one and leaves the
others as they were, so one run asks of each what a run of its own would.

**Assumed of callers and configuration.**  `Lockdown` is a constant, since the verdict of
boot verification does not change afterwards; under it `register` refuses everyone.  The
operator's `pfree` and `vmmap` (console.rs:3110-3186) take any address; here they take
frames that `palloc` gave out, since freeing a frame in use is the operator's error and
makes every statement about owners void.  Boot's identity maps give device registers no
execution; that they are uncached is left out.  `DeliveredOnce` says what
link/src/peer.rs:27-28 and 36-37 promise without a store, "once per boot of the receiving
node", and once in the life of a store while it is open; the second unless a restored list
overflowed, which the console reports, or a late answer confirmed a write
(`PeerStore_late`).

## Runs

"violation" runs check one statement of the repository's own documentation that
the code does not keep; the finding quotes it.

| Run | Instance | Shows |
|---|---|---|
| `Tables_limits` | object table: 4 ids, mailboxes and queues of 1, 3 interfaces; process table: 2 APs, 2 slots, 3 pids, settings 0 and 2; CPUs: 2 APs, 2 processes; audit log: ring of 3, interval 2, 7 records | no payload lost in silence and stale ids stay stale; table consistent, watchdog's bound, ended stays ended, round robin; general registers preserved and nobody executes twice; `verify` exact, records signed before they are evicted |
| `Agents_bsp` | the console's CPU; CPUs: 2 processes, slice 2, setting 0; calls: human or operators decide, 2 and 1 calls | FPU registers preserved, no destroyed address space active, every run ends; own answers only, a blocked agent has a request, approved actions once and in time, every call returns |
| `AgentCpu_fpu` (violation) | 2 APs | FPU registers are saved after the table lock is dropped: another CPU can restore stale ones |
| `BlockingCalls_lost_wakeup` (violation) | 1 AP | an answer between queueing and blocking is dropped |
| `Operators_policy` | votes: 2 pinned keys (symmetric), 1 stranger, 2 boots, 2 signatures of 2 parts; authority: 2 processes, 2 handles each, scenarios of grants, batches, rules, listings and gated calls, one with more labels than are kept | a quorum of different operators, decisions stand; handles are sound, no rule is ever broken while labels fit, all reach was shown object by object, effects were allowed |
| `Authority_diff` (violation) | 1 process | a permission goes from gated to ungated with no line that says so |
| `Authority_labels` (violation) | 1 process | a label past those `labels_of` keeps escapes its rule |
| `Machine_smp` | boards with 1 and 2 APs, queues of 2, ready list of 3, 2 shootdowns; calls: 2 APs, human or operators decide, 2 and 1 calls; 24 frames of 2 bytes, 3-level tables, 2 processes, 2 regions, 10 images good and bad | scheduled work conserved, start-up and shootdown answers current; late answers reach no other call, gated actions need an approval and happen once; every frame has one owner, refused commands change nothing, writes are exact |
| `Link_sessions` | devices good and faulty, 5 traffic plans; 15 gateway configurations, machines and fault budgets | streams intact; only proven machines served, calls as approved, undisturbed attempts succeed, sessions implement `SecureChannel` |
| `Boot_media` | every small archive, kernel and loader pin, TPMs absent, used, slow, wrong, full | what runs is what was measured, the driver and the TPM stay in step, operations end |
| `PeerStore_reboots` | one node, 2 peers, lists of 2, crashes, TPM failures, late answers, rolled-back file | delivered once and as authorised, no false alarm, jobs end |
| `PeerStore_late` (violation) | as above, one late answer | a late status confirms the next store write, and the counter moves for an envelope not stored |

Every passing run fires every action of the modules it checks.  Deadlock checking is
off where bounded calls, commands or records leave nothing to do, and where the
modelled loop really stops (`BlockingCalls` with APs: the lost wake-up and the
release loop).  Those two are also why `RunEnds`, `CallsReturn` and `BlockedHasRequest`
are checked on the console's own CPU: with APs the code does not have them.

**Bounds.**  Two CPUs are enough for one to act between two steps of the other, two
slots for a queue, a thief and an overtaking.  Slice 1 and budget 1 put every
comparison on both sides of its boundary, slice 2 (in `Agents_bsp`) a tick within
a slice; the console values 0, which is clamped, and 2 change slice and budget between
ticks.  Slots are reused after `reap`.
Two calls per process let a late answer to the first meet the second.  `MaxLag` 1 is
one tick between reading the clock and using it.  Two parts per signature (the code
has four) already give a first part, a last one and a restart; two boots reuse a
request id.  Two handles per process with grants of one, two and three make tables
full, two processes let `separate` rules bind within one and not across.  A ring of
three records with interval two evicts, checkpoints and wraps.  Queues of one and
two are empty, partly full and full.  Fifteen free frames and seven to nine per
process let the second spawn fail at every stage.  Three-entry tables of three levels
have a kernel slot, a user slot and an unused one.  Counters wrap at 4 (ring
indices) and 8 (vsock), so they do wrap.  Two attempts of a handshake, one fault,
two boots are what the interesting interleavings of the link need.  What depends
only on sizes is proved for all of them (below) where it could be.

**Fairness.**  `Agents_bsp`, the liveness of agents, has one CPU.  A CPU in the kernel goes on; ring 3 runs with interrupts enabled, so
ticks come (a tick whose `try_lock` fails is not charged; we assume it does not fail
for ever); the console's loop goes on; time passes.  In `AgentCpu` a blocked agent
is eventually answered, which `BlockingCalls` shows on one CPU.  In `Boot` the
kernel's own steps are fair (its waits count down), the TPM's are not.  In
`PeerStore` the node's steps and the passing of its own deadline are fair, and the
handling of an inbound message it has; nothing is assumed of the gateway, of the
operators or of crashes.

## Proofs

Every theorem holds for all values of the constants that satisfy the named
assumptions of its module; every one that states a property of a run was checked by
TLC first, and so was every inductive invariant.

**`ProcessTable_proofs`** (from `TableAssumption`; any number of slots, any list of
distinct CPUs, all settings): `TypeCorrect`, `UniquePids`, `ExclusiveRunning`,
`SoundAccounting`, `Consistent`, `WatchdogHolds`, `EndIsFinal`, `RoundRobinHolds`.
The inductive invariant `TableInv` (defined in `ProcessTable`) is `TableTypeOK /\ PidsUnique /\
OneCpuPerProcess /\ ScheduledStates`.  `OneCpuPerProcess` is not inductive alone: an
action finds its process by pid, so without `PidsUnique` a step on one CPU could
change the slot of another's process; and without `ScheduledStates` (what runs is
scheduled, what is scheduled has not ended) `RunAccounting` cannot be derived.  One
lemma per action shows that it preserves `TableInv`; `CurrentSlot` says that the slot
found for `current[c]` is the only one with that pid, is Running and has home `c`, and
carries most of them.  `WatchdogBound` has its own induction, since it needs the type
invariant only.  `RoundRobinHolds` rests on arithmetic of the circular distance
(`ScanMovesOn`).

**`AgentCpu_proofs`** (any number of CPUs unless said).  `RegistersAreOwn`: an agent resumes with its own general registers
and executes on one CPU only.  Its invariant `RegsInv` adds to `TableInv` what each CPU
holds at each program counter: whose registers, whose page tables, and that the frame in
a slot is the newest whenever no CPU still has newer ones of that process.
`CpuStateOnOneCpu` is for a machine without application processors (`Cpus = {0}`): the FPU
registers an agent finds in ring 3 are its own, and no CPU keeps page tables that `reap`
destroyed.  With application processors both are false, as `AgentCpu_fpu` and
`AgentCpu_reap` show, because `fpu::save` and `resume` come after the table lock is
released; on one CPU nobody can act in between.  The invariant `FpuInv` says why: the
console's commands run only while the CPU is idle (`ConsoleWaits`), an FPU area is current
except for the process in ring 3 and the one whose save is due (`InArea`), and only a CPU
that has not yet resumed the kernel has an agent's tables loaded (`TablesLoaded`).

**`Approvals_proofs`** (any keys, quorum, number of parts and of requests):
`QuorumOfPinned` and `DecisionsAreFinal`.  The invariant `VotesInv` relates the channel
to the assembler: parts on the wire are runs of parts of one signature in order
(`WireInOrder`), and the buffer holds the first parts of one signature
(`BufferInOrder`), so a complete buffer is a signature somebody made; and every
approved request has a quorum of different pinned voters whose signatures exist.

**`AuditLog_proofs`** (any capacity, interval, number of checkpoints and records):
`VerifyExact` and `SignaturesInTime`, from `AuditInvariant`.  The invariant says that
the ring holds the last records of what was said with the hashes they were given, that
the anchor is the hash of the last evicted one, that each kept checkpoint signs the
head of its time, and that the records without a signature are at most
`next % Interval`.

**`Authority_inv`, `Authority_proofs`** (any processes, handles, objects, policies, number
of labels kept and scenarios, from `AuthorityAssumption` and `OfficesAssumption`):
`AuthInvariant`, and from it `RulesAlwaysHold`, `ReachAlwaysShown`, `EffectsAlwaysAllowed`
and `HandlesAlwaysSound`.  What they say of rules is under `LabelsFit`: no object has more
labels than `labels_of` keeps (12), which is what the rules need (see `Authority_labels`).
`ReachWasShown` is per object: every permission held there was in a line for that object,
and where an agent can act without a human some line for that object said so, though perhaps
for another permission (see `Authority_diff`).
`RulesHold` is far from inductive.  `AuthInv` adds: every handle goes back to a grant by
`Narrower` (permissions taken away, the constraint kept), which is transitive, so
derivations keep it; a token between the two locks of `cap_derive` comes from a handle
still there (`Deriving`); a request's token is backed by a grant even if its handle is
dropped meanwhile (`Waiting`); the grants a command is still to apply were reviewed
together with what is held, so the rules hold of both together (`RulesKept`, over
`Grants(tables) \cup Todo`); no process is between its first and its last instruction
outside a run (`Unstarted`), so a review sees every handle as it will stand.  Rules are
stated elementwise (`Clean`) and shown equivalent to `Violations` once
(`CleanIffNone`); `CoveredIsClean` then carries every step: handles covered by those of
a clean set, with no more labels, are clean.  One subtlety came out of the proof: a
handle with no permission at all breaks no rule, but one derived from it may carry the
approval constraint and count, so in a run the empty handles of live processes count as
well (`Counts`, `Active`).

**`BlockingCalls_inv`, `BlockingCalls_proofs`** (any agents, CPUs, calls and time-outs, from
`TableAssumption` and `CallAssumption`, which says that `PENDING` and `INFLIGHT` have at
least as many places as the process table, as in the code: 8, 8 and 8).
`CallsAreAnsweredOnce`: an agent returns from a call with the answer to that call; a gated
action is carried out at most once, approved, and only while its agent waits for it; no
queue is full when a request comes.  `CallInv` says of every request, wherever it is
(queued, held by the loop, in flight), that it is of its process's latest call, which has
no answer yet, and that the process is Blocked or about to block (`Awaited`), and that no
process has two (`OneEach`).  A late reply or a time-out then finds the call it is for or
nothing, and by a pigeonhole argument over the processes who asks always finds room
(`RoomForOne`).  `Stacked` ties the place in `run_scheduled` to where its helpers return to.
`BlockedHaveRequests`: without application processors (`~Supervise`) every blocked agent
has a request that will answer it.  Its invariant `NoneLost` needs that the loop stands
still while the only CPU runs an agent (`LoopShape`), so that an answer never comes before
the process is Blocked.  With application processors this is not so, which is what the
finding of `BlockingCalls_lost_wakeup` shows.

**Only model-checked.**  Liveness (`RunEnds`, `CallsReturn`, `OperationsEnd`, `JobsEnd`)
is out of the prover's reach, as is whatever needs induction over data: the page-table
walks and the loader of `Paging` and `Elf` are recursive operators, on which
`FramesOwned`, `RefusedChangesNothing` and `WritesAreExact` rest; a tick of `KernelObjects`
is a fold over the bridge's bindings, so even that it removes no object (`StaleStaysStale`)
needs induction over them; likewise the folds of `SecureLink` and `Vsock`.  `Cores`, the
link, boot and the peer store are checked by TLC on the instances above and not proved.

## Differences met while modelling

Findings with a run are in `PROJECT.json`.  Others have a configuration to be run by
hand (`tlc -config X.cfg M`), which ends in the behaviour described:

* `AgentCpu_reap.cfg` (`MCAgents`): an address space can be destroyed while a CPU is
  still leaving it (process.rs:1004; paging.rs:835-836 says the caller must not).
* `BlockingCalls_early_timeout.cfg` (`MCAgents`): a call made after `now` was
  read expires at once (tools.rs:540; tools.rs:44).
* `BlockingCalls_release.cfg` (`MCAgents`): the release loop waits for a lock it holds
  (process.rs:822; 808-810).
* `Approvals_veto.cfg` (`Approvals`): a denial after one's own approval is refused
  (approvals.rs:282; 10-11).
* `PeerStore_off.cfg` (`MCPeerStore`): on a boot without the store's chain, one failed
  read of the TPM counter turns the store off instead of failing, and a message delivered
  before is delivered again (store.rs:172; 169-171 "must not reopen replay").
* `Link_loader.cfg` (`MCLink`): a gateway that expects a measured loader but was not
  started with `--tpm` serves a machine whose PCRs 11 and 12 it never saw
  (attestation.rs:509-515; ARCHITECTURE.md:361 "the gateway requires them").

The models follow the code, not the comments, in these further places:

* *Processes.*  A process first entered by tick's switch runs with `started` unset
  (process.rs:242), so its start is audited late or not at all.  `wait_any` returns only
  when a signed request is decided (ARCHITECTURE.md:263 says the scheduler "keeps other
  agents running while one waits").
* *Authority.*  A batch is not
  all-or-nothing when a table is full (console.rs:2058).  A capability import is consumed
  although its grant then fails (console.rs:1901-1905).  The listing is checked when a
  call is prepared and not again when it is dispatched (tools.rs:442).
* *Scheduler.*  `swap_remove(0)` (scheduler.rs:139) takes the newest to the front (the
  comment at 106 speaks of order).  A full ready queue drops silently; halting a core
  leaves its tasks in no queue.  An AP that misses `start_ap`'s wait keeps the mailbox
  busy for later ones (main.rs:703).  A shootdown acknowledges before the page is
  applied, and a second one overwrites the page of one that timed out.
* *Memory.*  `mapped_pages` may underflow (paging.rs:556).  A page shared by a writable
  and an executable segment is both.  `um` free and migrate leave a GPU resource attached
  to freed frames (um.rs:152, 313).  Interior tables are not reclaimed when `map` fails.
  More than 64 memory regions are dropped silently.
* *Link.*  A transmit after a time-out may return Ok early (virtio_console.rs:283-301,
  virtio_vsock.rs:621-638).  A ServerHello that comes late is read by the next attempt
  (link.rs:305).  A lost sealed frame ends that direction until a new handshake
  (link.rs:342).  A machine is enrolled on first use although its registers did not match.
  Two APs may both pass the `INFLIGHT` check.
* *Boot.*  `create_ak` does not flush its handle on a template mismatch; a zero-length
  file stops the loader; a TPM whose registers were extended before makes attestation
  software-only.
* *Store.*  The failed commit of a revocation is not undone.  A message that was
  recorded is lost if the object's queue is then full.  Lists drop entries when full.
* *Audit.*  A change to a record stops being visible to `verify` once it is evicted.

## Not modelled

Parsers and encodings (of rules, images' header fields, certificates, messages), the
assembly of entry stubs, register layouts, listing commands and printing: conversions no
property here is about.  Signatures, hashes and sealing are abstracted to who produced
what over what.  Kernel threads (`context.rs`), the memory graph and statistics are not
read by any decision.  Huge pages appear only in the kernel's own direct map.  Ids and
pids are unbounded where the code's 32- and 64-bit counters could wrap only after 2^32
operations.
