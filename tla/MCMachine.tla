----------------------------- MODULE MCMachine ------------------------------
(* The processors and the memory of a machine, and the blocking calls of agents
   on two application processors, beside each other: the kernel locks them
   apart, and a run exercises one and leaves the others as they were.
   Memory has three levels of three entries: slot 0 is the kernel's, slot 1
   the user's (pages 9..17), slot 2 unused until the boot maps device
   registers there.  24 frames of two bytes, of which 15 are left after the
   boot; a process takes 7 to 9.                                             *)
EXTENDS Cores, Memory

VARIABLES half,
          \* the process table and the calls of BlockingCalls
          slots, current, sliceUsed, cursor, nextPid, slice, limit,
          pc, kind, calls, rax, pending, open, inflight, lag, atGateway, replies,
          at, ret, done, signedMode, held, approved, performed

Agents == INSTANCE BlockingCalls WITH
            MaxProcesses <- 2, Homes <- <<1, 2>>, DefaultSlice <- 1, DefaultBudget <- 1,
            TickSettings <- {}, Lockdown <- FALSE, MaxPid <- 2, SignedModes <- BOOLEAN,
            Kinds <- <<{"tool"}, {"gated send"}>>, MaxCalls <- <<2, 1>>,
            MaxPending <- 2, MaxInflight <- 2, Timeout <- 1, MaxLag <- 1, TscBits <- 16,
            budget <- limit

agentVars == <<slots, current, sliceUsed, cursor, nextPid, slice, limit, pc, kind, calls, rax,
               pending, open, inflight, lag, atGateway, replies, at, ret, done, signedMode,
               held, approved, performed>>

MCOrder == <<0, 1, 2, 3>>
MCIntent == [t \in Tasks |-> IF t = "fast" THEN "low_latency" ELSE "batch"]

Board(aps, submits, shots, starts) ==
    [aps |-> aps, submits |-> submits, shots |-> shots, starts |-> starts]
MCMachines == {Board({}, 4, 0, 0), Board({1}, 3, 0, 0), Board({1}, 1, 0, 2), Board({1}, 0, 2, 0), Board({1}, 0, 1, 2),
               Board({1, 2}, 0, 0, 2), Board({1, 2}, 1, 0, 1)}

Region(first, n, usable) == [base |-> first * FrameSize, len |-> n * FrameSize, usable |-> usable]

MCMemoryMap == <<Region(0, 2, TRUE), Region(2, 3, FALSE), Region(5, 20, TRUE), Region(25, 2, FALSE),
                 Region(27, 4, TRUE)>>

To(f) == [to |-> f, user |-> FALSE, w |-> TRUE, x |-> TRUE]
Table(i, f) == [Cleared EXCEPT ![i] = To(f)]
MCBootTables == (2 :> Table(0, 3)) @@ (3 :> Table(0, 4)) @@ (4 :> Table(0, 0))
MCBootPages == <<1, 25, 26>>

Seg(w, x, off, vaddr, filesz, memsz) ==
  [load |-> TRUE, w |-> w, x |-> x, off |-> off, vaddr |-> vaddr, filesz |-> filesz, memsz |-> memsz]
Note == [Seg(FALSE, FALSE, 0, 0, 9, 0) EXCEPT !.load = FALSE]
Image(entry, segs) == [parses |-> TRUE, entry |-> entry, bytes |-> <<1, 2, 3, 4>>, segs |-> segs]

U == UserBase * FrameSize
Small    == Image(U, <<Note, Seg(FALSE, TRUE, 0, U, 1, 2)>>)
Shared   == Image(U + 1, <<Seg(FALSE, TRUE, 0, U + 1, 2, 2), Seg(TRUE, FALSE, 2, U + 3, 2, 3)>>)
Lapping  == Image(U + 1, <<Seg(TRUE, FALSE, 0, U, 4, 4), Seg(FALSE, TRUE, 1, U + 1, 1, 3)>>)
Above    == Image(U + 13, <<Seg(TRUE, TRUE, 1, U + 13, 3, 5)>>)
Broken   == [Small EXCEPT !.parses = FALSE]
OutOfIt  == Image(U, <<Seg(FALSE, TRUE, 0, U, 1, 2), Seg(TRUE, FALSE, 0, 0, 2, 2)>>)
OnGuard  == Image(U + 4, <<Seg(FALSE, TRUE, 0, U + 4, 1, 3)>>)
TooLong  == Image(U, <<Seg(FALSE, TRUE, 2, U, 3, 3)>>)
Wraps    == Image(U, <<Seg(FALSE, TRUE, 0, U, 1, 2), Seg(TRUE, FALSE, 0, AddrTop - 1, 1, 6)>>)
NoEntry  == Image(U, <<Seg(TRUE, FALSE, 0, U, 1, 2)>>)
MCImages == {Small, Shared, Lapping, Above, Broken, OutOfIt, OnGuard, TooLong, Wraps, NoEntry}

At2(v, bytes) == [v |-> v, bytes |-> bytes]
MCCopyTargets == {At2(U, <<7>>), At2(U + 3, <<7, 8>>), At2(U + 8, <<7, 8, 9>>), At2(U - 1, <<7, 8>>),
                  At2(U + 7, <<7, 8>>), At2(U + 11, <<8, 9>>)}
MCVmPages == {3, 9, 20}

MCScenarios == {
  [kinds |-> {"spawn", "reap", "copy"}, images |-> MCImages, ops |-> 4],
  [kinds |-> {"spawn", "reap", "palloc", "pfree", "smoke"}, images |-> MCImages, ops |-> 5],
  [kinds |-> {"spawn", "palloc", "pfree", "vmmap", "vmunmap"}, images |-> {Small}, ops |-> 4],
  [kinds |-> {"umalloc", "umfree", "ummigrate", "umsmoke", "scanout"}, images |-> {}, ops |-> 4],
  [kinds |-> {"spawn", "reap", "umalloc", "umfree", "ummigrate"}, images |-> {Small, Shared, Wraps},
   ops |-> 4]}

MCInit ==
    /\ half \in {"cores", "memory", "agents"}
    /\ CoresInit /\ MemoryInit /\ Agents!Init
    /\ half # "memory" => sc = (CHOOSE s \in MCScenarios : s.images = {})
    /\ half # "cores" => budget = (CHOOSE m \in MCMachines : TRUE)
    /\ half # "agents" => ~signedMode

\* Bound: with signed decisions each agent makes one call.
CallBound == signedMode => \A p \in {1, 2} : calls'[p] <= 1

MCNext ==
    \/ half = "cores" /\ CoresNext /\ UNCHANGED <<half, memoryVars, agentVars>>
    \/ half = "memory" /\ MemoryNext /\ UNCHANGED <<half, coreVars, agentVars>>
    \/ half = "agents" /\ Agents!Next /\ CallBound /\ UNCHANGED <<half, coreVars, memoryVars>>

MCSpec == MCInit /\ [][MCNext]_<<half, coreVars, memoryVars, agentVars>>

\* BlockingCalls' property, with application processors.
CallsAnsweredOnce == Agents!CallsAnsweredOnce
=============================================================================
