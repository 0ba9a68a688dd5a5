------------------------------- MODULE Memory -------------------------------
(* Who owns the machine's memory: the boot steps that take frames (heap.rs,
   main.rs), processes' address spaces (elf.rs, process.rs, syscall.rs), the
   unified-memory regions shared with the GPU and their DMA windows (um.rs,
   iommu.rs, gpu.rs) and the console's raw frame and page commands
   (console.rs).  Every command runs to its end on the bootstrap core with the
   frame allocator's lock held, so each is one action; what varies is their
   order, their arguments, and where memory, table or window space runs out. *)
EXTENDS Elf

CONSTANTS MemoryMap,     \* the bootloader's map: <<[base, len, usable], ...>>
          LowMemory,     \* bytes never allocated
          BootRoot,      \* the page-table root the bootloader left in CR3
          BootTables,    \* the bootloader's tables: [frame -> table]
          BootPages,     \* pages the boot identity-maps, in order
          HeapFrames,
          MaxProcs, MaxRegions, MaxWindows, MaxRegionFrames,
          Scenarios      \* [kinds, images, ops]: the commands typed, the
                         \* programs in the ramdisk, how many commands

VARIABLES mem,       \* [fa, tab, data]
          boot,      \* boot steps not yet taken
          heap,      \* frames of the kernel heap
          procs,     \* process slot -> page-table root, or None
          regions,   \* um.rs: [id, base, n, gpu]
          nextId,
          windows,   \* iommu.rs: [base, n]
          gpu,       \* device side: resource id -> the frames backing it
          raw,       \* frames `palloc` handed to the operator
          last,      \* the last command: [op, ok]
          sc

memoryVars == <<mem, boot, heap, procs, regions, nextId, windows, gpu, raw, last, sc>>

Slots == 1..MaxProcs
Span(base, n) == base..(base + n - 1)
Live == {p \in Slots : procs[p] # None}

MemoryInit ==
  /\ sc \in Scenarios
  /\ mem = [fa |-> BootInit(MemoryMap, LowMemory),
            tab |-> [f \in RAM |-> IF f \in DOMAIN BootTables THEN BootTables[f] ELSE Cleared],
            data |-> [f \in RAM |-> Zeroed]]
  /\ boot = <<None>> \o BootPages
  /\ heap = {} /\ raw = {} /\ regions = << >> /\ windows = << >>
  /\ procs = [p \in Slots |-> None]
  /\ nextId = 1
  /\ gpu = << >>
  /\ last = [op |-> "boot", ok |-> TRUE]

Kroot == BootRoot

-----------------------------------------------------------------------------
(* Boot. A step that fails is reported and the boot goes on.                 *)
HeapInit ==
  LET base == AllocContiguous(mem.fa, HeapFrames)
  IN IF base = None THEN UNCHANGED <<mem, heap>>
     ELSE /\ mem' = [mem EXCEPT !.fa = Taken(@, Span(base, HeapFrames))]
          /\ heap' = Span(base, HeapFrames)

(* The trampoline page is memory; device registers are mapped without execution
   (kernel_mmio; that they are not cached is left out).                      *)
IdentityMap(page) ==
  MapPage(mem, Kroot, page, page, IF page \in RAM THEN KernelRWX ELSE KernelRW).m

BootStep ==
  /\ boot # << >>
  /\ boot' = Tail(boot)
  /\ IF Head(boot) = None THEN HeapInit
     ELSE mem' = IdentityMap(Head(boot)) /\ UNCHANGED heap
  /\ UNCHANGED <<procs, regions, nextId, windows, gpu, raw, last, sc>>

-----------------------------------------------------------------------------
(* Commands: each uses up one of the scenario's operations.                  *)
Typed(kind) ==
  /\ boot = << >>
  /\ kind \in sc.kinds
  /\ sc.ops > 0
  /\ sc' = [sc EXCEPT !.ops = @ - 1]
  /\ UNCHANGED <<boot, heap>>

Did(op, ok) == last' = [op |-> op, ok |-> ok]

FreeSlots == {p \in Slots : procs[p] = None}

(* spawn_image and register: no slot left destroys the loaded space.         *)
Spawn(img) ==
  /\ Typed("spawn")
  /\ UNCHANGED <<regions, nextId, windows, gpu, raw>>
  /\ \E r \in {LoadImage(mem, Kroot, img)} :
       IF r.root # None /\ FreeSlots # {}
       THEN /\ mem' = r.m
            /\ procs' = [procs EXCEPT ![Min(FreeSlots)] = r.root]
            /\ last' = [op |-> "spawn", ok |-> TRUE, img |-> img]
       ELSE /\ mem' = IF r.root = None THEN r.m ELSE Destroy(r.m, r.root)
            /\ UNCHANGED procs
            /\ Did("spawn", FALSE)

Reap(p) ==
  /\ Typed("reap")
  /\ p \in Live
  /\ mem' = Destroy(mem, procs[p])
  /\ procs' = [procs EXCEPT ![p] = None]
  /\ Did("reap", TRUE)
  /\ UNCHANGED <<regions, nextId, windows, gpu, raw>>

(* run_user_smoke: a page of code and a page of stack for one run.           *)
SmokePage(acc, root, vp, flags) ==
  LET f == AllocFrame(acc.m.fa)
      r == MapUser([acc.m EXCEPT !.fa = Taken(@, {f})], root, vp, f, flags)
  IN IF acc.err # "none" THEN acc
     ELSE IF f = None THEN [acc EXCEPT !.err = "OutOfFrames"]
     ELSE IF r.err = "none" THEN r ELSE [r EXCEPT !.m.fa = FreeFrame(@, f)]

UserSmoke ==
  LET made == FromKernel(mem, Kroot)
      code == SmokePage([m |-> made.m, err |-> "none"], made.root, UserBase, UserRX)
      both == SmokePage(code, made.root, UserBase + 1, UserRW)
      ran  == IF both.err # "none" THEN both.m
              ELSE [both.m EXCEPT !.data[Translate(both.m, made.root, UserBase)][0] = 1]
  IN /\ Typed("smoke")
     /\ mem' = IF made.root = None THEN mem ELSE Destroy(ran, made.root)
     /\ Did("smoke", made.root # None /\ both.err = "none")
     /\ UNCHANGED <<procs, regions, nextId, windows, gpu, raw>>

(* A system call's copy_to_user into the calling process.                    *)
CopyOut(p, v, bytes) ==
  LET r == CopyToUser(mem, procs[p], v, bytes)
  IN /\ Typed("copy")
     /\ p \in Live
     /\ mem' = r.m
     /\ last' = [op |-> "copy", ok |-> r.ok, proc |-> p, v |-> v, bytes |-> bytes]
     /\ UNCHANGED <<procs, regions, nextId, windows, gpu, raw>>

(* pfree and vmmap take any address.  The operator modelled here may free what
   is free already or out of range, which is refused; otherwise they name frames
   palloc gave them, and unmap a frame before freeing it.  The code does not stop
   them from freeing or mapping a frame somebody else has: that nobody does is
   an assumption.                                                            *)
Palloc ==
  LET f == AllocFrame(mem.fa)
  IN /\ Typed("palloc")
     /\ mem' = IF f = None THEN mem ELSE [mem EXCEPT !.fa = Taken(@, {f})]
     /\ raw' = raw \cup ({f} \ {None})
     /\ Did("palloc", f # None)
     /\ UNCHANGED <<procs, regions, nextId, windows, gpu>>

Pfree(f) ==
  /\ Typed("pfree")
  /\ IF f >= mem.fa.total \/ f \in mem.fa.free
     THEN Did("pfree", FALSE)
     ELSE /\ f \in raw
          /\ \A vp \in Pages : Translate(mem, Kroot, vp) # f
          /\ Did("pfree", TRUE)
  /\ mem' = [mem EXCEPT !.fa = FreeFrame(@, f)]
  /\ raw' = raw \ {f}
  /\ UNCHANGED <<procs, regions, nextId, windows, gpu>>

(* vmmap and vmunmap work on the kernel's own tables.                        *)
VmMap(vp, f, flags) ==
  LET r == MapPage(mem, Kroot, vp, f, flags)
  IN /\ Typed("vmmap")
     /\ f \in raw
     /\ mem' = r.m
     /\ Did("vmmap", r.err = "none")
     /\ UNCHANGED <<procs, regions, nextId, windows, gpu, raw>>

VmUnmap(vp) ==
  /\ Typed("vmunmap")
  /\ Translate(mem, Kroot, vp) # None
  /\ mem' = UnmapPage(mem, Kroot, vp)
  /\ Did("vmunmap", TRUE)
  /\ UNCHANGED <<procs, regions, nextId, windows, gpu, raw>>

-----------------------------------------------------------------------------
(* iommu.rs: one identity window per region.                                 *)
Overlap(a, n, b, k) == a < b + k /\ b < a + n

MapIdentity(ws, base, n) ==
  IF \/ n = 0
     \/ \E w \in Range(ws) : Overlap(base, n, w.base, w.n)
     \/ Len(ws) = MaxWindows
  THEN [ws |-> ws, ok |-> FALSE] ELSE [ws |-> Append(ws, [base |-> base, n |-> n]), ok |-> TRUE]

SwapRemove(s, i) == SubSeq([s EXCEPT ![i] = s[Len(s)]], 1, Len(s) - 1)

UnmapWindow(ws, base) ==
  LET at == {i \in DOMAIN ws : ws[i].base = base}
  IN IF at = {} THEN ws ELSE SwapRemove(ws, Min(at))

TranslateDma(ws, f) ==
  IF \E w \in Range(ws) : f \in Span(w.base, w.n) THEN f ELSE None

-----------------------------------------------------------------------------
(* um.rs.  u is the unified-memory part of the state.                        *)
Um == [m |-> mem, regions |-> regions, windows |-> windows, next |-> nextId, ok |-> TRUE]

SetUm(u) ==
  /\ mem' = u.m
  /\ regions' = u.regions
  /\ windows' = u.windows
  /\ nextId' = u.next

ZeroSpan(m, base, n) ==
  [m EXCEPT !.data = [f \in RAM |-> IF f \in Span(base, n) THEN Zeroed ELSE @[f]]]

GiveBack(m, base, n) == [m EXCEPT !.fa = FreeFrames(@, Span(base, n))]

UmAllocate(u, n) ==
  LET base  == AllocContiguous(u.m.fa, n)
      taken == ZeroSpan([u.m EXCEPT !.fa = Taken(@, Span(base, n))], base, n)
      w     == MapIdentity(u.windows, base, n)
  IN IF n = 0 \/ n > MaxRegionFrames \/ base = None THEN [u EXCEPT !.ok = FALSE]
     ELSE IF Len(u.regions) = MaxRegions
     THEN [u EXCEPT !.m = GiveBack(taken, base, n), !.ok = FALSE]
     ELSE IF ~w.ok
     THEN [u EXCEPT !.m = GiveBack(taken, base, n), !.ok = FALSE, !.next = @ + 1]
     ELSE [u EXCEPT !.m = taken, !.windows = w.ws, !.next = @ + 1,
                    !.regions = Append(@, [id |-> u.next, base |-> base, n |-> n, gpu |-> None])]

UmRelease(u, i) ==
  LET r == u.regions[i]
  IN [u EXCEPT !.m = GiveBack(@, r.base, r.n), !.windows = UnmapWindow(@, r.base),
               !.regions = SwapRemove(@, i)]

UmAlloc(n) ==
  LET u == UmAllocate(Um, n)
  IN /\ Typed("umalloc")
     /\ SetUm(u)
     /\ Did("umalloc", u.ok)
     /\ UNCHANGED <<procs, gpu, raw>>

UmFree(i) ==
  /\ Typed("umfree")
  /\ i \in DOMAIN regions
  /\ SetUm(UmRelease(Um, i))
  /\ Did("umfree", TRUE)
  /\ UNCHANGED <<procs, gpu, raw>>

Filled == [i \in 0..(FrameSize - 1) |-> 5]

(* attach_gpu: the device is given the region's frames under a new resource
   id and the id is recorded in the region; a device that refuses a later step
   of the sequence ("halfway") keeps the backing, and no id is recorded.     *)
Device == {"refused", "halfway", "attached"}

Backed(dev, fs) == IF dev = "refused" THEN gpu ELSE Append(gpu, fs)

Attached(rs, i, dev) ==
  IF dev = "attached" THEN [rs EXCEPT ![i].gpu = Len(gpu) + 1] ELSE rs

(* smoke: alloc, fill, attach; a region the device refused is kept.          *)
UmSmoke(dev) ==
  LET u == UmAllocate(Um, 1)
      i == Len(u.regions)
      f == u.regions[i].base
  IN /\ Typed("umsmoke")
     /\ dev # "refused" => u.ok /\ TranslateDma(u.windows, f) # None
     /\ SetUm(IF ~u.ok THEN u
              ELSE [u EXCEPT !.m.data[f] = Filled, !.regions = Attached(@, i, dev)])
     /\ gpu' = IF u.ok THEN Backed(dev, {f}) ELSE gpu
     /\ Did("umsmoke", u.ok)
     /\ UNCHANGED <<procs, raw>>

CopySpan(m, from, to, n) ==
  [m EXCEPT !.data = [f \in RAM |-> IF f \in Span(to, n) THEN @[from + (f - to)] ELSE @[f]]]

Moved(r, base) == [r EXCEPT !.base = base, !.gpu = None]

(* migrate: new frames, copy, swap the window, then give the old ones back.  *)
UmMigrate(i) ==
  LET old   == regions[i]
      base  == AllocContiguous(mem.fa, old.n)
      taken == CopySpan([mem EXCEPT !.fa = Taken(@, Span(base, old.n))], old.base, base, old.n)
      dropped == UnmapWindow(windows, old.base)
      w     == MapIdentity(dropped, base, old.n)
      ok    == base # None /\ w.ok
  IN /\ Typed("ummigrate")
     /\ i \in DOMAIN regions
     /\ SetUm(IF ok
              THEN [Um EXCEPT !.m = GiveBack(taken, old.base, old.n), !.windows = w.ws,
                              !.regions[i] = Moved(@, base)]
              ELSE IF base = None THEN Um
              ELSE [Um EXCEPT !.m = GiveBack(taken, base, old.n),
                              !.windows = MapIdentity(dropped, old.base, old.n).ws])
     /\ last' = [op |-> "ummigrate", ok |-> ok, from |-> old]
     /\ UNCHANGED <<procs, gpu, raw>>

(* um_scanout: the device shows the region under its recorded resource, which
   it already has, or under one that is not recorded.                        *)
UmScanout(i, dev) ==
  LET r == regions[i]
  IN /\ Typed("scanout")
     /\ i \in DOMAIN regions
     /\ TranslateDma(windows, r.base) # None
     /\ gpu' = IF r.gpu = None THEN Backed(dev, Span(r.base, r.n)) ELSE gpu
     /\ Did("scanout", TRUE)
     /\ UNCHANGED <<mem, procs, regions, nextId, windows, raw>>

-----------------------------------------------------------------------------
CONSTANTS CopyTargets, \* [v, bytes] given to copy_to_user
          VmPages      \* pages named in vmmap and vmunmap

MemoryNext ==
  \/ BootStep
  \/ \E img \in sc.images : Spawn(img)
  \/ \E p \in Slots : Reap(p)
  \/ UserSmoke
  \/ \E p \in Slots, c \in CopyTargets : CopyOut(p, c.v, c.bytes)
  \/ Palloc
  \/ \E f \in RAM \cup {mem.fa.total} : Pfree(f)
  \/ \E vp \in VmPages, f \in RAM, flags \in {KernelRX, KernelRW, UserRW} : VmMap(vp, f, flags)
  \/ \E vp \in VmPages : VmUnmap(vp)
  \/ \E n \in 0..(MaxRegionFrames + 1) : UmAlloc(n)
  \/ \E i \in 1..MaxRegions : UmFree(i)
  \/ \E dev \in Device : UmSmoke(dev)
  \/ \E i \in 1..MaxRegions : UmMigrate(i)
  \/ \E i \in 1..MaxRegions, dev \in Device : UmScanout(i, dev)

MemorySpec == MemoryInit /\ [][MemoryNext]_memoryVars

-----------------------------------------------------------------------------
EntryType == [to : -1..(MaxFrames + Cardinality(Pages)), user : BOOLEAN, w : BOOLEAN, x : BOOLEAN]

(* Types: the allocator's counter equals the zero bits of its bitmap (the two
   are kept by separate statements, allocator.rs), tables hold entries.      *)
MemTypeOK ==
  /\ mem.fa.free \subseteq 0..(mem.fa.total - 1)
  /\ mem.fa.count = Cardinality(mem.fa.free)
  /\ mem.tab \in [RAM -> [Idx -> EntryType]]
  /\ procs \in [Slots -> RAM \cup {None}]
  /\ Len(regions) <= MaxRegions /\ Len(windows) <= MaxWindows

Reserved == RAM \ BootInit(MemoryMap, LowMemory).free

(* What each part of the kernel believes it owns: <<owner, place, frame>>.   *)
TreeClaims(who, root, pages, floor) ==
  UNION {{<<who, l, vp, At(mem, root, vp, l)>> : vp \in {q \in pages : q % Fanout^l = 0}}
            : l \in floor..(Levels - 1)}
    \cup {<<who, Levels, 0, root>>}

Claims ==
  LET reserved == Reserved
  IN {<<<<"free", 0>>, 0, f, f>> : f \in mem.fa.free}
    \cup {<<<<"reserved", 0>>, 0, f, f>> : f \in reserved}
    \cup {<<<<"heap", 0>>, 0, f, f>> : f \in heap}
    \cup {<<<<"raw", 0>>, 0, f, f>> : f \in raw}
    \cup {c \in TreeClaims(<<"kernel", 0>>, Kroot, Pages, 1) : c[4] \notin reserved}
    \cup UNION {TreeClaims(<<"proc", p>>, procs[p], UserBase..(UserTop - 1), 0) : p \in Live}
    \cup UNION {{<<<<"region", regions[i].id>>, 0, f, f>> : f \in Span(regions[i].base, regions[i].n)}
                   : i \in DOMAIN regions}

(* Every frame of RAM has exactly one owner: free, reserved, the heap, the
   kernel's tables, one process's tables or pages, one region, or the
   operator.  A frame with none has leaked (a failed load, a refused region,
   a reaped process), one with two is written by strangers.                  *)
OneOwner ==
  LET frames == 0..(mem.fa.total - 1)
      cs     == {c \in Claims : c[4] \in frames}
  IN frames \subseteq {c[4] : c \in cs} /\ Cardinality(cs) = Cardinality(frames)

PagesOf(m, root) == {Translate(m, root, vp) : vp \in UserBase..(UserTop - 1)} \ {None}

(* What ring 3 can reach through a process's tables, in any slot, is its own
   pages and nothing of the kernel or another process, except frames the
   operator mapped for users by hand (descend_user, get_or_create).          *)
Ring3Confined ==
  \A p \in Live :
    {Translate(mem, procs[p], vp) : vp \in {q \in Pages : UserAccess(mem, procs[p], q)}}
      \subseteq PagesOf(mem, procs[p]) \cup raw

(* The device's DMA windows are the live regions', one each: none is left
   behind by a freed or moved region, none is missing (um.rs, iommu.rs).     *)
WindowsMatchRegions ==
  /\ Len(windows) = Len(regions)
  /\ {<<w.base, w.n>> : w \in Range(windows)} = {<<r.base, r.n>> : r \in Range(regions)}

(* A region's recorded GPU resource is backed by the region's own frames,
   also after the region has moved (um.rs migrate clears the id).            *)
ResourceIsCurrent ==
  \A r \in Range(regions) : r.gpu # None => gpu[r.gpu] \subseteq Span(r.base, r.n)

Ran(op) == sc' # sc /\ last'.op = op

(* A load, a copy or a unified-memory operation that is refused, for whatever
   reason and however far it had got, leaves the allocator, the regions, their
   windows and the contents of every frame in use as they were (elf.rs: "On
   failure every frame allocated so far is returned").                       *)
RefusedChangesNothing ==
  [][ (\E op \in {"spawn", "copy", "umalloc", "umsmoke", "ummigrate"} : Ran(op)) /\ ~last'.ok =>
        /\ mem'.fa = mem.fa
        /\ regions' = regions
        /\ Range(windows') = Range(windows)
        /\ \A f \in RAM \ mem.fa.free :
             mem'.tab[f] = mem.tab[f] /\ mem'.data[f] = mem.data[f] ]_memoryVars

NewSlot == CHOOSE p \in Slots : procs[p] # procs'[p]

(* A loaded program is what its image says, byte by byte: each page holds the
   file's bytes and otherwise zeros (nothing of the frame's last owner), has
   the permissions of the segments in it, and nothing else but the stack is
   mapped, so the page below the stack is a guard (elf.rs load_image).       *)
LoadedExactly ==
  [][ Ran("spawn") /\ last'.ok =>
        LET root == procs'[NewSlot]
            img  == last'.img
        IN \A vp \in UserBase..(UserTop - 1) :
             LET segs == ImageSegs(img, vp)
                 f    == Translate(mem', root, vp)
                 e    == Entry(mem', root, vp, 1)
             IN IF segs = {} /\ ~StackPage(vp) THEN f = None
                ELSE /\ f # None /\ UserAccess(mem', root, vp)
                     /\ e.w = (StackPage(vp) \/ \E s \in segs : s.w)
                     /\ e.x = (\E s \in segs : s.x)
                     /\ \A a \in PageBytes(vp) :
                          mem'.data[f][a % FrameSize] = ImageByte(img, a) ]_memoryVars

(* A step writes no frame that was in use, except a system call's copy into
   the calling process's own pages; and only the boot and the operator's vmmap
   and vmunmap change a table in use, the kernel's (elf.rs validate: without
   it "a segment at an address the user page tables already translate (the
   kernel-shared slots) would have been *copied into*").                     *)
OthersUntouched ==
  [][ sc' # sc =>
        \A f \in RAM \ mem.fa.free :
          /\ mem'.data[f] # mem.data[f] =>
               last'.op = "copy" /\ f \in PagesOf(mem, procs[last'.proc])
          /\ mem'.tab[f] # mem.tab[f] =>
               /\ last'.op \in {"vmmap", "vmunmap"}
               /\ \A p \in Live : f \notin OwnedFrames(mem, procs[p]) ]_memoryVars

(* copy_to_user writes exactly the bytes it was given, across page ends, and
   only where the process itself could write.                                *)
CopyIsExact ==
  [][ Ran("copy") /\ last'.ok =>
        LET root == procs[last'.proc]
            n    == Len(last'.bytes)
        IN \A vp \in UserBase..(UserTop - 1), b \in 0..(FrameSize - 1) :
             LET f == Translate(mem, root, vp)
                 i == vp * FrameSize + b - last'.v + 1
             IN IF i \in 1..n
                THEN Entry(mem, root, vp, 1).w /\ mem'.data[f][b] = last'.bytes[i]
                ELSE f # None => mem'.data[f][b] = mem.data[f][b] ]_memoryVars

(* A region keeps its contents through every operation on it and on others,
   migration to other frames included.                                       *)
RegionContentsKept ==
  [][ \A r \in Range(regions), s \in Range(regions') : r.id = s.id =>
        \A i \in 0..(r.n - 1) : mem'.data[s.base + i] = mem.data[r.base + i] ]_memoryVars

(* Every frame has one owner, and what ring 3 and the GPU can reach is theirs:
   a process's own pages, a live region's own frames (paging.rs, um.rs).     *)
FramesOwned == MemTypeOK /\ OneOwner /\ Ring3Confined /\ WindowsMatchRegions /\ ResourceIsCurrent

(* What is written is exactly what was asked for, where it was asked for: a
   program, a system call's result, a region that moves (elf.rs, um.rs).     *)
WritesAreExact == LoadedExactly /\ OthersUntouched /\ CopyIsExact /\ RegionContentsKept
=============================================================================
