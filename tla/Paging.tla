------------------------------- MODULE Paging -------------------------------
(* Page tables and address spaces (paging.rs).  Physical memory is a record
   [fa, tab, data]: the frame allocator, each frame read as a page table, and
   each frame read as bytes.  A virtual page is a number whose Levels digits
   in base Fanout are the indices of the walk; the code has 4 levels of 512.
   Top-level slot UserSlot is the one an address space owns.                 *)
EXTENDS Frames

CONSTANTS Levels, Fanout, UserSlot

ASSUME PagingAssumption == Levels > 1 /\ Fanout > 1 /\ UserSlot \in 0..(Fanout - 1)

RAM      == 0..(MaxFrames - 1)
Idx      == 0..(Fanout - 1)
Pages    == 0..(Fanout^Levels - 1)
UserBase == UserSlot * Fanout^(Levels - 1)
UserTop  == UserBase + Fanout^(Levels - 1)
AddrTop  == Fanout^Levels * FrameSize

Unused  == [to |-> None, user |-> FALSE, w |-> FALSE, x |-> FALSE]
Cleared == [i \in Idx |-> Unused]
Zeroed  == [i \in 0..(FrameSize - 1) |-> 0]

KernelRX  == [user |-> FALSE, w |-> FALSE, x |-> TRUE]
KernelRW  == [user |-> FALSE, w |-> TRUE,  x |-> FALSE]
KernelRWX == [user |-> FALSE, w |-> TRUE,  x |-> TRUE]
UserRW    == [user |-> TRUE,  w |-> TRUE,  x |-> FALSE]
UserRX    == [user |-> TRUE,  w |-> FALSE, x |-> TRUE]

IsUserRange(start, len) ==
  start + len < AddrTop /\ start >= UserBase * FrameSize /\ start + len <= UserTop * FrameSize

Index(vp, l) == (vp \div Fanout^(l - 1)) % Fanout

(* The frame the walk of vp reaches above level l (l = 0: the mapped page),
   or None when an entry on the way is unused (descend, translate).          *)
RECURSIVE At(_, _, _, _)
At(m, root, vp, l) ==
  IF l = Levels THEN root
  ELSE LET up == At(m, root, vp, l + 1)
       IN IF up = None THEN None ELSE m.tab[up][Index(vp, l + 1)].to

Translate(m, root, vp) == At(m, root, vp, 0)

Entry(m, root, vp, l) ==
  LET t == At(m, root, vp, l) IN IF t = None THEN Unused ELSE m.tab[t][Index(vp, l)]

(* The page is reachable from ring 3: the USER bit at every level.           *)
UserAccess(m, root, vp) == \A l \in 1..Levels : Entry(m, root, vp, l).user

TranslateUser(m, root, vp) ==
  IF IsUserRange(vp * FrameSize, 1) /\ UserAccess(m, root, vp)
  THEN Translate(m, root, vp) ELSE None

TranslateUserWritable(m, root, vp) ==
  IF Entry(m, root, vp, 1).w THEN TranslateUser(m, root, vp) ELSE None

(* alloc_zeroed: whatever the frame held is gone.                            *)
TakeZeroed(m, f) ==
  [fa |-> Taken(m.fa, {f}), tab |-> [m.tab EXCEPT ![f] = Cleared],
   data |-> [m.data EXCEPT ![f] = Zeroed]]

GetOrCreate(m, parent, i, user) ==
  LET e == m.tab[parent][i]
      f == AllocFrame(m.fa)
  IN IF e.to # None
     THEN [m |-> [m EXCEPT !.tab[parent][i].user = @ \/ user], child |-> e.to]
     ELSE IF f = None THEN [m |-> m, child |-> None]
     ELSE [m |-> [TakeZeroed(m, f) EXCEPT
                    !.tab[parent][i] = [to |-> f, user |-> user, w |-> TRUE, x |-> TRUE]],
           child |-> f]

(* The tables down to level 1; those made before frames run out are kept.    *)
RECURSIVE WalkCreate(_, _, _, _, _)
WalkCreate(m, table, vp, l, user) ==
  IF l = 1 THEN [m |-> m, child |-> table]
  ELSE LET g == GetOrCreate(m, table, Index(vp, l), user)
       IN IF g.child = None THEN g ELSE WalkCreate(g.m, g.child, vp, l - 1, user)

(* map: [m, err].                                                            *)
MapPage(m, root, vp, phys, flags) ==
  LET g == WalkCreate(m, root, vp, Levels, flags.user)
  IN IF g.child = None THEN [m |-> g.m, err |-> "OutOfMemory"]
     ELSE IF g.m.tab[g.child][Index(vp, 1)].to # None THEN [m |-> g.m, err |-> "AlreadyMapped"]
     ELSE [m |-> [g.m EXCEPT !.tab[g.child][Index(vp, 1)] =
                    [to |-> phys, user |-> flags.user, w |-> flags.w, x |-> flags.x]],
           err |-> "none"]

UnmapPage(m, root, vp) == [m EXCEPT !.tab[At(m, root, vp, 1)][Index(vp, 1)] = Unused]

(* from_kernel: a fresh root that shares the kernel's top-level entries.     *)
FromKernel(m, kroot) ==
  LET f == AllocFrame(m.fa)
  IN IF m.tab[kroot][UserSlot].to # None THEN [m |-> m, root |-> None]
     ELSE IF f = None THEN [m |-> m, root |-> None]
     ELSE [m |-> [TakeZeroed(m, f) EXCEPT !.tab[f] = m.tab[kroot]],
           root |-> f]

MapUser(m, root, vp, phys, flags) ==
  IF ~flags.user \/ ~IsUserRange(vp * FrameSize, FrameSize)
  THEN [m |-> m, err |-> "OutsideUserRegion"]
  ELSE MapPage(m, root, vp, phys, flags)

(* free_subtree: the frames below and including the table or page at f.      *)
RECURSIVE Subtree(_, _, _)
Subtree(m, f, l) ==
  {f} \cup IF l = 0 THEN {}
           ELSE UNION {Subtree(m, m.tab[f][i].to, l - 1) : i \in {j \in Idx : m.tab[f][j].to # None}}

OwnedFrames(m, root) ==
  LET e == m.tab[root][UserSlot]
  IN {root} \cup IF e.to = None THEN {} ELSE Subtree(m, e.to, Levels - 1)

Destroy(m, root) == [m EXCEPT !.fa = FreeFrames(@, OwnedFrames(m, root))]

(* The pages a byte range touches.                                           *)
RangePages(v, len) == {p \in Pages : p * FrameSize < v + len /\ (p + 1) * FrameSize > v}

PageAt(v) == v \div FrameSize

(* copy_to_user: every page is checked before the first byte is written.     *)
WritableRange(m, root, v, len) ==
  IsUserRange(v, len) /\ \A p \in RangePages(v, len) : TranslateUserWritable(m, root, p) # None

Written(m, root, v, bytes) ==
  FoldLeft(LAMBDA a, i : [a EXCEPT !.data[TranslateUserWritable(m, root, PageAt(v + i - 1))]
                                     [(v + i - 1) % FrameSize] = bytes[i]],
           m, [i \in DOMAIN bytes |-> i])

CopyAsItGoes(m, root, v, bytes) ==
  [m |-> Written(m, root, v, bytes), ok |-> WritableRange(m, root, v, Len(bytes))]

CopyToUser(m, root, v, bytes) ==
  IF WritableRange(m, root, v, Len(bytes))
  THEN [m |-> Written(m, root, v, bytes), ok |-> TRUE] ELSE [m |-> m, ok |-> FALSE]
=============================================================================
