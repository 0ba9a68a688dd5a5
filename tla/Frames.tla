------------------------------- MODULE Frames -------------------------------
(* The physical frame allocator (allocator.rs): one bit per frame, a count of
   the free frames, and first-fit allocation.  An allocator is a record
   [total, free, count, reserved]; free is the set of frames whose bit is 0,
   count and reserved are the counters the code keeps beside the bitmap.
   Addresses are in bytes, a frame holds FrameSize of them.                  *)
EXTENDS Integers, FiniteSets, FiniteSetsExt, SequencesExt

CONSTANTS FrameSize,   \* bytes in a frame
          MaxFrames,   \* frames the bitmap can track
          MaxEntries   \* memory-map entries boot::init keeps

ASSUME FramesAssumption == FrameSize > 0 /\ MaxFrames > 0 /\ MaxEntries > 0

None == -1

DivCeil(a) == (a + FrameSize - 1) \div FrameSize

(* The frames a region [base, base + len) touches, partly or wholly.         *)
Touched(base, len) ==
  IF len = 0 THEN {} ELSE (base \div FrameSize)..((base + len - 1) \div FrameSize)

InitFromRegions(regions) ==
  LET ends  == {0} \cup {r.base + r.len : r \in Range(regions)}
      size  == DivCeil(Max(ends))
      total == IF size > MaxFrames THEN MaxFrames ELSE size
      free  == UNION {Touched(r.base, r.len) : r \in {s \in Range(regions) : s.usable}}
                 \cap 0..(total - 1)
  IN [total |-> total, free |-> free, count |-> Cardinality(free),
      reserved |-> total - Cardinality(free)]

ReserveRange(fa, start, end) ==
  LET taken == {f \in fa.free : f >= start \div FrameSize /\ f < DivCeil(end)}
  IN [fa EXCEPT !.free = @ \ taken, !.count = @ - Cardinality(taken),
                !.reserved = @ + Cardinality(taken)]

(* boot::init: the entries that fit, then the low memory is taken out.       *)
BootInit(map, low) ==
  LET n == IF Len(map) > MaxEntries THEN MaxEntries ELSE Len(map)
  IN ReserveRange(InitFromRegions(SubSeq(map, 1, n)), 0, low)

(* Taking frames out of the bitmap keeps the counter in step.                *)
Taken(fa, fs) == [fa EXCEPT !.free = @ \ fs, !.count = @ - Cardinality(fs)]

(* alloc: the lowest free frame, or None.                                    *)
AllocFrame(fa) == IF fa.free = {} THEN None ELSE Min(fa.free)

(* alloc_contiguous: the lowest run of n free frames, or None.               *)
AllocContiguous(fa, n) ==
  LET starts == {s \in 0..(fa.total - n) : s..(s + n - 1) \subseteq fa.free}
  IN IF n = 0 \/ n > fa.count \/ starts = {} THEN None ELSE Min(starts)

FreeFrame(fa, f) ==
  IF f >= fa.total \/ f \in fa.free THEN fa
  ELSE [fa EXCEPT !.free = @ \cup {f}, !.count = @ + 1]

FreeFrames(fa, fs) == FoldSet(LAMBDA f, a : FreeFrame(a, f), fa, fs)
=============================================================================
