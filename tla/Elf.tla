--------------------------------- MODULE Elf ---------------------------------
(* The ELF loader (elf.rs).  An image is what its headers say: whether parse
   accepts it, its bytes, its entry point and its program headers
   [load, w, x, off, vaddr, filesz, memsz] in file order.  Addresses wrap at
   AddrTop, the width of an address.                                         *)
EXTENDS Paging

CONSTANTS StackTop,          \* first page above the user stack
          StackPages,        \* pages of user stack; the page below is a guard
          MaxSegmentBytes,
          MaxPhnum

Loads(img) == SelectSeq(img.segs, LAMBDA s : s.load)

(* segment_page_span: the pages of [vaddr, vaddr + memsz); the end wraps.    *)
SpanStart(s) == s.vaddr \div FrameSize
SpanEnd(s)   == DivCeil(s.vaddr + s.memsz) % (AddrTop \div FrameSize)

SizesSane(img, s) ==
  /\ s.memsz >= s.filesz
  /\ s.memsz <= MaxSegmentBytes
  /\ s.off + s.filesz < AddrTop
  /\ s.off + s.filesz <= Len(img.bytes)
  /\ s.vaddr + s.memsz < AddrTop

InUserRegion(s) ==
  /\ SpanEnd(s) >= SpanStart(s)
  /\ IsUserRange(SpanStart(s) * FrameSize, (SpanEnd(s) - SpanStart(s)) * FrameSize)

ClearOfStack(s) == SpanStart(s) >= StackTop \/ SpanEnd(s) <= StackTop - (StackPages + 1)

EntryIn(img, s) == s.x /\ img.entry >= s.vaddr /\ img.entry - s.vaddr < s.memsz

(* A program header cut off by the end of the file is part of `parses`: it is
   refused like a bad segment, before anything is mapped.                    *)
Validate(img) ==
  /\ Len(img.segs) \in 1..MaxPhnum
  /\ \A s \in Range(Loads(img)) : SizesSane(img, s) /\ InUserRegion(s) /\ ClearOfStack(s)
  /\ \E s \in Range(Loads(img)) : EntryIn(img, s)

FirstFlags(img, page) ==
  LET here == {i \in DOMAIN Loads(img) : page >= SpanStart(Loads(img)[i]) /\ page < SpanEnd(Loads(img)[i])}
  IN [user |-> TRUE, w |-> Loads(img)[Min(here)].w, x |-> Loads(img)[Min(here)].x]

(* page_union_flags: what the segments that share a page need together.      *)
PageUnionFlags(img, page) ==
  LET here == {s \in Range(Loads(img)) : page >= SpanStart(s) /\ page < SpanEnd(s)}
  IN [user |-> TRUE, w |-> \E s \in here : s.w, x |-> \E s \in here : s.x]

KeepPage(m, root, vp, flags) ==
  LET f == AllocFrame(m.fa)
      r == MapUser(TakeZeroed(m, f), root, vp, f, flags)
  IN IF f = None THEN [m |-> m, err |-> "OutOfFrames"] ELSE r

GivenBack(r, f) == IF r.err = "none" THEN r ELSE [r EXCEPT !.m.fa = FreeFrame(@, f)]

(* map_zeroed_page: the page's frame is taken before the tables it needs,
   and given back when the mapping fails.                                    *)
MapZeroedPage(m, root, vp, flags) ==
  LET f == AllocFrame(m.fa)
  IN IF f = None THEN [m |-> m, err |-> "OutOfFrames"]
     ELSE GivenBack(MapUser(TakeZeroed(m, f), root, vp, f, flags), f)

(* The file bytes of segment s that land in page vp.                         *)
SegOff(s, vp) == IF vp * FrameSize > s.vaddr THEN vp * FrameSize - s.vaddr ELSE 0

CopyPage(m, img, s, vp, phys) ==
  LET segOff  == SegOff(s, vp)
      pageOff == s.vaddr + segOff - vp * FrameSize
      avail   == s.filesz - segOff
      space   == FrameSize - pageOff
      n       == IF avail < space THEN avail ELSE space
  IN IF segOff >= s.filesz THEN m
     ELSE [m EXCEPT !.data[phys] = [b \in DOMAIN @ |->
             IF b >= pageOff /\ b < pageOff + n
             THEN img.bytes[s.off + segOff + (b - pageOff) + 1] ELSE @[b]]]

FillPage(acc, img, root, s, vp) ==
  IF acc.err # "none" THEN acc
  ELSE [acc EXCEPT !.m = CopyPage(@, img, s, vp, Translate(@, root, vp))]

(* One page of one segment; a page an earlier segment mapped is reused.      *)
LoadPage(acc, img, root, s, vp) ==
  IF acc.err # "none" THEN acc
  ELSE FillPage(IF Translate(acc.m, root, vp) # None THEN acc
                ELSE MapZeroedPage(acc.m, root, vp, PageUnionFlags(img, vp)),
                img, root, s, vp)

SegmentPages(s) == [i \in 1..(SpanEnd(s) - SpanStart(s)) |-> [seg |-> s, page |-> SpanStart(s) + i - 1]]

LoadInto(m, img, root) ==
  IF ~Validate(img) THEN [m |-> m, err |-> "Invalid"]
  ELSE FoldLeft(LAMBDA acc, w : LoadPage(acc, img, root, w.seg, w.page),
                [m |-> m, err |-> "none"],
                FlattenSeq([i \in DOMAIN Loads(img) |-> SegmentPages(Loads(img)[i])]))

MapStack(loaded, root) ==
  FoldLeft(LAMBDA acc, i : IF acc.err # "none" THEN acc
                           ELSE MapZeroedPage(acc.m, root, StackTop - i, UserRW),
           loaded, [i \in 1..StackPages |-> i])

(* On any failure the whole space is destroyed.                              *)
OrDestroyed(loaded, root) ==
  IF loaded.err = "none" THEN [m |-> loaded.m, root |-> root]
  ELSE [m |-> Destroy(loaded.m, root), root |-> None]

LoadSpace(made, img) ==
  IF made.root = None THEN made
  ELSE OrDestroyed(MapStack(LoadInto(made.m, img, made.root), made.root), made.root)

(* load_image: [m, root].                                                    *)
LoadImage(m, kroot, img) ==
  IF ~img.parses THEN [m |-> m, root |-> None] ELSE LoadSpace(FromKernel(m, kroot), img)

-----------------------------------------------------------------------------
(* What an ELF image means, byte by byte, with no reference to pages.        *)
Covers(s, a)     == a >= s.vaddr /\ a < s.vaddr + s.memsz
FileCovers(s, a) == a >= s.vaddr /\ a < s.vaddr + s.filesz

ImageByte(img, a) ==
  LET from == {i \in DOMAIN Loads(img) : FileCovers(Loads(img)[i], a)}
      s    == Loads(img)[Max(from)]
  IN IF from = {} THEN 0 ELSE img.bytes[s.off + (a - s.vaddr) + 1]

PageBytes(vp)       == (vp * FrameSize)..(vp * FrameSize + FrameSize - 1)
ImageSegs(img, vp)  == {s \in Range(Loads(img)) : \E a \in PageBytes(vp) : Covers(s, a)}
StackPage(vp)       == vp >= StackTop - StackPages /\ vp < StackTop
=============================================================================
