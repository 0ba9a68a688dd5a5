------------------------------ MODULE AuditLog ------------------------------
(* The audit log (audit.rs): a ring of hash-chained records, and checkpoints   *)
(* that sign the head of the chain.  Every operation holds the lock of LOG, so  *)
(* each is one step.                                                           *)
(*                                                                             *)
(* A chain hash covers every record up to its own, so it is modelled as the    *)
(* list of what they say; a body is that: the event and the lowest bit of its  *)
(* detail, which the tamper demo flips.  One kernel has one issuer, so the     *)
(* issuer's id in the genesis and in the signatures is left out.               *)
EXTENDS Integers, Sequences, FiniteSets, FiniteSetsExt

CONSTANTS
    Capacity,        \* LOG_CAPACITY (1024)
    Interval,        \* CHECKPOINT_INTERVAL (64)
    MaxCheckpoints,  \* MAX_CHECKPOINTS (8)
    Events,
    MaxRecords       \* bound: records appended

ASSUME AuditAssumption ==
    /\ Capacity \in Nat /\ Interval \in Nat /\ MaxCheckpoints \in Nat /\ MaxRecords \in Nat
    /\ 1 < Interval /\ Interval <= Capacity /\ 0 < MaxCheckpoints

VARIABLES
    log,    \* LOG
    said    \* the bodies recorded so far, in order; nothing in the code reads it

auditVars == <<log, said>>

Bodies == (Events \cup {"boot"}) \X {0, 1}
BootBody == <<"boot", 1>>

Genesis == <<>>
RecordHash(prev, seq, body) == Append(prev, <<seq, body>>)
CheckpointDigest(seq, head) == <<seq, head>>

AuditInit ==
    /\ log = [records |-> <<>>, checkpoints |-> <<>>, genesis |-> Genesis, anchor |-> Genesis,
              head |-> Genesis, next |-> 0, evicted |-> 0, started |-> FALSE]
    /\ said = <<>>

\* Mutant: the anchor stays.
RoomWithoutAnchor(l) ==
    IF Len(l.records) < Capacity THEN l ELSE [l EXCEPT !.records = Tail(@), !.evicted = @ + 1]

\* A full ring loses its oldest record, whose hash becomes the anchor.
MadeRoom(l) ==
    IF Len(l.records) < Capacity THEN l
    ELSE [l EXCEPT !.records = Tail(@), !.anchor = Head(l.records).hash, !.evicted = @ + 1]

AppendBody(l, body) ==
    LET hash == RecordHash(l.head, l.next, body)
    IN [MadeRoom(l) EXCEPT
          !.records = Append(@, [seq |-> l.next, body |-> body, hash |-> hash]),
          !.head = hash, !.next = @ + 1]

\* start_locked: the first operation on the log appends the boot record.
Started(l) == IF l.started THEN l ELSE [AppendBody(l, BootBody) EXCEPT !.started = TRUE]

LastSeq(l) == l.records[Len(l.records)].seq
LatestCheckpoint(l) == l.checkpoints[Len(l.checkpoints)].seq

\* checkpoint: nothing to do when the head is signed already; a full list loses
\* its oldest checkpoint.
Sealed(l) ==
    LET kept == IF Len(l.checkpoints) < MaxCheckpoints THEN l.checkpoints ELSE Tail(l.checkpoints)
        new == [seq |-> LastSeq(l), head |-> l.head, sig |-> CheckpointDigest(LastSeq(l), l.head)]
    IN IF l.records = <<>> \/ (l.checkpoints # <<>> /\ LatestCheckpoint(l) = LastSeq(l)) THEN l
       ELSE [l EXCEPT !.checkpoints = Append(kept, new)]

\* Mutant: counted from the record before.
DueLate(l) == (l.next - 1) % Interval = 0

\* record: a checkpoint is due after every Interval records.
Due(l) == l.next % Interval = 0

Record(body) ==
    /\ log.next < MaxRecords
    /\ LET l == AppendBody(Started(log), body) IN log' = IF Due(l) THEN Sealed(l) ELSE l
    /\ said' = Append(IF log.started THEN said ELSE <<BootBody>>, body)

AuditStart ==
    /\ ~log.started
    /\ log' = Started(log) /\ said' = <<BootBody>>

CheckpointNow ==
    /\ log' = Sealed(Started(log))
    /\ said' = IF log.started THEN said ELSE <<BootBody>>

Flipped(body) == <<body[1], 1 - body[2]>>

\* The console's tamper demo: one bit of a retained record, no hash.
DemoTamper(i) ==
    /\ log' = [log EXCEPT !.records[i].body = Flipped(@)]
    /\ UNCHANGED said

AuditNext ==
    \/ \E event \in Events, bit \in {0, 1} : Record(<<event, bit>>)
    \/ AuditStart
    \/ CheckpointNow
    \/ \E i \in 1 .. Len(log.records) : DemoTamper(i)

AuditSpec == AuditInit /\ [][AuditNext]_auditVars

-----------------------------------------------------------------------------
(* verify: the first thing wrong, in the order the code looks. *)

Previous(l, i) == IF i = 1 THEN l.anchor ELSE l.records[i - 1].hash
Gap(l, i) == l.records[i].seq # l.evicted + i - 1
Broken(l, i) ==
    RecordHash(Previous(l, i), l.records[i].seq, l.records[i].body) # l.records[i].hash
Wrong(l) == {i \in 1 .. Len(l.records) : Gap(l, i) \/ Broken(l, i)}

BadSignature(c) == c.sig # CheckpointDigest(c.seq, c.head)
Mismatch(l, c) == \E i \in 1 .. Len(l.records) : l.records[i].seq = c.seq /\ l.records[i].hash # c.head
Unsound(l) ==
    {k \in 1 .. Len(l.checkpoints) : BadSignature(l.checkpoints[k]) \/ Mismatch(l, l.checkpoints[k])}

Verdict(err, seq) == [err |-> err, seq |-> seq]

Verify(l) ==
    IF l.evicted = 0 /\ l.anchor # l.genesis THEN Verdict("BadGenesis", 0)
    ELSE IF Wrong(l) # {}
    THEN LET i == Min(Wrong(l))
         IN Verdict(IF Gap(l, i) THEN "GapBefore" ELSE "BrokenAt", l.records[i].seq)
    ELSE IF Previous(l, Len(l.records) + 1) # l.head THEN Verdict("HeadMismatch", 0)
    ELSE IF Unsound(l) # {}
    THEN LET c == l.checkpoints[Min(Unsound(l))]
         IN Verdict(IF BadSignature(c) THEN "BadCheckpoint" ELSE "CheckpointMismatch", c.seq)
    ELSE Verdict("Ok", 0)

UnsignedTail(l) ==
    IF l.records = <<>> THEN 0
    ELSE IF l.checkpoints = <<>> THEN Len(l.records)
    ELSE LastSeq(l) - LatestCheckpoint(l)

-----------------------------------------------------------------------------
(* Properties. *)

\* The places of retained records that no longer say what was recorded.
Altered == {i \in 1 .. Len(log.records) : log.records[i].body # said[log.evicted + i]}

\* verify names the oldest retained record that was altered and nothing else:
\* evicting records, altered ones included, keeps the rest verifiable, and
\* undoing a change satisfies it again (verify, audit.rs:379-431).
VerifyIsExact ==
    Verify(log) = IF Altered = {} THEN Verdict("Ok", 0)
                  ELSE Verdict("BrokenAt", log.evicted + Min(Altered) - 1)

\* At most Interval - 1 records wait for a signature, whatever checkpoints the
\* console adds in between, and no record is evicted before a checkpoint that
\* is still kept covers it (record, audit.rs:530-537).
SignedInTime ==
    /\ UnsignedTail(log) < Interval
    /\ log.evicted > 0 => log.checkpoints # <<>> /\ LatestCheckpoint(log) >= log.evicted - 1
=============================================================================
