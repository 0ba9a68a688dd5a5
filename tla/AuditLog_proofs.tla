-------------------------- MODULE AuditLog_proofs ---------------------------
(* Proofs about the audit log, for every capacity, checkpoint interval and     *)
(* number of checkpoints kept.                                                  *)
EXTENDS AuditLog, TLAPS, WellFoundedInduction

Digests == Seq(Nat \X Bodies)
Records == [seq : Nat, body : Bodies, hash : Digests]
Checkpoints == [seq : Nat, head : Digests, sig : Nat \X Digests]
Logs == [records : Seq(Records), checkpoints : Seq(Checkpoints), genesis : Digests,
         anchor : Digests, head : Digests, next : Nat, evicted : Nat, started : BOOLEAN]

\* The chain hash of the first n bodies of s.
Chain(s, n) == [i \in 1 .. n |-> <<i - 1, s[i]>>]

\* The ring holds the last records of s, and every hash it keeps, of records,
\* anchor, head or checkpoints, is the hash of what was recorded.
RingHolds(l, s) ==
    /\ l.next = Len(s) /\ l.evicted + Len(l.records) = l.next
    /\ Len(l.records) <= Capacity /\ (l.evicted > 0 => Len(l.records) = Capacity)
    /\ \A i \in 1 .. Len(l.records) : /\ l.records[i].seq = l.evicted + i - 1
                                      /\ l.records[i].hash = Chain(s, l.evicted + i)
    /\ l.anchor = Chain(s, l.evicted) /\ l.head = Chain(s, l.next) /\ l.genesis = Genesis

CheckpointsHold(l, s) ==
    \A k \in 1 .. Len(l.checkpoints) :
        LET c == l.checkpoints[k]
        IN c.seq < l.next /\ c.head = Chain(s, c.seq + 1) /\ c.sig = CheckpointDigest(c.seq, c.head)

WellFormed(l, s) == l \in Logs /\ s \in Seq(Bodies) /\ RingHolds(l, s) /\ CheckpointsHold(l, s)

\* Records after the latest checkpoint; the interval they are in bounds them.
Lag(l) == IF l.checkpoints = <<>> THEN l.next ELSE l.next - 1 - LatestCheckpoint(l)

\* The inductive invariant.
AuditInv ==
    /\ WellFormed(log, said)
    /\ log.started <=> log.next > 0
    /\ Lag(log) <= log.next % Interval

-----------------------------------------------------------------------------
(* Chains. *)

\* The chain over the first n records is a digest that tells how many it covers.
LEMMA ChainType ==
    ASSUME NEW s \in Seq(Bodies), NEW n \in 0 .. Len(s)
    PROVE  Chain(s, n) \in Digests /\ Len(Chain(s, n)) = n
BY DEF Chain, Digests

\* A longer recording leaves the hashes of what came before alone.
LEMMA ChainKept ==
    ASSUME NEW s \in Seq(Bodies), NEW b \in Bodies, NEW n \in 0 .. Len(s)
    PROVE  Chain(Append(s, b), n) = Chain(s, n)
BY DEF Chain

\* The hash of n records is the hash of n - 1 and the n-th body.
LEMMA ChainStep ==
    ASSUME NEW s \in Seq(Bodies), NEW n \in 1 .. Len(s)
    PROVE  Chain(s, n) = RecordHash(Chain(s, n - 1), n - 1, s[n])
BY DEF Chain, RecordHash

\* Two bodies give two hashes.
LEMMA HashInjective ==
    ASSUME NEW d \in Digests, NEW q \in Nat, NEW a \in Bodies, NEW b \in Bodies,
           RecordHash(d, q, a) = RecordHash(d, q, b)
    PROVE  a = b
<1>1. Append(d, <<q, a>>)[Len(d) + 1] = <<q, a>> /\ Append(d, <<q, b>>)[Len(d) + 1] = <<q, b>>
  BY DEF Digests
<1> QED BY <1>1 DEF RecordHash

-----------------------------------------------------------------------------
(* The operations of the log. *)

\* Making room evicts the oldest record and moves the anchor to it.
LEMMA RoomKeeps ==
    ASSUME NEW l, NEW s, WellFormed(l, s)
    PROVE  /\ MadeRoom(l) \in Logs
           /\ MadeRoom(l).evicted + Len(MadeRoom(l).records) = l.next
           /\ Len(MadeRoom(l).records) < Capacity
           /\ MadeRoom(l).evicted > 0 => Len(MadeRoom(l).records) + 1 = Capacity
           /\ \A i \in 1 .. Len(MadeRoom(l).records) :
                /\ MadeRoom(l).records[i].seq = MadeRoom(l).evicted + i - 1
                /\ MadeRoom(l).records[i].hash = Chain(s, MadeRoom(l).evicted + i)
           /\ MadeRoom(l).anchor = Chain(s, MadeRoom(l).evicted)
           /\ MadeRoom(l).checkpoints = l.checkpoints /\ MadeRoom(l).genesis = l.genesis
           /\ MadeRoom(l).next = l.next /\ MadeRoom(l).head = l.head
           /\ MadeRoom(l).started = l.started
<1> USE DEF WellFormed, RingHolds
<1>1. CASE Len(l.records) < Capacity
  BY <1>1, AuditAssumption DEF MadeRoom, Logs
<1>2. CASE ~(Len(l.records) < Capacity)
  <2> DEFINE rs == Tail(l.records)
             a == Head(l.records).hash
             e == l.evicted + 1
             m == [l EXCEPT !.records = rs, !.anchor = a, !.evicted = e]
  <2>0. MadeRoom(l) = m
    BY <1>2 DEF MadeRoom
  <2>1. l.records \in Seq(Records) /\ l.records # <<>> /\ Len(l.records) = Capacity /\ Capacity \in Nat \ {0}
    BY <1>2, AuditAssumption DEF Logs
  <2>2. /\ Tail(l.records) \in Seq(Records) /\ Len(Tail(l.records)) = Capacity - 1
        /\ \A i \in 1 .. Capacity - 1 : Tail(l.records)[i] = l.records[i + 1]
    BY <2>1
  <2>3. Head(l.records) = l.records[1] /\ l.records[1] \in Records
    BY <2>1
  <2>4. l.records[1].hash \in Digests /\ l.records[1].hash = Chain(s, l.evicted + 1)
    BY <2>1, <2>3 DEF Records
  <2>5. /\ m \in Logs /\ m.records = rs /\ m.evicted = e
        /\ m.anchor = a /\ m.checkpoints = l.checkpoints
        /\ m.genesis = l.genesis /\ m.next = l.next /\ m.head = l.head /\ m.started = l.started
    <3>1. l \in Logs /\ e \in Nat
      BY DEF Logs
    <3>2. rs \in Seq(Records) /\ a \in Digests
      BY <2>2, <2>3, <2>4
    <3> HIDE DEF rs, a, e
    <3> QED BY <3>1, <3>2, Zenon DEF Logs, m
  <2> HIDE DEF m
  <2>6. \A i \in 1 .. Len(m.records) : /\ m.records[i].seq = m.evicted + i - 1
                                      /\ m.records[i].hash = Chain(s, m.evicted + i)
    <3> SUFFICES ASSUME NEW i \in 1 .. Capacity - 1
                 PROVE  m.records[i].seq = m.evicted + i - 1 /\ m.records[i].hash = Chain(s, m.evicted + i)
      BY Zenon, <2>2, <2>5
    <3>1. i + 1 \in 1 .. Len(l.records) /\ m.records[i] = l.records[i + 1]
      BY <2>1, <2>2, <2>5
    <3>2. l.evicted \in Nat /\ m.evicted + i = l.evicted + (i + 1)
      BY <2>5 DEF Logs
    <3>3. l.records[i + 1].seq = l.evicted + (i + 1) - 1 /\ l.records[i + 1].hash = Chain(s, l.evicted + (i + 1))
      BY <3>1
    <3>4. m.evicted + i - 1 = l.evicted + (i + 1) - 1
      BY <2>5, <3>2
    <3> QED BY <3>1, <3>2, <3>3, <3>4
  <2>7. m.evicted + Len(m.records) = l.next /\ Len(m.records) + 1 = Capacity
    BY <2>1, <2>2, <2>5 DEF Logs
  <2> QED BY <2>0, <2>1, <2>4, <2>5, <2>6, <2>7
<1> QED BY <1>1, <1>2

\* Appending keeps the log well formed; one more record waits for a signature.
LEMMA AppendKeeps ==
    ASSUME NEW l, NEW s, WellFormed(l, s), NEW b \in Bodies
    PROVE  /\ WellFormed(AppendBody(l, b), Append(s, b))
           /\ AppendBody(l, b).next = l.next + 1 /\ AppendBody(l, b).started = l.started
           /\ AppendBody(l, b).checkpoints = l.checkpoints /\ AppendBody(l, b).records # <<>>
<1> DEFINE r == MadeRoom(l)
           hash == RecordHash(l.head, l.next, b)
           new == [seq |-> l.next, body |-> b, hash |-> hash]
           rs == Append(r.records, new)
           n == r.next + 1
           m == [r EXCEPT !.records = rs, !.head = hash, !.next = n]
           t == Append(s, b)
<1>0. AppendBody(l, b) = m
  BY DEF AppendBody
<1>1. l \in Logs /\ s \in Seq(Bodies) /\ l.next = Len(s) /\ l.head = Chain(s, Len(s)) /\ l.genesis = Genesis
  BY DEF WellFormed, RingHolds
<1>2. /\ r \in Logs /\ r.next = l.next /\ r.evicted + Len(r.records) = l.next
      /\ Len(r.records) < Capacity /\ (r.evicted > 0 => Len(r.records) + 1 = Capacity)
      /\ r.anchor = Chain(s, r.evicted) /\ r.checkpoints = l.checkpoints
      /\ r.genesis = l.genesis /\ r.started = l.started
  BY RoomKeeps
<1>3. \A i \in 1 .. Len(r.records) : r.records[i].seq = r.evicted + i - 1 /\ r.records[i].hash = Chain(s, r.evicted + i)
  BY RoomKeeps
<1> HIDE DEF r
<1>4. t \in Seq(Bodies) /\ Len(t) = Len(s) + 1 /\ t[Len(s) + 1] = b
  BY <1>1
<1>5. hash = Chain(t, Len(t)) /\ hash \in Digests
  <2>1. Chain(t, Len(t) - 1) = Chain(s, Len(s))
    BY <1>1, <1>4, ChainKept
  <2>2. Len(t) \in 1 .. Len(t)
    BY <1>1, <1>4
  <2>3. Chain(t, Len(t)) = RecordHash(Chain(t, Len(t) - 1), Len(t) - 1, t[Len(t)])
    BY Zenon, <1>4, <2>2, ChainStep
  <2>4. Len(t) \in 0 .. Len(t)
    BY <2>2
  <2>5. Chain(t, Len(t)) \in Digests
    BY Zenon, <2>4, <1>4, ChainType
  <2> QED BY <1>1, <1>4, <2>1, <2>3, <2>5
<1>6. new \in Records
  BY <1>1, <1>5 DEF Records, Logs
<1> HIDE DEF hash, t, new
<1>7. /\ Append(r.records, new) \in Seq(Records) /\ Len(Append(r.records, new)) = Len(r.records) + 1
      /\ \A i \in 1 .. Len(r.records) : Append(r.records, new)[i] = r.records[i]
      /\ Append(r.records, new)[Len(r.records) + 1] = new
  BY <1>2, <1>6 DEF Logs
<1>8. /\ m \in Logs /\ m.records = rs /\ m.head = hash /\ m.next = n
      /\ m.evicted = r.evicted /\ m.anchor = r.anchor /\ m.checkpoints = r.checkpoints
      /\ m.genesis = r.genesis /\ m.started = r.started
  <2>1. n \in Nat /\ rs \in Seq(Records)
    BY <1>2, <1>7 DEF Logs
  <2> HIDE DEF rs, n
  <2> QED BY <1>2, <1>5, <2>1, Zenon DEF Logs, m
<1> HIDE DEF m
<1>9. \A j \in 0 .. Len(s) : Chain(t, j) = Chain(s, j)
  BY <1>1, ChainKept DEF t
<1>10. r.evicted \in Nat /\ Len(r.records) \in Nat /\ Len(s) \in Nat /\ r.evicted + Len(r.records) = Len(s)
  BY <1>1, <1>2 DEF Logs
<1>11. RingHolds(m, t)
  <2>1. m.next = Len(t) /\ m.evicted + Len(m.records) = m.next
    <3>1. Len(rs) = Len(r.records) + 1 /\ n = Len(s) + 1
      BY <1>1, <1>2, <1>7
    <3> HIDE DEF rs, n
    <3> QED BY <3>1, <1>4, <1>8, <1>10
  <2>2. Len(m.records) <= Capacity /\ (m.evicted > 0 => Len(m.records) = Capacity)
    BY <1>2, <1>7, <1>8, <1>10, AuditAssumption
  <2>3. ASSUME NEW i \in 1 .. Len(m.records)
        PROVE  m.records[i].seq = m.evicted + i - 1 /\ m.records[i].hash = Chain(t, m.evicted + i)
    <3>1. CASE i \in 1 .. Len(r.records)
      <4>1. r.evicted + i \in 0 .. Len(s)
        BY <3>1, <1>10
      <4> QED BY <3>1, <4>1, <1>3, <1>7, <1>8, <1>9
    <3>2. CASE i = Len(r.records) + 1
      <4>1. m.records[i] = new /\ m.evicted + i = Len(t) /\ m.evicted + i - 1 = l.next
        BY <3>2, <1>1, <1>4, <1>7, <1>8, <1>10
      <4> QED BY <4>1, <1>5 DEF new
    <3> QED BY <3>1, <3>2, <1>7, <1>8, <1>10
  <2>4. m.anchor = Chain(t, m.evicted) /\ m.head = Chain(t, m.next) /\ m.genesis = Genesis
    <3>1. r.evicted \in 0 .. Len(s)
      BY <1>10
    <3> QED BY <3>1, <2>1, <1>1, <1>2, <1>5, <1>8, <1>9
  <2> QED BY <2>1, <2>2, <2>3, <2>4 DEF RingHolds
<1>12. CheckpointsHold(m, t)
  <2> SUFFICES ASSUME NEW k \in 1 .. Len(l.checkpoints)
               PROVE  /\ l.checkpoints[k].seq < l.next + 1
                      /\ l.checkpoints[k].head = Chain(t, l.checkpoints[k].seq + 1)
                      /\ l.checkpoints[k].sig = CheckpointDigest(l.checkpoints[k].seq, l.checkpoints[k].head)
    BY <1>2, <1>8 DEF CheckpointsHold
  <2>1. l.checkpoints[k] \in Checkpoints
    BY <1>1 DEF Logs
  <2>2. l.checkpoints[k].seq \in Nat /\ l.next \in Nat
    BY <2>1, <1>1 DEF Checkpoints, Logs
  <2>3. /\ l.checkpoints[k].seq < l.next
        /\ l.checkpoints[k].head = Chain(s, l.checkpoints[k].seq + 1)
        /\ l.checkpoints[k].sig = CheckpointDigest(l.checkpoints[k].seq, l.checkpoints[k].head)
    BY DEF WellFormed, CheckpointsHold
  <2>4. l.checkpoints[k].seq + 1 \in 0 .. Len(s)
    BY <2>2, <2>3, <1>1
  <2> QED BY <2>2, <2>3, <2>4, <1>9
<1>13. m.records # <<>>
  <2>1. Len(m.records) > 0
    BY <1>7, <1>8, <1>10
  <2> QED BY <2>1
<1> QED BY <1>0, <1>2, <1>4, <1>8, <1>11, <1>12, <1>13 DEF WellFormed, t

\* A checkpoint signs the head: nothing waits for a signature any more.
LEMMA SealKeeps ==
    ASSUME NEW l, NEW s, WellFormed(l, s), l.records # <<>>
    PROVE  /\ WellFormed(Sealed(l), s)
           /\ Sealed(l).next = l.next /\ Sealed(l).started = l.started
           /\ Sealed(l).checkpoints # <<>> /\ Lag(Sealed(l)) = 0
<1>1. l \in Logs /\ s \in Seq(Bodies) /\ RingHolds(l, s) /\ CheckpointsHold(l, s)
  BY DEF WellFormed
<1>2. l.records \in Seq(Records) /\ l.checkpoints \in Seq(Checkpoints) /\ l.next \in Nat /\ l.evicted \in Nat /\ l.head \in Digests
  BY <1>1 DEF Logs
<1>3. Len(l.records) \in 1 .. Len(l.records) /\ LastSeq(l) = l.next - 1 /\ LastSeq(l) \in Nat
  <2>1. Len(l.records) \in Nat /\ Len(l.records) > 0
    BY <1>2
  <2>2. l.records[Len(l.records)].seq = l.evicted + Len(l.records) - 1 /\ l.evicted + Len(l.records) = l.next
    BY <2>1, <1>1 DEF RingHolds
  <2> QED BY <1>2, <2>1, <2>2 DEF LastSeq
<1>4. CASE l.checkpoints # <<>> /\ LatestCheckpoint(l) = LastSeq(l)
  BY <1>2, <1>3, <1>4 DEF Sealed, Lag
<1>5. CASE ~(l.checkpoints # <<>> /\ LatestCheckpoint(l) = LastSeq(l))
  <2> DEFINE kept == IF Len(l.checkpoints) < MaxCheckpoints THEN l.checkpoints ELSE Tail(l.checkpoints)
             new == [seq |-> LastSeq(l), head |-> l.head, sig |-> CheckpointDigest(LastSeq(l), l.head)]
             cs == Append(kept, new)
             m == [l EXCEPT !.checkpoints = cs]
  <2>1. Sealed(l) = m
    BY <1>5 DEF Sealed
  <2>2. /\ kept \in Seq(Checkpoints)
        /\ \A k \in 1 .. Len(kept) : \E j \in 1 .. Len(l.checkpoints) : kept[k] = l.checkpoints[j]
    <3>1. CASE Len(l.checkpoints) < MaxCheckpoints
      BY <1>2, <3>1
    <3>2. CASE ~(Len(l.checkpoints) < MaxCheckpoints)
      <4>1. l.checkpoints # <<>> /\ kept = Tail(l.checkpoints)
        BY <1>2, <3>2, AuditAssumption
      <4>2. /\ Tail(l.checkpoints) \in Seq(Checkpoints) /\ Len(Tail(l.checkpoints)) = Len(l.checkpoints) - 1
            /\ \A k \in 1 .. Len(l.checkpoints) - 1 :
                 k + 1 \in 1 .. Len(l.checkpoints) /\ Tail(l.checkpoints)[k] = l.checkpoints[k + 1]
        BY <1>2, <4>1
      <4> HIDE DEF kept
      <4> QED BY <4>1, <4>2
    <3> QED BY <3>1, <3>2
  <2>3. new \in Checkpoints
    BY <1>2, <1>3 DEF Checkpoints, CheckpointDigest
  <2> HIDE DEF kept
  <2>4. /\ new.seq = l.next - 1 /\ new.head = Chain(s, l.next) /\ new.sig = CheckpointDigest(new.seq, new.head)
    BY <1>1, <1>3 DEF RingHolds
  <2> HIDE DEF new
  <2>5. /\ cs \in Seq(Checkpoints) /\ Len(cs) = Len(kept) + 1 /\ cs[Len(kept) + 1] = new
        /\ Len(kept) \in Nat
        /\ \A k \in 1 .. Len(kept) : cs[k] = kept[k]
    BY <2>2, <2>3
  <2>6. cs[Len(cs)] = new /\ cs # <<>>
    <3>1. Len(cs) > 0
      BY <2>5
    <3> HIDE DEF cs
    <3> QED BY <2>5, <3>1
  <2> HIDE DEF cs
  <2>7. /\ m \in Logs /\ m.checkpoints = cs /\ m.records = l.records /\ m.next = l.next
        /\ m.head = l.head /\ m.evicted = l.evicted /\ m.anchor = l.anchor
        /\ m.genesis = l.genesis /\ m.started = l.started
    BY <1>1, <2>5, Zenon DEF Logs
  <2> HIDE DEF m
  <2>8. RingHolds(m, s)
    BY <1>1, <2>7 DEF RingHolds
  <2>9. CheckpointsHold(m, s)
    <3> SUFFICES ASSUME NEW k \in 1 .. Len(cs)
                 PROVE  /\ cs[k].seq < l.next /\ cs[k].head = Chain(s, cs[k].seq + 1)
                        /\ cs[k].sig = CheckpointDigest(cs[k].seq, cs[k].head)
      BY <2>7 DEF CheckpointsHold
    <3>1. CASE k \in 1 .. Len(kept)
      <4>1. PICK j \in 1 .. Len(l.checkpoints) : cs[k] = l.checkpoints[j]
        BY Zenon, <2>2, <2>5, <3>1
      <4> QED BY <4>1, <1>1 DEF CheckpointsHold
    <3>2. CASE k = Len(kept) + 1
      <4>1. cs[k] = new /\ l.next - 1 < l.next /\ (l.next - 1) + 1 = l.next
        BY <2>5, <3>2, <1>2
      <4> QED BY <4>1, <2>4
    <3> QED BY <3>1, <3>2, <2>5
  <2>10. Lag(m) = 0
    <3>1. LatestCheckpoint(m) = l.next - 1
      BY <2>4, <2>6, <2>7 DEF LatestCheckpoint
    <3> QED BY <3>1, <2>6, <2>7, <1>2 DEF Lag
  <2> QED BY <1>1, <2>1, <2>6, <2>7, <2>8, <2>9, <2>10 DEF WellFormed
<1> QED BY <1>4, <1>5

\* The tamper demo changes a body and no hash.
LEMMA FlipKeeps ==
    ASSUME NEW l, NEW s, WellFormed(l, s), NEW i \in 1 .. Len(l.records)
    PROVE  LET m == [l EXCEPT !.records[i].body = Flipped(l.records[i].body)]
           IN /\ WellFormed(m, s)
              /\ m.next = l.next /\ m.started = l.started /\ m.checkpoints = l.checkpoints
<1> DEFINE r == l.records[i]
           b == Flipped(r.body)
           new == [r EXCEPT !.body = b]
           rs == [l.records EXCEPT ![i] = new]
           m == [l EXCEPT !.records = rs]
<1>1. l \in Logs /\ s \in Seq(Bodies) /\ RingHolds(l, s) /\ CheckpointsHold(l, s)
  BY DEF WellFormed
<1>2. l.records \in Seq(Records) /\ r \in Records
  BY <1>1 DEF Logs
<1>3. b \in Bodies
  BY <1>2 DEF Records, Flipped, Bodies
<1> HIDE DEF b
<1>4. new \in Records /\ new.seq = r.seq /\ new.hash = r.hash
  BY <1>2, <1>3 DEF Records
<1> HIDE DEF new
<1>5. /\ rs \in Seq(Records) /\ Len(rs) = Len(l.records)
      /\ \A k \in 1 .. Len(l.records) : rs[k].seq = l.records[k].seq /\ rs[k].hash = l.records[k].hash
  BY <1>2, <1>4
<1> HIDE DEF rs
<1>6. /\ m \in Logs /\ m.records = rs /\ m.checkpoints = l.checkpoints /\ m.next = l.next
      /\ m.head = l.head /\ m.evicted = l.evicted /\ m.anchor = l.anchor
      /\ m.genesis = l.genesis /\ m.started = l.started
  BY <1>1, <1>5, Zenon DEF Logs
<1>7. [l EXCEPT !.records[i].body = Flipped(l.records[i].body)] = m
  BY DEF m, rs, new, b
<1> HIDE DEF m
<1>8. RingHolds(m, s)
  BY <1>1, <1>5, <1>6 DEF RingHolds
<1>9. CheckpointsHold(m, s)
  BY <1>1, <1>6 DEF CheckpointsHold
<1> QED BY Zenon, <1>1, <1>6, <1>7, <1>8, <1>9 DEF WellFormed

-----------------------------------------------------------------------------
(* Counting to the next checkpoint. *)

\* Quotient and remainder determine each other.
LEMMA RemainderUnique ==
    ASSUME NEW x \in Nat, NEW q \in Nat, NEW r \in 0 .. Interval - 1, x = Interval * q + r
    PROVE  x % Interval = r
<1> DEFINE p == x \div Interval
           t == x % Interval
<1>1. Interval \in Nat /\ Interval > 1
  BY AuditAssumption
<1>2. x = Interval * p + t /\ p \in Nat /\ t \in 0 .. Interval - 1
  BY <1>1
<1> HIDE DEF p, t
<1>3. ASSUME p >= q + 1 PROVE FALSE
  <2>1. Interval * p >= Interval * (q + 1)
    BY <1>1, <1>2, <1>3
  <2>2. Interval * (q + 1) = Interval * q + Interval
    BY <1>1
  <2> QED BY <1>1, <1>2, <2>1, <2>2
<1>4. ASSUME q >= p + 1 PROVE FALSE
  <2>1. Interval * q >= Interval * (p + 1)
    BY <1>1, <1>2, <1>4
  <2>2. Interval * (p + 1) = Interval * p + Interval
    BY <1>1, <1>2
  <2> QED BY <1>1, <1>2, <2>1, <2>2
<1>5. p = q
  BY <1>2, <1>3, <1>4
<1>6. t = r
  BY <1>1, <1>2, <1>5
<1> QED BY <1>6 DEF t

\* Counting up, the position within a checkpoint interval moves by one until the interval is full.
LEMMA NextInInterval ==
    ASSUME NEW n \in Nat
    PROVE  /\ n % Interval \in 0 .. Interval - 1 /\ 1 % Interval = 1
           /\ (n + 1) % Interval # 0 => (n + 1) % Interval = (n % Interval) + 1
<1> DEFINE q == n \div Interval
           r == n % Interval
<1>1. Interval \in Nat /\ Interval > 1
  BY AuditAssumption
<1>2. n = Interval * q + r /\ q \in Nat /\ r \in 0 .. Interval - 1
  BY <1>1
<1> HIDE DEF q, r
<1>3. 1 % Interval = 1
  <2>1. 1 = Interval * 0 + 1 /\ 1 \in 0 .. Interval - 1
    BY <1>1
  <2> QED BY <2>1, RemainderUnique
<1>4. CASE r = Interval - 1
  <2>1. n + 1 = Interval * (q + 1) + 0 /\ q + 1 \in Nat /\ 0 \in 0 .. Interval - 1 /\ n + 1 \in Nat
    BY <1>1, <1>2, <1>4
  <2>2. (n + 1) % Interval = 0
    BY <2>1, RemainderUnique
  <2> QED BY <1>2, <1>3, <2>2 DEF r
<1>5. CASE r # Interval - 1
  <2>1. n + 1 = Interval * q + (r + 1) /\ r + 1 \in 0 .. Interval - 1 /\ n + 1 \in Nat
    BY <1>1, <1>2, <1>5
  <2>2. (n + 1) % Interval = r + 1
    BY <2>1, <1>2, RemainderUnique
  <2> QED BY <1>2, <1>3, <2>2 DEF r
<1> QED BY <1>4, <1>5

\* A log that has started has a record to sign.
LEMMA StartedHasRecords ==
    ASSUME NEW l, NEW s, WellFormed(l, s), l.next > 0
    PROVE  l.records # <<>>
<1>1. /\ l.records \in Seq(Records) /\ l.evicted \in Nat /\ l.evicted + Len(l.records) = l.next
      /\ (l.evicted > 0 => Len(l.records) = Capacity)
  BY DEF WellFormed, RingHolds, Logs
<1>2. Len(l.records) > 0
  BY <1>1, AuditAssumption
<1> QED BY <1>2

\* Whatever comes first starts the log with the boot record.
LEMMA StartKeeps ==
    ASSUME AuditInv
    PROVE  LET l == Started(log)
               s == IF log.started THEN said ELSE <<BootBody>>
           IN /\ WellFormed(l, s) /\ l.started /\ l.next > 0 /\ l.records # <<>>
              /\ Lag(l) <= l.next % Interval
<1>1. CASE log.started
  BY <1>1, StartedHasRecords DEF AuditInv, Started
<1>2. CASE ~log.started
  <2> DEFINE a == AppendBody(log, BootBody)
             m == [a EXCEPT !.started = TRUE]
  <2>1. Started(log) = m
    BY <1>2 DEF Started
  <2>2. /\ log \in Logs /\ said \in Seq(Bodies) /\ log.next = 0 /\ Len(said) = 0 /\ Lag(log) <= 0 % Interval
        /\ RingHolds(log, said) /\ CheckpointsHold(log, said)
    BY <1>2 DEF AuditInv, WellFormed, RingHolds, Logs
  <2>3. log.checkpoints = <<>>
    <3>1. log.checkpoints \in Seq(Checkpoints)
      BY <2>2 DEF Logs
    <3>2. ASSUME Len(log.checkpoints) > 0 PROVE FALSE
      <4>1. 1 \in 1 .. Len(log.checkpoints) /\ log.checkpoints[1] \in Checkpoints
        BY <3>1, <3>2
      <4>2. log.checkpoints[1].seq < 0 /\ log.checkpoints[1].seq \in Nat
        BY <4>1, <2>2 DEF CheckpointsHold, Checkpoints
      <4> QED BY <4>2
    <3> QED BY <3>1, <3>2
  <2>4. BootBody \in Bodies
    BY DEF BootBody, Bodies
  <2>5. said = <<>> /\ Append(said, BootBody) = <<BootBody>>
    BY <2>2
  <2>6. /\ WellFormed(a, <<BootBody>>) /\ a.next = 1 /\ a.checkpoints = <<>> /\ a.records # <<>>
    <3>1. WellFormed(log, said)
      BY DEF AuditInv
    <3>2. /\ WellFormed(a, Append(said, BootBody)) /\ a.next = log.next + 1
          /\ a.checkpoints = log.checkpoints /\ a.records # <<>>
      BY <3>1, <2>4, AppendKeeps
    <3> HIDE DEF a
    <3> QED BY <3>2, <2>2, <2>3, <2>5
  <2> HIDE DEF a
  <2>7. a \in Logs
    BY <2>6 DEF WellFormed
  <2>8. /\ m \in Logs /\ m.started /\ m.records = a.records /\ m.checkpoints = a.checkpoints
        /\ m.next = a.next /\ m.head = a.head /\ m.evicted = a.evicted /\ m.anchor = a.anchor
        /\ m.genesis = a.genesis
    BY <2>7, Zenon DEF Logs
  <2> HIDE DEF m
  <2>9. WellFormed(m, <<BootBody>>)
    BY <2>6, <2>8 DEF WellFormed, RingHolds, CheckpointsHold
  <2>10. Lag(m) <= m.next % Interval
    BY <2>6, <2>8, NextInInterval DEF Lag
  <2> QED BY <1>2, <2>1, <2>6, <2>8, <2>9, <2>10
<1> QED BY <1>1, <1>2

-----------------------------------------------------------------------------
(* The invariant. *)

\* The empty log establishes the invariant.
LEMMA InitKeeps == AuditInit => AuditInv
<1> SUFFICES ASSUME AuditInit PROVE AuditInv
  OBVIOUS
<1> USE DEF AuditInit
<1>1. log \in Logs /\ said \in Seq(Bodies)
  BY DEF Logs, Genesis, Digests
<1>2. Chain(said, 0) = <<>>
  BY DEF Chain
<1>3. RingHolds(log, said)
  BY <1>2, AuditAssumption DEF RingHolds, Genesis
<1>4. CheckpointsHold(log, said)
  BY DEF CheckpointsHold
<1>5. Lag(log) <= log.next % Interval
  <2>1. 0 % Interval \in 0 .. Interval - 1
    BY NextInInterval
  <2> QED BY <2>1, AuditAssumption DEF Lag
<1> QED BY <1>1, <1>3, <1>4, <1>5 DEF AuditInv, WellFormed

\* record appends and, at the end of an interval, signs.
LEMMA RecordKeeps ==
    ASSUME AuditInv, NEW b \in Bodies, Record(b)
    PROVE  AuditInv'
<1> DEFINE s == IF log.started THEN said ELSE <<BootBody>>
           a == Started(log)
           l == AppendBody(a, b)
           t == Append(s, b)
<1>1. WellFormed(a, s) /\ a.started /\ a.next > 0 /\ Lag(a) <= a.next % Interval
  BY StartKeeps
<1>2. log' = (IF Due(l) THEN Sealed(l) ELSE l) /\ said' = t
  BY DEF Record
<1> HIDE DEF a, s
<1>3. WellFormed(l, t) /\ l.next = a.next + 1 /\ l.started = a.started /\ l.checkpoints = a.checkpoints /\ l.records # <<>>
  BY Zenon, <1>1, AppendKeeps
<1> HIDE DEF l, t
<1>4. a.next \in Nat /\ a.checkpoints \in Seq(Checkpoints)
  BY <1>1 DEF WellFormed, Logs
<1>5. CASE Due(l)
  <2>1. /\ WellFormed(Sealed(l), t) /\ Sealed(l).next = l.next /\ Sealed(l).started = l.started /\ Lag(Sealed(l)) = 0
    BY <1>3, SealKeeps
  <2>2. log' = Sealed(l)
    BY <1>2, <1>5
  <2>3. Lag(log)' = 0 /\ log'.next = a.next + 1 /\ log'.started /\ WellFormed(log', said')
    BY Zenon, <2>1, <2>2, <1>1, <1>2, <1>3 DEF Lag, LatestCheckpoint
  <2>4. 0 <= (a.next + 1) % Interval
    <3>1. (a.next + 1) % Interval \in 0 .. Interval - 1
      BY <1>4, NextInInterval
    <3> QED BY <3>1, AuditAssumption
  <2> QED BY <2>3, <2>4, <1>4 DEF AuditInv
<1>6. CASE ~Due(l)
  <2>1. log' = l
    BY <1>2, <1>6
  <2>2. (a.next + 1) % Interval = (a.next % Interval) + 1
    BY <1>3, <1>4, <1>6, NextInInterval DEF Due
  <2>3. LatestCheckpoint(a) \in Nat \/ a.checkpoints = <<>>
    <3> SUFFICES ASSUME a.checkpoints # <<>> PROVE LatestCheckpoint(a) \in Nat
      OBVIOUS
    <3>1. Len(a.checkpoints) \in 1 .. Len(a.checkpoints)
      BY <1>4
    <3>2. a.checkpoints[Len(a.checkpoints)] \in Checkpoints
      BY <1>4, <3>1
    <3> QED BY <3>2 DEF LatestCheckpoint, Checkpoints
  <2>4. a.next % Interval \in Int
    BY <1>4, AuditAssumption
  <2>5. Lag(l) = Lag(a) + 1 /\ Lag(a) \in Int
    BY <1>3, <1>4, <2>3 DEF Lag, LatestCheckpoint
  <2>6. Lag(l) <= l.next % Interval
    BY <1>1, <1>3, <2>2, <2>4, <2>5
  <2>7. Lag(log)' = Lag(l)
    BY <2>1 DEF Lag, LatestCheckpoint
  <2>8. WellFormed(log, said)'
    BY <1>2, <1>3, <2>1
  <2>9. log'.started /\ log'.next > 0 /\ log'.next = l.next
    <3>1. log'.started
      BY <1>1, <1>3, <2>1, Zenon
    <3>2. l.next > 0
      BY <1>3, <1>4
    <3> QED BY <2>1, <3>1, <3>2
  <2> QED BY <2>6, <2>7, <2>8, <2>9 DEF AuditInv
<1> QED BY <1>5, <1>6

\* Every record, start-up, checkpoint and demo-tamper keeps the invariant.
LEMMA NextKeeps == AuditInv /\ [AuditNext]_auditVars => AuditInv'
<1> SUFFICES ASSUME AuditInv, [AuditNext]_auditVars PROVE AuditInv'
  OBVIOUS
<1>1. ASSUME NEW event \in Events, NEW bit \in {0, 1}, Record(<<event, bit>>) PROVE AuditInv'
  <2>1. <<event, bit>> \in Bodies
    BY DEF Bodies
  <2> QED BY <1>1, <2>1, RecordKeeps
<1>2. CASE AuditStart
  <2>1. log' = Started(log) /\ said' = (IF log.started THEN said ELSE <<BootBody>>)
    BY <1>2 DEF AuditStart
  <2>2. /\ WellFormed(log', said') /\ log'.started /\ log'.next > 0
        /\ Lag(log') <= log'.next % Interval
    BY <2>1, StartKeeps
  <2>3. Lag(log') = Lag(log)'
    BY DEF Lag, LatestCheckpoint
  <2> QED BY <2>2, <2>3 DEF AuditInv
<1>3. CASE CheckpointNow
  <2> DEFINE l == Started(log)
             s == IF log.started THEN said ELSE <<BootBody>>
  <2>1. WellFormed(l, s) /\ l.started /\ l.next > 0 /\ l.records # <<>>
    BY StartKeeps
  <2>2. log' = Sealed(l) /\ said' = s
    BY <1>3 DEF CheckpointNow
  <2> HIDE DEF l, s
  <2>3. WellFormed(Sealed(l), s) /\ Sealed(l).next = l.next /\ Sealed(l).started = l.started /\ Lag(Sealed(l)) = 0
    BY Zenon, <2>1, SealKeeps
  <2>4. l.next \in Nat /\ 0 <= l.next % Interval
    <3>1. l.next \in Nat
      BY <2>1 DEF WellFormed, Logs
    <3> QED BY <3>1, AuditAssumption, NextInInterval
  <2>5. Lag(log)' = 0
    BY <2>2, <2>3 DEF Lag, LatestCheckpoint
  <2> QED BY <2>1, <2>2, <2>3, <2>4, <2>5 DEF AuditInv
<1>4. ASSUME NEW i \in 1 .. Len(log.records), DemoTamper(i) PROVE AuditInv'
  <2>1. log' = [log EXCEPT !.records[i].body = Flipped(log.records[i].body)] /\ said' = said
    BY <1>4 DEF DemoTamper
  <2>2. /\ WellFormed(log', said') /\ log'.next = log.next /\ log'.started = log.started
        /\ log'.checkpoints = log.checkpoints
    BY Zenon, <2>1, FlipKeeps DEF AuditInv
  <2>3. Lag(log)' = Lag(log)
    BY <2>2 DEF Lag, LatestCheckpoint
  <2> QED BY <2>2, <2>3 DEF AuditInv
<1>5. CASE UNCHANGED auditVars
  BY <1>5 DEF auditVars, AuditInv, Lag, LatestCheckpoint
<1> QED BY Zenon, <1>1, <1>2, <1>3, <1>4, <1>5 DEF AuditNext

\* Whatever is recorded, signed, altered and evicted, the log stays the chain of
\* what was recorded, bodies apart (audit.rs AuditLog).
THEOREM AuditInvariant == AuditSpec => []AuditInv
BY InitKeeps, NextKeeps, PTL DEF AuditSpec

-----------------------------------------------------------------------------
(* What the invariant says of verify and of the checkpoints. *)

\* A set of natural numbers has a smallest element.
LEMMA SmallestExists ==
    ASSUME NEW S, S \subseteq Nat, S # {}
    PROVE  Min(S) \in S
<1> DEFINE R == OpToRel(<, Nat)
<1>1. PICK x \in S : \A y \in S : ~(<<y, x>> \in R)
  BY Zenon, NatLessThanWellFounded, WFMin
<1>2. \A y \in S : x <= y
  <2> SUFFICES ASSUME NEW y \in S PROVE x <= y
    OBVIOUS
  <2>1. x \in Nat /\ y \in Nat
    OBVIOUS
  <2>2. ASSUME y < x PROVE <<y, x>> \in R
    BY <2>1, <2>2 DEF OpToRel
  <2>3. ~(y < x)
    BY Zenon, <1>1, <2>2
  <2> QED BY <2>1, <2>3
<1> QED BY Zenon, <1>2 DEF Min

\* A record of the ring fails the check of its hash exactly when it was altered.
LEMMA BrokenIsAltered ==
    ASSUME AuditInv, NEW i \in 1 .. Len(log.records)
    PROVE  /\ ~Gap(log, i) /\ log.records[i].seq = log.evicted + i - 1
           /\ Broken(log, i) <=> log.records[i].body # said[log.evicted + i]
<1> DEFINE n == log.evicted + i
           r == log.records[i]
<1>1. log \in Logs /\ said \in Seq(Bodies) /\ RingHolds(log, said)
  BY DEF AuditInv, WellFormed
<1>2. log.evicted \in Nat /\ log.records \in Seq(Records) /\ r \in Records
  BY <1>1 DEF Logs
<1>3. r.body \in Bodies /\ r.seq = n - 1 /\ r.hash = Chain(said, n) /\ n \in 1 .. Len(said) /\ n - 1 \in Nat
  <2>1. r.body \in Bodies
    BY <1>2 DEF Records
  <2>2. r.seq = n - 1 /\ r.hash = Chain(said, n)
    <3>1. r.seq = log.evicted + i - 1 /\ r.hash = Chain(said, log.evicted + i)
      BY <1>1, Zenon DEF RingHolds
    <3>2. log.evicted + i - 1 = n - 1
      BY <1>2
    <3> QED BY <3>1, <3>2, Zenon
  <2>3. log.evicted + Len(log.records) = Len(said) /\ Len(log.records) \in Nat
    BY <1>1, <1>2 DEF RingHolds
  <2>4. n \in 1 .. Len(said) /\ n - 1 \in Nat
    BY <1>2, <2>3
  <2> QED BY <2>1, <2>2, <2>4
<1>4. Previous(log, i) = Chain(said, n - 1)
  <2>1. CASE i = 1
    BY <2>1, <1>1, <1>2 DEF Previous, RingHolds
  <2>2. CASE i # 1
    <3>1. i - 1 \in 1 .. Len(log.records) /\ log.evicted + (i - 1) = n - 1
      BY <2>2, <1>2
    <3>2. log.records[i - 1].hash = Chain(said, log.evicted + (i - 1))
      BY <3>1, <1>1 DEF RingHolds
    <3> QED BY <2>2, <3>1, <3>2 DEF Previous
  <2> QED BY <2>1, <2>2
<1>5. Chain(said, n) = RecordHash(Chain(said, n - 1), n - 1, said[n]) /\ said[n] \in Bodies
  BY <1>1, <1>3, ChainStep
<1>6. Chain(said, n - 1) \in Digests
  <2>1. n - 1 \in 0 .. Len(said)
    BY <1>3
  <2> QED BY <2>1, <1>1, ChainType
<1>7. RecordHash(Chain(said, n - 1), n - 1, r.body) = r.hash <=> r.body = said[n]
  BY <1>3, <1>5, <1>6, HashInjective
<1>8. Broken(log, i) <=> r.body # said[n]
  BY <1>3, <1>4, <1>7 DEF Broken
<1>9. ~Gap(log, i) /\ r.seq = log.evicted + i - 1
  BY <1>3, <1>2 DEF Gap
<1> QED BY <1>8, <1>9

\* A checkpoint made by this kernel is sound.
LEMMA CheckpointsSound == AuditInv => Unsound(log) = {}
<1> SUFFICES ASSUME AuditInv, NEW k \in 1 .. Len(log.checkpoints)
             PROVE  ~BadSignature(log.checkpoints[k]) /\ ~Mismatch(log, log.checkpoints[k])
  BY DEF Unsound
<1> DEFINE c == log.checkpoints[k]
<1>1. c.sig = CheckpointDigest(c.seq, c.head) /\ c.head = Chain(said, c.seq + 1)
  BY DEF AuditInv, WellFormed, CheckpointsHold
<1>2. ASSUME NEW i \in 1 .. Len(log.records), log.records[i].seq = c.seq
      PROVE  log.records[i].hash = c.head
  <2>1. log.evicted \in Nat
    BY DEF AuditInv, WellFormed, Logs
  <2>2. log.records[i].seq = log.evicted + i - 1 /\ log.records[i].hash = Chain(said, log.evicted + i)
    BY DEF AuditInv, WellFormed, RingHolds
  <2>3. c.seq + 1 = log.evicted + i
    BY <1>2, <2>1, <2>2
  <2> QED BY <1>1, <2>2, <2>3
<1> QED BY <1>1, <1>2 DEF BadSignature, Mismatch

\* The invariant decides what audit verify answers.
LEMMA InvExact == AuditInv => VerifyIsExact
<1> SUFFICES ASSUME AuditInv PROVE VerifyIsExact
  OBVIOUS
<1>1. log \in Logs /\ said \in Seq(Bodies) /\ RingHolds(log, said)
  BY DEF AuditInv, WellFormed
<1>2. ~(log.evicted = 0 /\ log.anchor # log.genesis)
  <2>1. Chain(said, 0) = <<>>
    BY DEF Chain
  <2> QED BY <1>1, <2>1 DEF RingHolds, Genesis
<1>3. Wrong(log) = Altered
  BY BrokenIsAltered DEF Wrong, Altered
<1>4. CASE Altered = {}
  <2>1. Previous(log, Len(log.records) + 1) = log.head
    <3>1. log.records \in Seq(Records) /\ log.evicted \in Nat /\ log.evicted + Len(log.records) = log.next
      BY <1>1 DEF Logs, RingHolds
    <3>2. CASE Len(log.records) = 0
      BY <3>1, <3>2, <1>1 DEF Previous, RingHolds
    <3>3. CASE Len(log.records) # 0
      <4>1. Len(log.records) \in 1 .. Len(log.records) /\ (Len(log.records) + 1) - 1 = Len(log.records) /\ Len(log.records) + 1 # 1
        BY <3>1, <3>3
      <4>2. log.records[Len(log.records)].hash = Chain(said, log.next)
        BY <4>1, <3>1, <1>1 DEF RingHolds
      <4> QED BY <4>1, <4>2, <1>1 DEF Previous, RingHolds
    <3> QED BY <3>2, <3>3
  <2>2. Unsound(log) = {}
    BY CheckpointsSound
  <2> QED BY <1>2, <1>3, <1>4, <2>1, <2>2 DEF Verify, VerifyIsExact
<1>5. CASE Altered # {}
  <2> DEFINE i == Min(Altered)
  <2>1. i \in Altered
    <3>1. Altered \subseteq Nat
      BY DEF Altered
    <3> QED BY Zenon, <3>1, <1>5, SmallestExists
  <2>2. i \in 1 .. Len(log.records)
    BY <2>1 DEF Altered
  <2> HIDE DEF i
  <2>3. ~Gap(log, i) /\ log.records[i].seq = log.evicted + i - 1
    BY <2>2, BrokenIsAltered
  <2>4. Verify(log) = Verdict("BrokenAt", log.records[i].seq)
    BY <1>2, <1>3, <1>5, <2>3 DEF Verify, i
  <2> QED BY <1>5, <2>3, <2>4 DEF VerifyIsExact, i
<1> QED BY <1>4, <1>5

\* The invariant bounds the records no signature covers.
LEMMA InvSigned == AuditInv => SignedInTime
<1> SUFFICES ASSUME AuditInv PROVE SignedInTime
  OBVIOUS
<1>1. log \in Logs /\ RingHolds(log, said) /\ CheckpointsHold(log, said) /\ Lag(log) <= log.next % Interval
  BY DEF AuditInv, WellFormed
<1>2. /\ log.records \in Seq(Records) /\ log.evicted \in Nat /\ log.next \in Nat
      /\ log.checkpoints \in Seq(Checkpoints)
      /\ log.evicted + Len(log.records) = log.next
      /\ (log.evicted > 0 => Len(log.records) = Capacity) /\ Len(log.records) <= Capacity
  BY <1>1 DEF Logs, RingHolds
<1>3. log.next % Interval < Interval /\ log.next % Interval \in Nat
  <2>1. log.next % Interval \in 0 .. Interval - 1
    BY Zenon, <1>2, NextInInterval
  <2> QED BY <2>1, AuditAssumption
<1>4. Interval \in Nat /\ 1 < Interval /\ Interval <= Capacity /\ Capacity \in Nat
  BY AuditAssumption
<1>5. CASE log.checkpoints = <<>>
  <2>1. log.next < Interval
    BY <1>1, <1>2, <1>3, <1>4, <1>5 DEF Lag
  <2>2. log.evicted = 0
    BY <2>1, <1>2, <1>4
  <2>3. UnsignedTail(log) < Interval
    BY <1>2, <1>4, <1>5, <2>1, <2>2 DEF UnsignedTail
  <2> QED BY <2>2, <2>3 DEF SignedInTime
<1>6. CASE log.checkpoints # <<>>
  <2> DEFINE c == LatestCheckpoint(log)
  <2>1. c \in Nat /\ c < log.next
    <3>1. Len(log.checkpoints) \in 1 .. Len(log.checkpoints)
      BY <1>2, <1>6
    <3>2. log.checkpoints[Len(log.checkpoints)] \in Checkpoints
      BY <1>2, <3>1
    <3>3. log.checkpoints[Len(log.checkpoints)].seq < log.next
      BY <1>1, <3>1 DEF CheckpointsHold
    <3> QED BY <3>2, <3>3 DEF LatestCheckpoint, Checkpoints
  <2>2. log.next - 1 - c < Interval
    BY <1>1, <1>2, <1>3, <1>4, <1>6, <2>1 DEF Lag
  <2>3. log.records # <<>> => LastSeq(log) = log.next - 1
    <3> SUFFICES ASSUME log.records # <<>> PROVE LastSeq(log) = log.next - 1
      OBVIOUS
    <3>1. Len(log.records) \in 1 .. Len(log.records)
      BY <1>2
    <3>2. log.records[Len(log.records)].seq = log.evicted + Len(log.records) - 1
      BY <3>1, <1>1 DEF RingHolds
    <3> QED BY <3>2, <1>2 DEF LastSeq
  <2>4. UnsignedTail(log) < Interval
    BY <1>4, <1>6, <2>1, <2>2, <2>3 DEF UnsignedTail
  <2>5. log.evicted > 0 => c >= log.evicted - 1
    BY <1>2, <1>4, <2>1, <2>2
  <2> QED BY <1>6, <2>4, <2>5 DEF SignedInTime
<1> QED BY <1>5, <1>6

\* audit-verify names the oldest altered record that is still retained, and
\* reports nothing else, for every capacity, interval and number of checkpoints.
THEOREM VerifyExact == AuditSpec => []VerifyIsExact
BY AuditInvariant, InvExact, PTL

\* Fewer than Interval records wait for a signature, and none is evicted first.
THEOREM SignaturesInTime == AuditSpec => []SignedInTime
BY AuditInvariant, InvSigned, PTL
=============================================================================
