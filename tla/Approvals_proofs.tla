-------------------------- MODULE Approvals_proofs --------------------------
(***************************************************************************)
(* Proofs about signed approvals, for every set of operators, every quorum   *)
(* and every number of requests, signatures, parts and boots.                *)
(***************************************************************************)
EXTENDS Approvals, TLAPS, SequenceTheorems, FiniteSetTheorems

\* Where a part of a signature on the channel continues: after the part before
\* it, or, for the first one, in the assembler's buffer.
Continues(k) ==
    \/ wire[k].part = 1
    \/ k > 1 /\ wire[k - 1] = [sig |-> wire[k].sig, part |-> wire[k].part - 1]
    \/ /\ k = 1 /\ assembler.buf # <<>> /\ Len(assembler.buf) = wire[1].part - 1
       /\ assembler.buf[1].sig = wire[1].sig

\* The parts on the channel are those of signatures that were made, in order.
WireInOrder ==
    /\ wire \in Seq([sig : signed, part : 1 .. Parts])
    /\ \A k \in 1 .. Len(wire) : Continues(k)

\* The buffer holds the first parts of one signature.
BufferInOrder ==
    /\ assembler = [key |-> assembler.key, buf |-> assembler.buf]
    /\ assembler.buf \in Seq(Part) /\ Len(assembler.buf) < Parts
    /\ \A k \in 1 .. Len(assembler.buf) : assembler.buf[k] = [sig |-> assembler.buf[1].sig, part |-> k]
    /\ assembler.buf # <<>> => assembler.key = Key(assembler.buf[1].sig)

Types ==
    /\ boot \in Nat /\ nextId \in Nat
    /\ sending \subseteq [id : Nat, quorum : Nat \ {0}]
    /\ open \subseteq Opened /\ closed \subseteq Opened
    /\ shown \subseteq [boot : Nat, id : Nat]
    /\ signed \subseteq Signature /\ files \subseteq signed
    /\ IsFiniteSet(signed)

VotesInv == Types /\ WireInOrder /\ BufferInOrder /\ ApprovedByQuorum

\* Before the first request there is nothing to count.
LEMMA VotesInit == Init => VotesInv
<1> SUFFICES ASSUME Init PROVE VotesInv
  OBVIOUS
<1> USE DEF Init
<1>1. Types
  BY FS_EmptySet DEF Types
<1>2. WireInOrder
  BY DEF WireInOrder
<1>3. BufferInOrder
  BY ApprovalsAssumption DEF BufferInOrder, Empty
<1>4. ApprovedByQuorum
  BY DEF ApprovedByQuorum
<1> QED BY <1>1, <1>2, <1>3, <1>4 DEF VotesInv

\* The parts of signed approvals are parts of approvals.
LEMMA SignedParts == ASSUME Types PROVE Seq([sig : signed, part : 1 .. Parts]) \subseteq Seq(Part)
<1>1. [sig : signed, part : 1 .. Parts] \subseteq Part
  BY DEF Types, Part
<1> QED BY Zenon, <1>1, SeqMonotonic

\* The assembler state a holds the parts of m's signature up to m.
HoldsUpTo(a, m) ==
    /\ a = [key |-> Key(m.sig), buf |-> a.buf]
    /\ a.buf \in Seq(Part) /\ Len(a.buf) = m.part /\ a.buf # <<>>
    /\ \A k \in 1 .. Len(a.buf) : a.buf[k] = [sig |-> m.sig, part |-> k]

\* The next message on the wire is part of a signed approval and continues what the kernel has
\* assembled.
LEMMA HeadOfWire ==
    ASSUME VotesInv, wire # <<>>
    PROVE  /\ Head(wire) \in [sig : signed, part : 1 .. Parts] /\ Head(wire) \in Part
           /\ wire[1] = Head(wire) /\ Continues(1)
<1>1. wire \in Seq([sig : signed, part : 1 .. Parts])
  BY DEF VotesInv, WireInOrder
<1>2. Head(wire) \in [sig : signed, part : 1 .. Parts]
  BY Zenon, <1>1, HeadTailProperties
<1>3. 1 \in 1 .. Len(wire) /\ wire[1] = Head(wire)
  BY <1>1
<1>4. Continues(1)
  BY <1>3 DEF VotesInv, WireInOrder
<1> QED BY <1>2, <1>3, <1>4 DEF VotesInv, Types, Part

\* A part that is received continues the buffer or starts it again.
LEMMA PushInOrder ==
    ASSUME VotesInv, wire # <<>>
    PROVE  HoldsUpTo(Push(assembler, Head(wire)), Head(wire))
<1> DEFINE m == Head(wire)
           B == assembler.buf
<1>1. m \in Part /\ wire[1] = m /\ Continues(1)
  BY HeadOfWire
<1>2. m = [sig |-> m.sig, part |-> m.part] /\ m.part \in Nat
  BY <1>1, ApprovalsAssumption DEF Part
<1>3. /\ B \in Seq(Part)
      /\ \A k \in 1 .. Len(B) : B[k] = [sig |-> B[1].sig, part |-> k]
      /\ B # <<>> => assembler.key = Key(B[1].sig)
  BY DEF VotesInv, BufferInOrder
<1>4. m.part = 1 \/ (B # <<>> /\ Len(B) = m.part - 1 /\ B[1].sig = m.sig)
  BY <1>1 DEF Continues
<1>5. CASE m.part = 1
  <2>1. Push(assembler, m) = [key |-> Key(m.sig), buf |-> <<m>>]
    BY <1>5 DEF Push
  <2>2. <<m>> \in Seq(Part) /\ Len(<<m>>) = 1 /\ <<m>>[1] = m /\ <<m>> # <<>>
    BY <1>1
  <2> HIDE DEF m
  <2>3. HoldsUpTo([key |-> Key(m.sig), buf |-> <<m>>], m)
    BY <1>2, <1>5, <2>2 DEF HoldsUpTo
  <2> QED BY <2>1, <2>3 DEF m
<1>6. CASE m.part # 1
  <2>1. /\ Len(B) = m.part - 1 /\ assembler.key = Key(m.sig) /\ B[1].sig = m.sig
    BY <1>3, <1>4, <1>6
  <2>2. Push(assembler, m) = [key |-> Key(m.sig), buf |-> Append(B, m)]
    BY <1>6, <2>1 DEF Push
  <2> HIDE DEF m, B
  <2>3. /\ Append(B, m) \in Seq(Part) /\ Append(B, m) # <<>> /\ Len(Append(B, m)) = Len(B) + 1
        /\ \A k \in 1 .. Len(B) : Append(B, m)[k] = B[k]
        /\ Append(B, m)[Len(B) + 1] = m
    BY <1>1, <1>3, AppendProperties
  <2>4. Len(B) + 1 = m.part /\ Len(B) \in Nat
    BY <1>2, <1>3, <2>1
  <2>5. \A k \in 1 .. Len(B) : Append(B, m)[k] = [sig |-> m.sig, part |-> k]
    BY <1>3, <2>1, <2>3
  <2>6. Append(B, m)[m.part] = [sig |-> m.sig, part |-> m.part]
    BY <1>2, <2>3, <2>4
  <2> DEFINE A == Append(B, m)
  <2>7. A \in Seq(Part) /\ A # <<>> /\ Len(A) = m.part
    BY <2>3, <2>4
  <2>8. (\A k \in 1 .. Len(B) : A[k] = [sig |-> m.sig, part |-> k]) /\ A[m.part] = [sig |-> m.sig, part |-> m.part]
    BY <2>5, <2>6
  <2> HIDE DEF A
  <2>9. \A k \in 1 .. Len(A) : A[k] = [sig |-> m.sig, part |-> k]
    <3> TAKE k \in 1 .. Len(A)
    <3>1. k \in 1 .. Len(B) \/ k = m.part
      BY <2>4, <2>7
    <3> QED BY <3>1, <2>8
  <2>10. HoldsUpTo([key |-> Key(m.sig), buf |-> A], m)
    BY <2>7, <2>9 DEF HoldsUpTo
  <2> QED BY Zenon, <2>2, <2>10 DEF A, m, B
<1> QED BY <1>5, <1>6

\* What the assembler holds comes from one signature.
LEMMA InvOneSignature == VotesInv => OneSignature
<1> SUFFICES ASSUME VotesInv, wire # <<>>
             PROVE  LET buf == Push(assembler, Head(wire)).buf
                    IN  \A k \in 1 .. Len(buf) : buf[k] = [sig |-> buf[1].sig, part |-> k]
  BY DEF OneSignature
<1> DEFINE m == Head(wire)
           b == Push(assembler, m).buf
<1>1. b \in Seq(Part) /\ b # <<>> /\ \A k \in 1 .. Len(b) : b[k] = [sig |-> m.sig, part |-> k]
  BY PushInOrder DEF HoldsUpTo
<1> HIDE DEF m, b
<1>2. 1 \in 1 .. Len(b)
  BY <1>1
<1>3. b[1].sig = m.sig
  <2>1. b[1] = [sig |-> m.sig, part |-> 1]
    BY <1>1, <1>2
  <2> QED BY <2>1
<1>4. \A k \in 1 .. Len(b) : b[k] = [sig |-> b[1].sig, part |-> k]
  BY <1>1, <1>3
<1> QED BY <1>4 DEF b, m

-----------------------------------------------------------------------------
(* What an action does to one request. *)

\* The votes of request r are those of different pinned operators of this boot.
Fair(r) ==
    /\ \A j, k \in 1 .. Len(r.approvals) : r.approvals[j] = r.approvals[k] => j = k
    /\ \A k \in 1 .. Len(r.approvals) :
         /\ r.approvals[k] \in Pinned
         /\ \E s \in signed : /\ s.boot = boot /\ s.id = r.id
                              /\ s.op = r.approvals[k] /\ s.approve
    /\ (r.outcome = "approved") = (Len(r.approvals) >= r.quorum)

\* ApprovedByQuorum, request by request.
LEMMA FairForAll == ApprovedByQuorum <=> \A r \in open \cup closed : Fair(r)
  BY DEF ApprovedByQuorum, Fair

\* A request that keeps its votes and is not approved by the change stays fair.
LEMMA FairKept ==
    ASSUME NEW r \in Opened, NEW q \in Opened, Fair(r),
           q.approvals = r.approvals, q.quorum = r.quorum, q.id = r.id,
           (q.outcome = "approved") = (r.outcome = "approved")
    PROVE  Fair(q)
  BY DEF Fair

\* More signatures take nothing away.
LEMMA FairMonotone ==
    ASSUME NEW r, Fair(r), signed \subseteq signed', boot' = boot
    PROVE  Fair(r)'
<1> USE DEF Fair
<1>1. \A k \in 1 .. Len(r.approvals) :
         /\ r.approvals[k] \in Pinned
         /\ \E s \in signed' : s.boot = boot' /\ s.id = r.id /\ s.op = r.approvals[k] /\ s.approve
  OBVIOUS
<1> QED BY <1>1

\* A new vote by a pinned operator who signed it keeps the request fair.
LEMMA FairVote ==
    ASSUME NEW r \in Opened, Fair(r), NEW s \in signed, s \in Signature,
           s.boot = boot, s.op \in Pinned, Counts(r, s)
    PROVE  Voted(r, s) \in Opened /\ Fair(Voted(r, s))
<1> DEFINE A == Append(r.approvals, s.op)
           o == IF Len(r.approvals) + 1 >= r.quorum THEN "approved" ELSE r.outcome
<1>1. /\ r = [id |-> r.id, quorum |-> r.quorum, approvals |-> r.approvals, late |-> r.late, outcome |-> r.outcome]
      /\ r.id \in Nat /\ r.quorum \in Nat \ {0} /\ r.approvals \in Seq(Signers)
      /\ r.late \in BOOLEAN /\ r.outcome = "none" /\ r.id = s.id
      /\ s.op \in Signers /\ s.op \notin {r.approvals[k] : k \in 1 .. Len(r.approvals)}
  BY DEF Opened, Counts, Signature
<1>2. CASE ~s.approve
  <2>1. Voted(r, s) = [r EXCEPT !.outcome = "denied"]
    BY <1>2 DEF Voted
  <2>2. [r EXCEPT !.outcome = "denied"] \in Opened
    BY DEF Opened, Outcomes
  <2> QED BY <1>1, <2>1, <2>2, FairKept
<1>3. CASE s.approve
  <2>1. Voted(r, s) = [id |-> r.id, quorum |-> r.quorum, approvals |-> A, late |-> r.late, outcome |-> o]
    BY Zenon, <1>1, <1>3 DEF Voted
  <2>2. /\ A \in Seq(Signers) /\ Len(A) = Len(r.approvals) + 1 /\ Len(r.approvals) \in Nat
        /\ \A k \in 1 .. Len(r.approvals) : A[k] = r.approvals[k]
        /\ A[Len(r.approvals) + 1] = s.op
    BY <1>1, AppendProperties
  <2>3. o \in Outcomes /\ (o = "approved") = (Len(A) >= r.quorum)
    BY <1>1, <2>2 DEF Outcomes
  <2> HIDE DEF A, o
  <2>4. \A j, k \in 1 .. Len(A) : A[j] = A[k] => j = k
    <3> SUFFICES ASSUME NEW j \in 1 .. Len(A), NEW k \in 1 .. Len(A), A[j] = A[k], j # k
                 PROVE  FALSE
      OBVIOUS
    <3>1. \A i \in 1 .. Len(A) : i \in 1 .. Len(r.approvals) \/ i = Len(r.approvals) + 1
      BY <2>2
    <3>2. \A i \in 1 .. Len(r.approvals) : r.approvals[i] # s.op
      BY <1>1
    <3> QED BY <3>1, <3>2, <2>2 DEF Fair
  <2>5. \A k \in 1 .. Len(A) :
           /\ A[k] \in Pinned
           /\ \E t \in signed : t.boot = boot /\ t.id = r.id /\ t.op = A[k] /\ t.approve
    <3> TAKE k \in 1 .. Len(A)
    <3>1. k \in 1 .. Len(r.approvals) \/ k = Len(r.approvals) + 1
      BY <2>2
    <3>2. CASE k \in 1 .. Len(r.approvals)
      BY <2>2, <3>2 DEF Fair
    <3>3. CASE k = Len(r.approvals) + 1
      BY <1>1, <1>3, <2>2, <3>3
    <3> QED BY <3>1, <3>2, <3>3
  <2> DEFINE v == [id |-> r.id, quorum |-> r.quorum, approvals |-> A, late |-> r.late, outcome |-> o]
  <2>6. v \in Opened
    BY <1>1, <2>2, <2>3 DEF Opened
  <2>7. Fair(v)
    BY <2>3, <2>4, <2>5 DEF Fair
  <2> QED BY <2>1, <2>6, <2>7
<1>4. s.approve \in BOOLEAN
  BY DEF Signature
<1> QED BY <1>2, <1>3, <1>4

-----------------------------------------------------------------------------
(* The channel and the assembler. *)

\* A step that leaves the wire and the assembler alone keeps the parts in order.
LEMMA WireKept ==
    ASSUME WireInOrder, UNCHANGED <<wire, assembler>>, signed \subseteq signed'
    PROVE  WireInOrder'
<1>1. wire' \in Seq([sig : signed', part : 1 .. Parts])
  <2>1. [sig : signed, part : 1 .. Parts] \subseteq [sig : signed', part : 1 .. Parts]
    OBVIOUS
  <2>2. wire \in Seq([sig : signed, part : 1 .. Parts])
    BY DEF WireInOrder
  <2> QED BY Zenon, <2>1, <2>2, SeqMonotonic
<1>2. \A k \in 1 .. Len(wire') : Continues(k)'
  BY DEF WireInOrder, Continues
<1> QED BY <1>1, <1>2 DEF WireInOrder

\* The gateway forwards the parts of one approval after those of the one before it.
LEMMA WireForwarded ==
    ASSUME VotesInv, Forward
    PROVE  WireInOrder'
<1>0. PICK s \in files : wire' = wire \o [k \in 1 .. Parts |-> [sig |-> s, part |-> k]]
  BY Zenon DEF Forward
<1> DEFINE S == [sig : signed, part : 1 .. Parts]
           w == [k \in 1 .. Parts |-> [sig |-> s, part |-> k]]
<1>1. s \in signed /\ Parts \in Nat /\ wire \in Seq(S)
  BY ApprovalsAssumption DEF VotesInv, Types, WireInOrder
<1>2. w \in Seq(S) /\ Len(w) = Parts /\ \A k \in 1 .. Parts : w[k] = [sig |-> s, part |-> k]
  <2>1. \A k \in 1 .. Parts : [sig |-> s, part |-> k] \in S
    BY <1>1
  <2>2. w \in [1 .. Parts -> S]
    BY <2>1
  <2> QED BY <1>1, <2>2
<1> HIDE DEF S, w
<1>3. /\ wire' \in Seq(S) /\ Len(wire') = Len(wire) + Parts /\ Len(wire) \in Nat
      /\ \A i \in 1 .. Len(wire) + Parts : wire'[i] = IF i <= Len(wire) THEN wire[i] ELSE w[i - Len(wire)]
  BY <1>0, <1>1, <1>2, ConcatProperties DEF w
<1>4. assembler' = assembler /\ signed' = signed
  BY DEF Forward
<1>5. \A k \in 1 .. Len(wire') : Continues(k)'
  <2> SUFFICES ASSUME NEW k \in 1 .. Len(wire') PROVE Continues(k)'
    OBVIOUS
  <2>1. CASE k <= Len(wire)
    <3>1. Continues(k) /\ k \in 1 .. Len(wire)
      BY <1>3, <2>1 DEF VotesInv, WireInOrder
    <3>2. wire'[k] = wire[k] /\ wire'[1] = wire[1] /\ (k > 1 => wire'[k - 1] = wire[k - 1])
      BY <1>1, <1>3, <2>1
    <3> QED BY <1>4, <3>1, <3>2 DEF Continues
  <2>2. CASE k = Len(wire) + 1
    <3>1. wire'[k] = w[1] /\ 1 \in 1 .. Parts
      BY <1>1, <1>3, <2>2
    <3>2. w[1] = [sig |-> s, part |-> 1]
      BY <1>2, <3>1
    <3> QED BY <3>1, <3>2 DEF Continues
  <2>3. CASE k > Len(wire) + 1
    <3> DEFINE j == k - Len(wire)
    <3>1. j \in 1 .. Parts /\ j - 1 \in 1 .. Parts /\ k > 1 /\ k - 1 \in 1 .. Len(wire) + Parts
      BY <1>1, <1>3, <2>3
    <3>2. wire'[k] = w[j] /\ wire'[k - 1] = w[j - 1]
      <4>1. (k - 1) - Len(wire) = j - 1 /\ ~(k <= Len(wire)) /\ ~(k - 1 <= Len(wire))
        BY <1>3, <2>3
      <4> QED BY <1>3, <3>1, <4>1
    <3> HIDE DEF j
    <3>3. w[j] = [sig |-> s, part |-> j] /\ w[j - 1] = [sig |-> s, part |-> j - 1]
      BY <1>2, <3>1
    <3>4. wire'[k - 1] = [sig |-> wire'[k].sig, part |-> wire'[k].part - 1]
      BY <3>2, <3>3
    <3> QED BY <3>1, <3>4 DEF Continues
  <2> QED BY <1>3, <2>1, <2>2, <2>3
<1> QED BY <1>3, <1>4, <1>5 DEF WireInOrder, S

\* Taking the head of the channel into the buffer keeps both in order.
LEMMA WireReceived ==
    ASSUME VotesInv, Receive
    PROVE  WireInOrder' /\ BufferInOrder'
<1> DEFINE m == Head(wire)
           a == Push(assembler, m)
           S == [sig : signed, part : 1 .. Parts]
<1>1. wire # <<>> /\ wire' = Tail(wire) /\ signed' = signed /\ assembler' = IF Complete(a) THEN Empty ELSE a
  BY DEF Receive
<1>2. m \in S /\ m \in Part /\ wire[1] = m
  BY <1>1, HeadOfWire
<1>3. /\ wire \in Seq(S) /\ wire' \in Seq(S) /\ Len(wire') = Len(wire) - 1 /\ Len(wire) \in Nat
      /\ \A i \in 1 .. Len(wire') : wire'[i] = wire[i + 1]
  BY <1>1, HeadTailProperties DEF VotesInv, WireInOrder
<1>4. HoldsUpTo(a, m)
  BY <1>1, PushInOrder
<1>5. m.part \in 1 .. Parts /\ Parts \in Nat /\ m = [sig |-> m.sig, part |-> m.part]
  BY <1>2, ApprovalsAssumption
<1> HIDE DEF m, a, S
<1>6. /\ a = [key |-> Key(m.sig), buf |-> a.buf] /\ a.buf \in Seq(Part) /\ Len(a.buf) = m.part /\ a.buf # <<>>
      /\ \A k \in 1 .. Len(a.buf) : a.buf[k] = [sig |-> m.sig, part |-> k]
  BY <1>4 DEF HoldsUpTo
<1>7. a.buf[1].sig = m.sig
  <2>1. 1 \in 1 .. Len(a.buf)
    BY <1>5, <1>6
  <2>2. a.buf[1] = [sig |-> m.sig, part |-> 1]
    BY <1>6, <2>1
  <2> QED BY <2>2
<1>8. BufferInOrder'
  <2>1. CASE Complete(a)
    <3>1. assembler' = [key |-> NoKey, buf |-> <<>>]
      BY <1>1, <2>1 DEF Empty
    <3> QED BY <3>1, <1>5 DEF BufferInOrder
  <2>2. CASE ~Complete(a)
    <3>1. assembler' = a /\ Len(a.buf) < Parts
      BY <1>1, <1>5, <1>6, <2>2 DEF Complete
    <3>2. a.key = Key(m.sig) /\ \A k \in 1 .. Len(a.buf) : a.buf[k] = [sig |-> a.buf[1].sig, part |-> k]
      BY <1>6, <1>7
    <3> QED BY <1>6, <1>7, <3>1, <3>2 DEF BufferInOrder
  <2> QED BY <2>1, <2>2
<1>9. \A k \in 1 .. Len(wire') : Continues(k)'
  <2> SUFFICES ASSUME NEW k \in 1 .. Len(wire') PROVE Continues(k)'
    OBVIOUS
  <2>1. k + 1 \in 1 .. Len(wire) /\ wire'[k] = wire[k + 1] /\ k \in Nat /\ k >= 1
    BY <1>3
  <2>2. Continues(k + 1)
    BY <2>1 DEF VotesInv, WireInOrder
  <2>3. wire[k + 1].part = 1 \/ wire[k] = [sig |-> wire[k + 1].sig, part |-> wire[k + 1].part - 1]
    <3>1. ~(k + 1 = 1) /\ (k + 1) - 1 = k
      BY <2>1
    <3> QED BY <2>2, <3>1 DEF Continues
  <2>4. CASE wire[k + 1].part = 1
    BY <2>1, <2>4 DEF Continues
  <2>5. CASE wire[k + 1].part # 1 /\ k > 1
    <3>1. k - 1 \in 1 .. Len(wire') /\ (k - 1) + 1 = k
      BY <1>3, <2>1, <2>5
    <3>2. wire'[k - 1] = wire[k]
      BY <1>3, <3>1
    <3> QED BY <2>1, <2>3, <2>5, <3>2 DEF Continues
  <2>6. CASE wire[k + 1].part # 1 /\ k = 1
    <3>1. wire'[1] = wire[2] /\ m = [sig |-> wire[2].sig, part |-> wire[2].part - 1] /\ wire[2] \in S
      <4>1. wire'[1] = wire[2] /\ 2 \in 1 .. Len(wire)
        BY <2>1, <2>6
      <4>2. wire[2] \in S
        BY <1>3, <4>1, ElementOfSeq
      <4> QED BY <1>2, <2>3, <2>6, <4>1, <4>2
    <3>2. m.sig = wire[2].sig /\ m.part = wire[2].part - 1 /\ wire[2].part \in 1 .. Parts
      BY <3>1 DEF S
    <3>3. ~Complete(a)
      BY <1>5, <1>6, <3>2 DEF Complete
    <3>4. assembler' = a
      BY <1>1, <3>3
    <3> QED BY <1>6, <1>7, <2>6, <3>1, <3>2, <3>4 DEF Continues
  <2> QED BY <2>1, <2>4, <2>5, <2>6
<1> QED BY <1>1, <1>3, <1>8, <1>9 DEF WireInOrder, S

\* A signature that verifies was made for this boot.
LEMMA VerifiedWasSigned ==
    ASSUME VotesInv, wire # <<>>, Verifies(Push(assembler, Head(wire)).buf)
    PROVE  Head(wire).sig \in signed /\ Head(wire).sig.boot = boot
<1> DEFINE m == Head(wire)
           b == Push(assembler, m).buf
<1>1. m \in [sig : signed, part : 1 .. Parts]
  BY HeadOfWire
<1>2. b \in Seq(Part) /\ b # <<>> /\ \A k \in 1 .. Len(b) : b[k] = [sig |-> m.sig, part |-> k]
  BY PushInOrder DEF HoldsUpTo
<1>3. \A k \in 1 .. Len(b) : b[k].sig.boot = boot
  BY DEF Verifies
<1> HIDE DEF m, b
<1>4. 1 \in 1 .. Len(b)
  BY <1>2
<1>5. b[1] = [sig |-> m.sig, part |-> 1] /\ b[1].sig.boot = boot
  BY <1>2, <1>3, <1>4
<1> QED BY <1>1, <1>5 DEF m

-----------------------------------------------------------------------------

\* Every step of the approvers, the gateway and the kernel keeps the invariant.
LEMMA VotesStep == VotesInv /\ [Next]_vars => VotesInv'
<1> SUFFICES ASSUME VotesInv, [Next]_vars PROVE VotesInv'
  OBVIOUS
<1>t. Types /\ WireInOrder /\ BufferInOrder /\ ApprovedByQuorum
  BY DEF VotesInv
<1>f. /\ open \subseteq Opened /\ closed \subseteq Opened
      /\ \A r \in open \cup closed : Fair(r)
  BY <1>t, FairForAll DEF Types
<1>b. UNCHANGED assembler => BufferInOrder'
  BY <1>t DEF BufferInOrder
<1>w. UNCHANGED <<wire, assembler, signed>> => WireInOrder'
  BY <1>t, WireKept
<1>q. ASSUME UNCHANGED <<boot, signed>>, \A r \in open' \cup closed' : Fair(r)
      PROVE  ApprovedByQuorum'
  BY <1>q, FairForAll DEF ApprovedByQuorum, Fair
<1>1. CASE UNCHANGED vars
  BY <1>1, <1>t, <1>b, <1>w DEF vars, VotesInv, Types, ApprovedByQuorum
<1>2. ASSUME NEW n \in Quorums, SendRequest(n) PROVE VotesInv'
  <2> USE <1>2 DEF SendRequest
  <2>1. Quorum(n) \in Nat \ {0}
    BY ApprovalsAssumption DEF Quorum
  <2>2. Types'
    BY <1>t, <2>1 DEF Types
  <2> QED BY <1>t, <1>b, <1>w, <2>2 DEF VotesInv, ApprovedByQuorum
<1>3. CASE RecordRequest
  <2>1. PICK r \in sending :
           /\ sending' = sending \ {r}
           /\ open' = open \cup {[id |-> r.id, quorum |-> r.quorum, approvals |-> <<>>,
                                  late |-> FALSE, outcome |-> "none"]}
    BY <1>3 DEF RecordRequest
  <2> DEFINE n == [id |-> r.id, quorum |-> r.quorum, approvals |-> <<>>, late |-> FALSE, outcome |-> "none"]
  <2>2. n \in Opened /\ r.quorum \in Nat \ {0}
    BY <1>t DEF Types, Opened, Outcomes
  <2>3. Fair(n)
    BY <2>2 DEF Fair
  <2>4. UNCHANGED <<boot, nextId, closed, shown, signed, files, wire, assembler>>
    BY <1>3 DEF RecordRequest
  <2> HIDE DEF n
  <2>5. open' = open \cup {n}
    BY <2>1 DEF n
  <2>6. Types'
    BY <1>t, <2>1, <2>2, <2>4, <2>5 DEF Types
  <2>7. ApprovedByQuorum'
    BY <1>f, <1>q, <2>3, <2>4, <2>5
  <2> QED BY <1>b, <1>w, <2>4, <2>6, <2>7 DEF VotesInv
<1>4. ASSUME NEW r \in open, DeadlinePasses(r) PROVE VotesInv'
  <2>1. /\ open' = (open \ {r}) \cup {[r EXCEPT !.late = TRUE]}
        /\ UNCHANGED <<boot, nextId, sending, closed, shown, signed, files, wire, assembler>>
    BY <1>4 DEF DeadlinePasses
  <2>2. [r EXCEPT !.late = TRUE] \in Opened /\ r \in Opened
    BY Zenon, <1>f DEF Opened
  <2>3. Fair([r EXCEPT !.late = TRUE])
    <3>1. LET q == [r EXCEPT !.late = TRUE]
          IN  q.approvals = r.approvals /\ q.quorum = r.quorum /\ q.id = r.id /\ q.outcome = r.outcome
      BY <2>2 DEF Opened
    <3> QED BY Zenon, <1>f, <2>2, <3>1, FairKept
  <2>4. Types'
    BY Zenon, <1>t, <2>1, <2>2 DEF Types
  <2>5. ApprovedByQuorum'
    BY Zenon, <1>f, <1>q, <2>1, <2>3
  <2> QED BY <1>b, <1>w, <2>1, <2>4, <2>5 DEF VotesInv
<1>5. CASE CheckTimeouts
  <2>1. /\ open' = {IF r.late /\ r.outcome = "none" THEN [r EXCEPT !.outcome = "timedout"] ELSE r : r \in open}
        /\ UNCHANGED <<boot, nextId, sending, closed, shown, signed, files, wire, assembler>>
    BY <1>5 DEF CheckTimeouts
  <2>2. ASSUME NEW r \in open, r.outcome = "none"
        PROVE  [r EXCEPT !.outcome = "timedout"] \in Opened /\ Fair([r EXCEPT !.outcome = "timedout"])
    <3>1. [r EXCEPT !.outcome = "timedout"] \in Opened /\ r \in Opened
      BY <1>f DEF Opened, Outcomes
    <3>2. LET q == [r EXCEPT !.outcome = "timedout"]
          IN  q.approvals = r.approvals /\ q.quorum = r.quorum /\ q.id = r.id /\ q.outcome = "timedout"
      BY <3>1 DEF Opened
    <3> QED BY Zenon, <1>f, <2>2, <3>1, <3>2, FairKept
  <2>3. open' \subseteq Opened /\ \A r \in open' : Fair(r)
    BY <1>f, <2>1, <2>2
  <2>4. Types'
    BY <1>t, <2>1, <2>3 DEF Types
  <2>5. ApprovedByQuorum'
    BY <1>f, <1>q, <2>1, <2>3
  <2> QED BY <1>b, <1>w, <2>1, <2>4, <2>5 DEF VotesInv
<1>6. ASSUME NEW r \in open, Close(r) PROVE VotesInv'
  <2>1. /\ open' = open \ {r} /\ closed' = closed \cup {r}
        /\ UNCHANGED <<boot, nextId, sending, shown, signed, files, wire, assembler>>
    BY <1>6 DEF Close
  <2>2. Types'
    BY <1>t, <2>1 DEF Types
  <2>3. ApprovedByQuorum'
    BY <1>f, <1>q, <2>1
  <2> QED BY <1>b, <1>w, <2>1, <2>2, <2>3 DEF VotesInv
<1>7. CASE Reboot
  <2> USE <1>7 DEF Reboot
  <2>1. Types'
    BY <1>t DEF Types
  <2>2. WireInOrder'
    BY DEF WireInOrder
  <2>3. BufferInOrder'
    BY ApprovalsAssumption DEF BufferInOrder, Empty
  <2>4. ApprovedByQuorum'
    BY DEF ApprovedByQuorum
  <2> QED BY <2>1, <2>2, <2>3, <2>4 DEF VotesInv
<1>8. ASSUME NEW op \in Signers, NEW r \in shown, NEW approve \in BOOLEAN, Decide(op, r, approve)
      PROVE  VotesInv'
  <2> DEFINE s == [boot |-> r.boot, id |-> r.id, op |-> op, approve |-> approve, serial |-> Cardinality(signed)]
  <2>1. /\ signed' = signed \cup {s} /\ files' = {f \in files : f.id # s.id \/ f.op # s.op} \cup {s}
        /\ UNCHANGED <<boot, nextId, sending, open, closed, shown, wire, assembler>>
    BY <1>8 DEF Decide
  <2>2. s \in Signature
    BY <1>t, FS_CardinalityType DEF Types, Signature
  <2> HIDE DEF s
  <2>3. IsFiniteSet(signed')
    BY <1>t, <2>1, FS_AddElement DEF Types
  <2>4. Types'
    BY <1>t, <2>1, <2>2, <2>3 DEF Types
  <2>5. WireInOrder'
    BY <1>t, <2>1, WireKept
  <2>6. ApprovedByQuorum'
    <3>1. \A q \in open \cup closed : Fair(q)'
      BY <1>f, <2>1, FairMonotone
    <3> QED BY <2>1, <3>1 DEF ApprovedByQuorum, Fair
  <2> QED BY <1>b, <2>1, <2>4, <2>5, <2>6 DEF VotesInv
<1>9. CASE Forward
  <2>1. UNCHANGED <<boot, nextId, sending, open, closed, shown, signed, assembler>> /\ files' \subseteq files
    BY <1>9 DEF Forward
  <2>2. Types'
    BY <1>t, <2>1 DEF Types
  <2>3. ApprovedByQuorum'
    BY <1>t, <2>1 DEF ApprovedByQuorum
  <2> QED BY <1>9, <1>b, <2>1, <2>2, <2>3, WireForwarded DEF VotesInv
<1>10. CASE LinkLost
  <2>1. UNCHANGED <<boot, nextId, sending, open, closed, shown, signed, assembler>> /\ files' \subseteq files /\ wire' = <<>>
    BY <1>10 DEF LinkLost
  <2>2. Types'
    BY <1>t, <2>1 DEF Types
  <2>3. ApprovedByQuorum'
    BY <1>t, <2>1 DEF ApprovedByQuorum
  <2>4. WireInOrder'
    BY <2>1 DEF WireInOrder
  <2> QED BY <1>b, <2>1, <2>2, <2>3, <2>4 DEF VotesInv
<1>11. CASE Receive
  <2> DEFINE s == Head(wire).sig
             ok == s.op \in Pinned /\ Verifies(Push(assembler, Head(wire)).buf)
  <2>1. /\ wire # <<>> /\ UNCHANGED <<boot, nextId, sending, closed, shown, signed, files>>
        /\ \/ open' = {IF ok /\ Counts(r, s) THEN Voted(r, s) ELSE r : r \in open}
           \/ open' = open
    BY <1>11 DEF Receive
  <2>2. ASSUME NEW r \in open, ok, Counts(r, s) PROVE Voted(r, s) \in Opened /\ Fair(Voted(r, s))
    <3>1. s \in signed /\ s.boot = boot
      BY <2>1, <2>2, VerifiedWasSigned
    <3>2. s \in Signature /\ s.op \in Pinned
      BY <1>t, <2>2, <3>1 DEF Types
    <3> HIDE DEF s
    <3> QED BY <1>f, <2>2, <3>1, <3>2, FairVote
  <2> HIDE DEF s, ok
  <2>3. open' \subseteq Opened /\ \A r \in open' : Fair(r)
    BY <1>f, <2>1, <2>2
  <2>4. Types'
    BY <1>t, <2>1, <2>3 DEF Types
  <2>5. ApprovedByQuorum'
    BY <1>f, <1>q, <2>1, <2>3
  <2> QED BY <1>11, <2>4, <2>5, WireReceived DEF VotesInv
<1> QED BY Zenon, <1>1, <1>2, <1>3, <1>4, <1>5, <1>6, <1>7, <1>8, <1>9, <1>10, <1>11 DEF Next

\* Several different pinned operators must approve, for every quorum, every set
\* of operators and every number of parts: votes that are repeated, cut off,
\* late or left over from an earlier boot never add up to an approval, and no
\* two signatures are put together as one (approvals.rs, on_message).
THEOREM QuorumOfPinned == Spec => []VotesCount
<1>1. VotesInv => VotesCount
  <2> SUFFICES ASSUME VotesInv PROVE VotesCount
    OBVIOUS
  <2>1. TypeOK
    <3>1. wire \in Seq(Part)
      BY Zenon, SignedParts DEF VotesInv, WireInOrder
    <3> QED BY <3>1 DEF VotesInv, Types, BufferInOrder, TypeOK
  <2> QED BY <2>1, InvOneSignature DEF VotesCount, VotesInv
<1> QED BY <1>1, VotesInit, VotesStep, PTL DEF Spec

\* No later vote, time-out or close changes what was decided (on_message skips
\* a decided request, check_timeouts only decides undecided ones).
THEOREM DecisionsAreFinal == Spec => DecisionsStand
<1> DEFINE Stands(r) == boot' # boot \/ \E q \in open' \cup closed' : q.id = r.id /\ q.outcome = r.outcome
<1>1. ASSUME VotesInv, [Next]_vars, NEW r \in open, r.outcome # "none"
      PROVE  Stands(r)
  <2>1. r \in Opened /\ boot \in Nat
    BY <1>1 DEF VotesInv, Types
  <2>2. r \in open' \cup closed' => Stands(r)
    OBVIOUS
  <2>3. CASE UNCHANGED vars
    BY <2>2, <2>3 DEF vars
  <2>4. ASSUME NEW n \in Quorums, SendRequest(n) PROVE Stands(r)
    BY <2>2, <2>4 DEF SendRequest
  <2>5. CASE RecordRequest
    BY <2>2, <2>5 DEF RecordRequest
  <2>6. ASSUME NEW p \in open, DeadlinePasses(p) PROVE Stands(r)
    <3>1. CASE p = r
      <4>1. [r EXCEPT !.late = TRUE].id = r.id /\ [r EXCEPT !.late = TRUE].outcome = r.outcome
        BY <2>1 DEF Opened
      <4>2. [r EXCEPT !.late = TRUE] \in open'
        BY <2>6, <3>1 DEF DeadlinePasses
      <4> QED BY Zenon, <4>1, <4>2
    <3>2. CASE p # r
      BY <2>2, <2>6, <3>2 DEF DeadlinePasses
    <3> QED BY <3>1, <3>2
  <2>7. CASE CheckTimeouts
    BY <1>1, <2>2, <2>7 DEF CheckTimeouts
  <2>8. ASSUME NEW p \in open, Close(p) PROVE Stands(r)
    BY <2>2, <2>8 DEF Close
  <2>9. CASE Reboot
    BY <2>1, <2>9 DEF Reboot
  <2>10. ASSUME NEW op \in Signers, NEW p \in shown, NEW approve \in BOOLEAN, Decide(op, p, approve)
         PROVE  Stands(r)
    BY <2>2, <2>10 DEF Decide
  <2>11. CASE Forward \/ LinkLost
    BY <2>2, <2>11 DEF Forward, LinkLost
  <2>12. CASE Receive
    <3>1. ~Counts(r, Head(wire).sig)
      BY <1>1 DEF Counts
    <3>2. r \in open'
      BY <2>12, <3>1 DEF Receive
    <3> QED BY <2>2, <3>2
  <2> HIDE DEF Stands
  <2> QED BY <1>1, <2>3, <2>4, <2>5, <2>6, <2>7, <2>8, <2>9, <2>10, <2>11, <2>12 DEF Next
<1>2. VotesInv /\ [Next]_vars =>
        [\A r \in open : r.outcome # "none" =>
           boot' # boot \/ \E q \in open' \cup closed' : q.id = r.id /\ q.outcome = r.outcome]_vars
  BY <1>1
<1> QED BY <1>2, VotesInit, VotesStep, PTL DEF Spec, DecisionsStand
=============================================================================
