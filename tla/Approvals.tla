------------------------------- MODULE Approvals -------------------------------
(***************************************************************************)
(* Signed approvals: requests (src/approvals.rs), the operators and the    *)
(* gateway's spool that carry them, and the reassembly of signatures       *)
(* (link/src/approval.rs, Assembler).                                      *)
(*                                                                          *)
(* A signature is a record: who signed what.  Operators sign any request    *)
(* that was ever in the spool, as often as they like and at any later time; *)
(* the gateway forwards what it finds, loses what it holds when it dies,    *)
(* and a reboot of CDK starts request ids from 1 again.                     *)
(***************************************************************************)
EXTENDS Integers, Sequences, FiniteSets

CONSTANTS
    Pinned,         \* keys in OPERATORS
    Strangers,      \* keys that are not pinned
    Quorums,        \* quorum values policy rules ask for
    Parts,          \* DecisionParts a signature travels in (4 in the code)
    MaxRequests,    \* bound: requests per boot
    MaxSignatures,  \* bound: signatures made
    MaxBoots        \* bound: boots of CDK

ASSUME ApprovalsAssumption ==
    /\ Pinned \cap Strangers = {}
    /\ Quorums \subseteq Nat
    /\ Parts \in Nat \ {0}
    /\ MaxRequests \in Nat /\ MaxSignatures \in Nat /\ MaxBoots \in Nat

Signers == Pinned \cup Strangers
Outcomes == {"none", "approved", "denied", "timedout"}

VARIABLES
    boot, nextId,
    sending,    \* requests sent to the gateway and not yet in OPEN
    open,       \* OPEN
    closed,     \* requests decided and closed in this boot
    shown,      \* requests operators have seen
    signed,     \* signatures made so far
    files,      \* decisions/*.dec in the spool
    wire,       \* DecisionParts on the sealed channel
    assembler   \* ASSEMBLER: its key and the parts in its buffer

vars == <<boot, nextId, sending, open, closed, shown, signed, files, wire, assembler>>

NoKey == <<>>
Empty == [key |-> NoKey, buf |-> <<>>]
Key(s) == <<s.id, s.op, s.approve>>

Init ==
    /\ boot = 1 /\ nextId = 1
    /\ sending = {} /\ open = {} /\ closed = {}
    /\ shown = {} /\ signed = {} /\ files = {}
    /\ wire = <<>> /\ assembler = Empty

-----------------------------------------------------------------------------
(* CDK: opening, expiring and closing requests. *)

\* quorum.max(1)
Quorum(q) == IF q < 1 THEN 1 ELSE q

\* open, up to send_data: an id is used up even when sending fails.
SendRequest(q) ==
    /\ nextId <= MaxRequests
    /\ nextId' = nextId + 1
    /\ \/ /\ sending' = sending \cup {[id |-> nextId, quorum |-> Quorum(q)]}
          /\ shown' = shown \cup {[boot |-> boot, id |-> nextId]}
       \/ UNCHANGED <<sending, shown>>
    /\ UNCHANGED <<boot, open, closed, signed, files, wire, assembler>>

\* open, OPEN.push: on an application processor a decision may come first.
RecordRequest ==
    /\ \E r \in sending :
         /\ sending' = sending \ {r}
         /\ open' = open \cup {[id |-> r.id, quorum |-> r.quorum, approvals |-> <<>>,
                                late |-> FALSE, outcome |-> "none"]}
    /\ UNCHANGED <<boot, nextId, closed, shown, signed, files, wire, assembler>>

DeadlinePasses(r) ==
    /\ ~r.late
    /\ open' = (open \ {r}) \cup {[r EXCEPT !.late = TRUE]}
    /\ UNCHANGED <<boot, nextId, sending, closed, shown, signed, files, wire, assembler>>

CheckTimeouts ==
    /\ \E r \in open : r.late /\ r.outcome = "none"
    /\ open' = {IF r.late /\ r.outcome = "none" THEN [r EXCEPT !.outcome = "timedout"] ELSE r
                : r \in open}
    /\ UNCHANGED <<boot, nextId, sending, closed, shown, signed, files, wire, assembler>>

\* close, called for a request whose outcome is known (resolve_signed, wait).
Close(r) ==
    /\ r.outcome # "none"
    /\ open' = open \ {r}
    /\ closed' = closed \cup {r}
    /\ UNCHANGED <<boot, nextId, sending, shown, signed, files, wire, assembler>>

\* Everything in CDK's memory is gone; sealed frames of the old session too.
Reboot ==
    /\ boot < MaxBoots
    /\ boot' = boot + 1 /\ nextId' = 1
    /\ sending' = {} /\ open' = {} /\ closed' = {}
    /\ wire' = <<>> /\ assembler' = Empty
    /\ UNCHANGED <<shown, signed, files>>

-----------------------------------------------------------------------------
(* Operators and the gateway. *)

\* cdk-approve: one file per request id and operator, the last one wins.
Decide(op, r, approve) ==
    /\ Cardinality(signed) < MaxSignatures
    /\ LET s == [boot |-> r.boot, id |-> r.id, op |-> op, approve |-> approve,
                 serial |-> Cardinality(signed)]
       IN  /\ signed' = signed \cup {s}
           /\ files' = {f \in files : f.id # s.id \/ f.op # s.op} \cup {s}
    /\ UNCHANGED <<boot, nextId, sending, open, closed, shown, wire, assembler>>

\* take_decisions and the parts of each decision, sealed one after the other.
Forward ==
    /\ \E s \in files :
         /\ files' = files \ {s}
         /\ wire' = wire \o [k \in 1 .. Parts |-> [sig |-> s, part |-> k]]
    /\ UNCHANGED <<boot, nextId, sending, open, closed, shown, signed, assembler>>

\* The gateway dies or the session is dropped: decisions already moved to
\* sent/ and parts not yet received are lost; CDK's assembler keeps its buffer.
LinkLost ==
    /\ wire' = <<>>
    /\ files' \in SUBSET files
    /\ <<wire', files'>> # <<wire, files>>
    /\ UNCHANGED <<boot, nextId, sending, open, closed, shown, signed, assembler>>

-----------------------------------------------------------------------------
(* on_message. *)

\* Assembler::push: the buffer and key after a part, before completion.
Push(a, m) ==
    IF m.part = 1 \/ a.key # Key(m.sig) \/ Len(a.buf) # m.part - 1
    THEN [key |-> Key(m.sig), buf |-> IF m.part = 1 THEN <<m>> ELSE <<>>]
    ELSE [key |-> a.key, buf |-> Append(a.buf, m)]

Complete(a) == Len(a.buf) = Parts

\* hybrid::verify of the assembled bytes against the statement of request id
\* of this boot: only the parts of one signature, in order, verify.
Verifies(buf) ==
    \A k \in 1 .. Len(buf) : buf[k].part = k /\ buf[k].sig = buf[1].sig /\ buf[k].sig.boot = boot

\* Mutant: an operator may vote again.
Counts_Duplicates(r, s) == r.id = s.id /\ r.outcome = "none"

\* Mutant: a decided request still takes votes.
Counts_Decided(r, s) == r.id = s.id /\ s.op \notin {r.approvals[k] : k \in 1 .. Len(r.approvals)}

\* The vote s counts for request r: r is open and undecided, and s.op has not
\* approved it already.
Counts(r, s) ==
    /\ r.id = s.id /\ r.outcome = "none"
    /\ s.op \notin {r.approvals[k] : k \in 1 .. Len(r.approvals)}

Voted(r, s) ==
    IF ~s.approve THEN [r EXCEPT !.outcome = "denied"]
    ELSE [r EXCEPT !.approvals = Append(@, s.op),
                   !.outcome = IF Len(r.approvals) + 1 >= r.quorum THEN "approved" ELSE @]

Receive ==
    /\ wire # <<>>
    /\ wire' = Tail(wire)
    /\ LET a == Push(assembler, Head(wire))
           s == Head(wire).sig
       IN  IF Complete(a)
           THEN /\ assembler' = Empty
                /\ open' = {IF s.op \in Pinned /\ Verifies(a.buf) /\ Counts(r, s)
                            THEN Voted(r, s) ELSE r : r \in open}
           ELSE assembler' = a /\ UNCHANGED open
    /\ UNCHANGED <<boot, nextId, sending, closed, shown, signed, files>>

-----------------------------------------------------------------------------

Next ==
    \/ \E q \in Quorums : SendRequest(q)
    \/ RecordRequest
    \/ \E r \in open : DeadlinePasses(r)
    \/ CheckTimeouts
    \/ \E r \in open : Close(r)
    \/ Reboot
    \/ \E op \in Signers, r \in shown, approve \in BOOLEAN : Decide(op, r, approve)
    \/ Forward
    \/ LinkLost
    \/ Receive

Spec == Init /\ [][Next]_vars

-----------------------------------------------------------------------------
(* Properties. *)

Signature == [boot : Nat, id : Nat, op : Signers, approve : BOOLEAN, serial : Nat]
Part == [sig : Signature, part : 1 .. Parts]
Opened == [id : Nat, quorum : Nat \ {0}, approvals : Seq(Signers), late : BOOLEAN,
           outcome : Outcomes]

\* Every variable is well formed; a quorum is at least 1 (approvals.rs:184).
TypeOK ==
    /\ boot \in Nat /\ nextId \in Nat
    /\ sending \subseteq [id : Nat, quorum : Nat \ {0}]
    /\ open \subseteq Opened /\ closed \subseteq Opened
    /\ shown \subseteq [boot : Nat, id : Nat]
    /\ signed \subseteq Signature /\ files \subseteq signed
    /\ wire \in Seq(Part)
    /\ assembler.buf \in Seq(Part)

\* A request is approved only when `quorum` different pinned operators each
\* signed an approval of that very request of this boot, whatever is repeated,
\* cut off, late or left over from an earlier boot (approvals.rs:7-16).
ApprovedByQuorum ==
    \A r \in open \cup closed :
        /\ \A j, k \in 1 .. Len(r.approvals) : r.approvals[j] = r.approvals[k] => j = k
        /\ \A k \in 1 .. Len(r.approvals) :
             /\ r.approvals[k] \in Pinned
             /\ \E s \in signed : /\ s.boot = boot /\ s.id = r.id
                                  /\ s.op = r.approvals[k] /\ s.approve
        /\ (r.outcome = "approved") = (Len(r.approvals) >= r.quorum)

\* What the assembler puts together with the next part, and hands on when it is
\* complete, is always the first parts of one signature: "a gap or a change of
\* decision restarts the signature" (approval.rs:238), also when the link is cut
\* in the middle of one and the same operator decides again.
OneSignature ==
    wire # <<>> =>
        LET buf == Push(assembler, Head(wire)).buf
        IN  \A k \in 1 .. Len(buf) : buf[k] = [sig |-> buf[1].sig, part |-> k]

\* Votes count as they were cast: the assembler never mixes two signatures, and
\* only a quorum of different pinned operators approves.
VotesCount == TypeOK /\ OneSignature /\ ApprovedByQuorum

\* A decision stands: no later vote or time-out changes it (approvals.rs:268).
DecisionsStand ==
    [][\A r \in open : r.outcome # "none" =>
         boot' # boot \/ \E q \in open' \cup closed' : q.id = r.id /\ q.outcome = r.outcome]_vars

\* "any valid denial vetoes" (approvals.rs:10-11): a pinned operator's denial
\* that verifies and is received while the request is undecided denies it.
DenialVetoes ==
    [][\A r \in open :
         (/\ r.outcome = "none" /\ wire # <<>> /\ wire' = Tail(wire) /\ boot' = boot
          /\ Head(wire).sig.op \in Pinned /\ ~Head(wire).sig.approve
          /\ Head(wire).sig.id = r.id
          /\ LET a == Push(assembler, Head(wire)) IN Complete(a) /\ Verifies(a.buf))
         => [r EXCEPT !.outcome = "denied"] \in open']_vars
=============================================================================
