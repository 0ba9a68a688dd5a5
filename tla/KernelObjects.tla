---------------------------- MODULE KernelObjects ----------------------------
(* The object table of the kernel with its mailboxes, the software network  *)
(* stack, and the bridge that moves payloads between the two.  Console      *)
(* commands and agent system calls are the actions: each runs under the     *)
(* kernel lock, so each is one step, and they interleave.                   *)
(*                                                                          *)
(* Of the counters only the losses are kept; the ones that count successes, *)
(* and the per-capability statistics, are only displayed.                   *)
(*                                                                          *)
(* Every accepted payload has a number, so that its whole way can be        *)
(* followed; the content only matters by its length class.                  *)
EXTENDS Integers, Sequences, FiniteSets, SequencesExt

CONSTANTS
    MaxObjects,     \* MAX_OBJECTS: rows of each kernel table (16)
    MaxMessages,    \* MAX_MESSAGES: room of a mailbox (8)
    MaxInterfaces,  \* MAX_INTERFACES (4)
    QueueDepth,     \* MAX_QUEUE_DEPTH: room of a transmit or receive queue (16)
    RingDepth,      \* RING_DEPTH: room of a virtio ring (8)
    ProbeEvery,     \* polls per synthetic probe of the virtio stub (4)
    Names,          \* names the operator gives objects, as kind or intent
    Ports,          \* interface names the operator uses
    NewPorts,       \* interface names the operator adds
    Targets,        \* objects the operator sends to, binds and deletes
    MaxIds,         \* bound: objects created
    MaxPayloads,    \* bound: payloads accepted
    MaxSettings     \* bound: objects, bindings and interfaces added or removed

ASSUME RoomAssumption ==
    \A n \in {MaxObjects, MaxMessages, MaxInterfaces, QueueDepth, RingDepth, ProbeEvery} : n \in Nat \ {0}

VARIABLES
    created,    \* COUNTER of KernelObject::generate_id
    objects,    \* Kernel.objects: id -> kind, intent, mailbox
    ifaces,     \* NetworkStack.interfaces, in order of registration
    ingress,    \* Kernel.bridge_ingress: <<interface, object>>, oldest first
    egress,     \* Kernel.bridge_egress: <<object, interface>>, oldest first
    telemetry,  \* Kernel.bridge_telemetry
    settings,   \* bound: commands that changed a table
    fate        \* history: what became of each accepted payload

objectVars == <<created, objects, ifaces, ingress, egress, telemetry, settings, fate>>

\* The object the network capability names: the third one made at boot.
NetObject == 3
Sizes == {"short", "long"}   \* at most 64 bytes; at most 256
Probe == [n |-> 0, size |-> "short"]
Fates == {"held", "read", "refused", "counted", "dropped", "overflowed", "deleted"}

Upto(n, cap) == IF n < cap THEN n ELSE cap
First(q, n) == SubSeq(q, 1, Upto(n, Len(q)))
Counted(n) == Upto(n, MaxPayloads)   \* a saturating counter

-----------------------------------------------------------------------------
(* The network stack. *)

Backends == {"loopback", "stub-tap", "virtio-net"}

NetworkInterface(name, kind) ==
    [name |-> name, kind |-> kind, tx |-> <<>>, rx |-> <<>>, polls |-> 0,
     rxDropped |-> 0]

FindIndex(name) == SelectInSeq(ifaces, LAMBDA i : i.name = name)

AddInterface(name, kind) ==
    /\ FindIndex(name) = 0
    /\ Len(ifaces) < MaxInterfaces
    /\ ifaces' = Append(ifaces, NetworkInterface(name, kind))

\* Loopback and the stub tap hand every transmitted packet to the receiver.
PollLoop(i) == [packets |-> i.tx, polls |-> i.polls]

\* Each packet is submitted and completed at once, so the transmit ring never
\* fills: the whole queue lands in the receive ring, which keeps what it has
\* room for.
SoftVirtqPair(packets) == First(packets, RingDepth)

\* The receive loop empties the ring; its first idle poll yields the synthetic
\* probe when the poll count is a multiple of ProbeEvery.
PollVirtio(i) ==
    LET ring == SoftVirtqPair(i.tx)
        idle == (i.polls + Len(ring) + 1) % ProbeEvery
        more == IF idle = 0 THEN <<Probe>> ELSE <<>>
    IN [packets |-> ring \o more, polls |-> (idle + Len(more)) % ProbeEvery]

Poll(i) == IF i.kind = "virtio-net" THEN PollVirtio(i) ELSE PollLoop(i)

\* What the receive queue has room for, of the packets a poll delivers.
Kept(i) == First(Poll(i).packets, QueueDepth - Len(i.rx))

\* A service that forgets the drops.
NoDropCount(i) == [i EXCEPT !.tx = <<>>, !.rx = @ \o Kept(i), !.polls = Poll(i).polls]

ServiceIo(i) ==
    [i EXCEPT !.tx = <<>>, !.rx = @ \o Kept(i), !.polls = Poll(i).polls,
              !.rxDropped = Counted(@ + Len(Poll(i).packets) - Len(Kept(i)))]

NetService(net) == [k \in DOMAIN net |-> ServiceIo(net[k])]

-----------------------------------------------------------------------------
(* Operations of the kernel on its whole state.  `told` is what the caller  *)
(* hears: "moved", "empty" or "error"; `took` is the payload taken off a    *)
(* queue on the way, or the probe when there was none.                      *)

Now == [objects |-> objects, ifaces |-> ifaces,
        told |-> "empty", took |-> Probe]

Failed(s) == [s EXCEPT !.told = "error"]

Room(s, id) == id \in DOMAIN s.objects /\ Len(s.objects[id].mail) < MaxMessages

SendMessage(s, id, p) ==
    IF Room(s, id)
    THEN [s EXCEPT !.objects[id].mail = Append(@, p), !.told = "moved"]
    ELSE Failed(s)

SendMessageDirect(s, id, p) == SendMessage(s, id, p)

ReceiveMessage(s, id) ==
    IF id \notin DOMAIN s.objects THEN Failed(s)
    ELSE IF s.objects[id].mail = <<>> THEN [s EXCEPT !.told = "empty"]
    ELSE [s EXCEPT !.took = Head(s.objects[id].mail),
                   !.objects[id].mail = Tail(@), !.told = "moved"]

NetworkSend(s, k, p) ==
    IF NetObject \notin DOMAIN s.objects \/ k = 0 THEN Failed(s)
    ELSE IF Len(s.ifaces[k].tx) = QueueDepth THEN Failed(s)
    ELSE [s EXCEPT !.ifaces[k].tx = Append(@, p), !.told = "moved"]

NetworkReceive(s, k) ==
    IF NetObject \notin DOMAIN s.objects \/ k = 0 THEN Failed(s)
    ELSE IF s.ifaces[k].rx = <<>> THEN [s EXCEPT !.told = "empty"]
    ELSE [s EXCEPT !.took = Head(s.ifaces[k].rx), !.ifaces[k].rx = Tail(@),
                   !.told = "moved"]

\* The packet is off the interface before the mailbox is known to have room.
BridgeNetworkToObject(s, k, id) ==
    LET r == NetworkReceive(s, k)
    IN IF r.told # "moved" THEN r
       ELSE IF r.took.size = "long" THEN Failed(r)
       ELSE SendMessage(r, id, r.took)

\* Request and Response payloads (UnsupportedPayload): nothing makes one yet.
Unsupported(p) == p.size = "request"

\* The message is out of the mailbox before the interface is known to have room.
BridgeObjectToNetwork(s, id, k) ==
    LET r == ReceiveMessage(s, id)
    IN IF r.told # "moved" THEN r
       ELSE IF Unsupported(r.took) THEN Failed(r)
       ELSE NetworkSend(r, k, r.took)

\* A payload lost with an error: told to the operator, or counted by the tick.
Settle(f, r, loss) ==
    IF r.told = "error" /\ r.took # Probe THEN [f EXCEPT ![r.took.n] = loss] ELSE f

\* What one service of the interfaces discards: what does not fit a receive
\* queue is counted there, what does not fit the virtio ring is not counted.
Discarded(net, f) ==
    LET In(n, q) == \E p \in ToSet(q) : p.n = n
    IN [n \in DOMAIN f |->
          IF \E k \in DOMAIN net : In(n, net[k].tx) /\ ~In(n, Poll(net[k]).packets)
          THEN "overflowed"
          ELSE IF \E k \in DOMAIN net : In(n, Poll(net[k]).packets) /\ ~In(n, Kept(net[k]))
          THEN "dropped" ELSE f[n]]

\* One binding of a tick: the move, the tick's own counts, the payload's fate.
Tally(acc, r, side) ==
    [s |-> [r EXCEPT !.took = Probe], f |-> Settle(acc.f, r, "counted"),
     t |-> [acc.t EXCEPT ![side] = IF r.told = "error" THEN Counted(@ + 1) ELSE @]]

Serviced(acc) ==
    [acc EXCEPT !.f = Discarded(acc.s.ifaces, @), !.s.ifaces = NetService(@)]

BridgeTick(acc) ==
    LET In(b, a) == Tally(a, BridgeNetworkToObject(a.s, FindIndex(b[1]), b[2]),
                          "ingress")
        Out(b, a) == Tally(a, BridgeObjectToNetwork(a.s, b[1], FindIndex(b[2])),
                           "egress")
    IN Serviced(FoldLeft(LAMBDA a, b : Out(b, a),
                         FoldLeft(LAMBDA a, b : In(b, a), Serviced(acc), ingress),
                         egress))

Becomes(s) == /\ objects' = s.objects /\ ifaces' = s.ifaces

-----------------------------------------------------------------------------
(* References: an id, else the one object of that kind, else of that intent. *)
(* A reference is <<"id", n>> or <<"name", text>>; no name looks like an id. *)

OfKind(name) == {i \in DOMAIN objects : objects[i].kind = name}
OfIntent(name) == {i \in DOMAIN objects : objects[i].intent = name}
Only(S) == IF Cardinality(S) = 1 THEN CHOOSE i \in S : TRUE ELSE 0

\* 0 stands for ObjectNotFound and ObjectAmbiguous alike.
ResolveObjectRef(ref) ==
    IF ref[1] = "id" THEN (IF ref[2] \in DOMAIN objects THEN ref[2] ELSE 0)
    ELSE IF OfKind(ref[2]) # {} THEN Only(OfKind(ref[2])) ELSE Only(OfIntent(ref[2]))

Refs == ({"id"} \X Targets) \cup ({"name"} \X (Names \cup {"boot"}))

-----------------------------------------------------------------------------
(* Console commands and system calls. *)

Setting == settings < MaxSettings /\ settings' = settings + 1

\* Insert a row unless the table is full; an existing row is replaced.
Insert(table, key, row) ==
    IF key \in DOMAIN table \/ Cardinality(DOMAIN table) < MaxObjects
    THEN [k \in DOMAIN table \cup {key} |-> IF k = key THEN row ELSE table[k]]
    ELSE table

DeleteById(id) ==
    /\ id \in DOMAIN objects
    /\ objects' = [k \in DOMAIN objects \ {id} |-> objects[k]]

\* A number from the size of the table instead of the counter.
ReusedId == Cardinality(DOMAIN objects) + 1

GenerateId == created + 1

KernelObject(kind, intent) == [kind |-> kind, intent |-> intent, mail |-> <<>>]

\* The capability is handed out even when the table has no room for the object.
RegisterObject(id, obj) == objects' = Insert(objects, id, obj)

CmdCreate(kind, intent) ==
    /\ Setting
    /\ created < MaxIds
    /\ created' = created + 1
    /\ RegisterObject(GenerateId, KernelObject(kind, intent))
    /\ UNCHANGED <<ifaces, ingress, egress, telemetry, fate>>

\* The bindings that name the object stay.
CmdDelete(id) ==
    /\ Setting
    /\ DeleteById(id)
    /\ LET mail == {p.n : p \in ToSet(objects[id].mail)}
       IN fate' = [n \in DOMAIN fate |-> IF n \in mail THEN "deleted" ELSE fate[n]]
    /\ UNCHANGED <<created, ifaces, ingress, egress, telemetry>>

\* A payload enters; the caller is told when it was not accepted.
Accept(s, p) ==
    /\ Becomes(s)
    /\ fate' = IF s.told = "moved" THEN Append(fate, "held") ELSE fate
    /\ UNCHANGED <<created, ingress, egress, telemetry, settings>>

Next1(size) == [n |-> Len(fate) + 1, size |-> size]

CmdSend(ref) ==
    /\ Len(fate) < MaxPayloads
    /\ Accept(SendMessageDirect(Now, ResolveObjectRef(ref), Next1("short")), Next1("short"))

CmdNetSend(port, size) ==
    /\ Len(fate) < MaxPayloads
    /\ Accept(NetworkSend(Now, FindIndex(port), Next1(size)), Next1(size))

\* A payload leaves to whoever asked for it.
Hand(r) ==
    /\ Becomes(r)
    /\ fate' = IF r.took # Probe THEN [fate EXCEPT ![r.took.n] = "read"] ELSE fate
    /\ UNCHANGED <<created, ingress, egress, telemetry, settings>>

CmdRecv(ref) == Hand(ReceiveMessage(Now, ResolveObjectRef(ref)))

CmdNetRecv(port) == Hand(NetworkReceive(Now, FindIndex(port)))

CmdNetToObj(port, id) ==
    LET r == BridgeNetworkToObject(Now, FindIndex(port), id)
    IN /\ Becomes(r)
       /\ fate' = Settle(fate, r, "refused")
       /\ UNCHANGED <<created, ingress, egress, telemetry, settings>>

CmdObjToNet(id, port) ==
    LET r == BridgeObjectToNetwork(Now, id, FindIndex(port))
    IN /\ Becomes(r)
       /\ fate' = Settle(fate, r, "refused")
       /\ UNCHANGED <<created, ingress, egress, telemetry, settings>>

\* netpump repeats this step.
CmdNetTick ==
    /\ NetObject \in DOMAIN objects
    /\ LET end == BridgeTick([s |-> Now, t |-> telemetry, f |-> fate])
       IN /\ Becomes(end.s)
          /\ telemetry' = end.t
          /\ fate' = end.f
    /\ UNCHANGED <<created, ingress, egress, settings>>

\* A binding replaces the one of the same key in place.
Bind(table, key, value) ==
    LET k == SelectInSeq(table, LAMBDA b : b[1] = key)
    IN IF k # 0 THEN [table EXCEPT ![k] = <<key, value>>]
       ELSE IF Len(table) < MaxObjects THEN Append(table, <<key, value>>) ELSE table

CmdNetbindIn(port, id) ==
    /\ Setting
    /\ id \in DOMAIN objects
    /\ ingress' = Bind(ingress, port, id)
    /\ UNCHANGED <<created, objects, ifaces, egress, telemetry, fate>>

CmdNetbindOut(id, port) ==
    /\ Setting
    /\ id \in DOMAIN objects
    /\ egress' = Bind(egress, id, port)
    /\ UNCHANGED <<created, objects, ifaces, ingress, telemetry, fate>>

CmdNetbindClear ==
    /\ Setting
    /\ ingress' = <<>> /\ egress' = <<>>
    /\ UNCHANGED <<created, objects, ifaces, telemetry, fate>>

CmdNetaddExt(port, backend) ==
    /\ Setting
    /\ AddInterface(port, backend)
    /\ UNCHANGED <<created, objects, ingress, egress, telemetry, fate>>

\* Two compute objects with memory, the network object, the loopback.
ObjectsInit ==
    /\ created = 3
    /\ objects = [i \in 1..3 |-> KernelObject(IF i = NetObject THEN "net0" ELSE "boot", "low")]
    /\ \E backend \in Backends \ {"loopback"} :
         ifaces = <<NetworkInterface("lo", "loopback"), NetworkInterface("eth0", backend)>>
    /\ ingress = <<>> /\ egress = <<>>
    /\ telemetry = [ingress |-> 0, egress |-> 0]
    /\ settings = 0 /\ fate = <<>>

ObjectsNext ==
    \/ \E kind \in Names, intent \in Names : CmdCreate(kind, intent)
    \/ \E id \in Targets : CmdDelete(id)
    \/ \E ref \in Refs : CmdSend(ref) \/ CmdRecv(ref)
    \/ \E port \in Ports, size \in Sizes : CmdNetSend(port, size)
    \/ \E port \in Ports : CmdNetRecv(port)
    \/ \E port \in Ports, id \in Targets :
         CmdNetToObj(port, id) \/ CmdObjToNet(id, port) \/ CmdNetbindIn(port, id)
           \/ CmdNetbindOut(id, port)
    \/ CmdNetTick
    \/ CmdNetbindClear
    \/ \E port \in NewPorts, backend \in Backends \ {"loopback"} : CmdNetaddExt(port, backend)

ObjectsSpec == ObjectsInit /\ [][ObjectsNext]_objectVars

-----------------------------------------------------------------------------
\* No table, mailbox, queue or ring ever holds more than its room, and ids are
\* those generate_id has given out (heapless::Vec capacities; object.rs).
ObjectsTypeOK ==
    /\ created \in 3..MaxIds
    /\ DOMAIN objects \subseteq 1..created /\ Cardinality(DOMAIN objects) <= MaxObjects
    /\ \A i \in DOMAIN objects : Len(objects[i].mail) <= MaxMessages
    /\ Len(ifaces) <= MaxInterfaces
    /\ \A k \in DOMAIN ifaces : /\ ifaces[k].kind \in Backends
                               /\ Len(ifaces[k].tx) <= QueueDepth
                               /\ Len(ifaces[k].rx) <= QueueDepth
    /\ fate \in Seq(Fates)

\* Where payload n is held: how many queue places and mailbox places have it.
Places(n) ==
    Cardinality({<<k, q>> \in (DOMAIN ifaces) \X (1..QueueDepth) :
                   q <= Len(ifaces[k].tx) /\ ifaces[k].tx[q].n = n})
    + Cardinality({<<k, q>> \in (DOMAIN ifaces) \X (1..QueueDepth) :
                   q <= Len(ifaces[k].rx) /\ ifaces[k].rx[q].n = n})
    + Cardinality({<<i, q>> \in (DOMAIN objects) \X (1..MaxMessages) :
                   q <= Len(objects[i].mail) /\ objects[i].mail[q].n = n})

\* Every accepted payload is in exactly one place until somebody reads it, an
\* operator is told it failed, a tick counts it as an error, a receive queue
\* counts it as dropped, its mailbox is deleted or the virtio ring overflows:
\* the bridge, which takes a payload before it knows where to put it, never
\* loses one in silence and never delivers one twice.
HeldOnce ==
    \A n \in DOMAIN fate : Places(n) = (IF fate[n] = "held" THEN 1 ELSE 0)

\* What a tick lost shows in the bridge telemetry.
TelemetryCovers ==
    Cardinality({n \in DOMAIN fate : fate[n] = "counted"})
      <= telemetry.ingress + telemetry.egress

\* What a receive queue had no room for shows in its interface's counter.
DropsCounted ==
    Cardinality({n \in DOMAIN fate : fate[n] = "dropped"})
      <= SumFunction([k \in DOMAIN ifaces |-> ifaces[k].rxDropped])

\* No payload is lost in silence: each is in one place or its end is on record,
\* what ticks and full queues lost shows in the counters the operator reads, and
\* no table or queue exceeds its room (kernel.rs run_network_tick, network.rs).
Accounted == ObjectsTypeOK /\ HeldOnce /\ TelemetryCovers /\ DropsCounted

\* A number that is not in the table now never names an object later, so a
\* binding left behind by a deleted object, which stays in the bridge's tables,
\* never delivers into an object made after it.
StaleStaysStale ==
    [][\A i \in 1..created : i \notin DOMAIN objects => i \notin DOMAIN objects']_objectVars
=============================================================================
