-------------------------------- MODULE Vsock --------------------------------
(* The virtio-vsock endpoint that carries the link where there is no console: *)
(* one listening port, one gateway at a time, credit in both directions,      *)
(* answers to control packets while the console is idle, and the transport    *)
(* reset.  The host's sockets (its kernel's vsock and the gateway that uses   *)
(* them) are external: they keep to the credit they were given, close,        *)
(* reconnect and stall at any time.                                           *)
(*                                                                            *)
(* Counters are modulo Wrap as the code's are modulo 2^32.  Stream bytes are  *)
(* known by the connection they were sent on and their place in it.           *)
EXTENDS VirtioPci, Sequences, FiniteSets, SequencesExt

CONSTANTS
    HostPorts,   \* ports the gateway's sockets have
    BufAlloc,    \* BUF_ALLOC (64 KiB), in units of a byte
    HostAlloc,   \* the room a host socket advertises
    MaxTx,       \* MAX_TX_PAYLOAD
    Word,        \* counters are modulo this (2^32)
    QueueLen,    \* bound: packets waiting for the guest
    MaxLeft      \* bound: packets left in the transmit ring by a stalled device

ASSUME VsockAssumption ==
    /\ HostPorts \subseteq Nat \ {0}
    /\ BufAlloc \in 2..(Word - 1) /\ HostAlloc \in 1..(Word - 1)

VARIABLES
    ep,        \* Endpoint: peer, its credit, bytes sent and forwarded, last report
    pending,   \* Device.pending: stream bytes the link has not taken
    inbox,     \* packets of the host the guest has not processed
    evt,       \* a transport reset waits in the event queue
    host,      \* the host's sockets
    txq,       \* transmit ring: whether the device is stalled, entries it left, the
               \* one buffer, used entries not seen, history: some wait ran out
    writer,    \* write_all: bytes left, whether credit was asked for
    events,    \* bound: resets and stalls so far
    plan,      \* bounds: connections, resets and stalls, lengths of the link's
               \* writes and of the host's sends
    link,      \* history: what the link has read: connection, next place, and
               \* whether a byte was missed, repeated or late
    lostUpdate \* history: a report of credit could not be sent on this connection

vvars == <<ep, pending, inbox, evt, host, txq, writer, events, plan, link, lostUpdate>>

NoPeer == 0
Less(a, b) == (a - b + Word) % Word
Plus(a, b) == (a + b) % Word
Monus(a, b) == IF a > b THEN a - b ELSE 0
Smallest(S) == CHOOSE x \in S : \A y \in S : x <= y

\* `to`: the link's port, another port of the guest, or not for this guest at all.
Packet(op, port) ==
    [op |-> op, port |-> port, to |-> "link", len |-> 0, at |-> <<0, 0>>, alloc |-> HostAlloc, fwd |-> 0]

\* The state a packet passes through, as one record.
State == [ep |-> ep, pending |-> pending, inbox |-> inbox, host |-> host, txq |-> txq,
          lost |-> lostUpdate]

\* The context id comes from the device's own window, which must be there.
ProbeVsock(d, qsize) ==
    IF ~d.present \/ ~DiscoverModern(d) \/ "device" \notin d.caps \/ ~CapMmio(d, d.caps) THEN Failed(0)
    ELSE Negotiate(d, qsize)

-----------------------------------------------------------------------------
(* The host's sockets. *)

HostCredit(h) == Monus(BufAlloc, Less(h.tx, h.fwd))
FromHost(s, p) == [s EXCEPT !.inbox = Append(@, [p EXCEPT !.fwd = s.host[p.port].taken])]

\* What the host's stack does with a packet of the guest; one to a socket that is
\* not the gateway's (NoPeer) is not its concern.
HostPacket(s, p) ==
    LET h == s.host[p.port]
        open == [s EXCEPT !.host[p.port].fwd = p.fwd]
    IN CASE p.port = NoPeer -> s
         [] p.op = "RST" /\ p.port # NoPeer -> [s EXCEPT !.host[p.port].st = "closed"]
         [] p.op = "RESPONSE" /\ p.port # NoPeer /\ h.st = "connecting" -> [open EXCEPT !.host[p.port].st = "open"]
         [] p.op # "RST" /\ p.port # NoPeer /\ h.st # "open" /\ ~(p.op = "RESPONSE" /\ h.st = "connecting") ->
                FromHost(s, Packet("RST", p.port))
         [] p.op = "RW" /\ p.port # NoPeer /\ h.st = "open" -> [open EXCEPT !.host[p.port].held = @ + p.len]
         [] p.op = "CREDIT_REQUEST" /\ p.port # NoPeer /\ h.st = "open" -> FromHost(open, Packet("CREDIT_UPDATE", p.port))
         [] OTHER -> open

-----------------------------------------------------------------------------
(* The endpoint. *)

To(e, port, op, n) == [op |-> op, port |-> port, len |-> n, fwd |-> e.fwd]

\* One packet into the transmit ring.  A stalled device leaves it there, in the
\* one buffer; the wait then runs out, unless entries used since an earlier
\* timeout are taken for this one.
Transmit(s, p) ==
    IF s.txq.stalled
    THEN [s EXCEPT !.txq = [stalled |-> TRUE, left |-> @.left + 1, buf |-> p, unseen |-> FALSE, late |-> TRUE]]
    ELSE [HostPacket(s, p) EXCEPT !.txq.unseen = FALSE]
TransmitOk(s) == ~s.txq.stalled \/ s.txq.unseen

Credit(e) == Monus(e.palloc, Less(e.tx, e.pfwd))
CreditUpdate(s) ==
    Transmit([s EXCEPT !.ep.reported = s.ep.fwd, !.lost = @ \/ s.txq.stalled],
             To(s.ep, s.ep.peer, "CREDIT_UPDATE", 0))
\* Mutant: room is reported only when more than the whole buffer was taken.
LateUpdateDue(e) == e.peer # NoPeer /\ Less(e.fwd, e.reported) > BufAlloc
CreditUpdateDue(e) == e.peer # NoPeer /\ Less(e.fwd, e.reported) >= BufAlloc \div 2

\* A gateway connects: it replaces the one before, whose bytes are void.
OnRequest(s, p) ==
    LET old == s.ep.peer
        reset == IF old = NoPeer THEN s ELSE Transmit(s, To(s.ep, old, "RST", 0))
        fresh == [peer |-> p.port, palloc |-> p.alloc, pfwd |-> p.fwd, tx |-> 0, fwd |-> 0, reported |-> 0]
    IN Transmit([reset EXCEPT !.ep = fresh, !.lost = FALSE,
                              !.pending = IF old = p.port THEN @ ELSE <<>>],
                To(fresh, p.port, "RESPONSE", 0))

Held(q) == FoldLeft(LAMBDA n, c : n + c.len, 0, q)

\* Bytes beyond the room advertised are dropped.
Deliver(s, p) ==
    IF Held(s.pending) + p.len <= BufAlloc
    THEN [s EXCEPT !.pending = Append(@, [len |-> p.len, at |-> p.at])] ELSE s

\* What is not for this guest is dropped, what is for another port is reset, and
\* so is a peer that sends what a listening endpoint cannot expect.
OnPacket(s, p) ==
    LET ours == p.to = "link" /\ s.ep.peer = p.port
        known == [s EXCEPT !.ep.palloc = p.alloc, !.ep.pfwd = p.fwd]
        closed == [known EXCEPT !.ep.peer = NoPeer]
    IN CASE p.to = "elsewhere" -> s
         [] p.to # "elsewhere" /\ p.op = "RST" -> IF s.ep.peer = p.port THEN [s EXCEPT !.ep.peer = NoPeer] ELSE s
         [] p.to = "link" /\ p.op = "REQUEST" -> OnRequest(s, p)
         [] p.to # "elsewhere" /\ p.op # "RST" /\ ~(p.to = "link" /\ p.op = "REQUEST") /\ ~ours ->
                Transmit(s, To(s.ep, p.port, "RST", 0))
         [] ours /\ p.op = "RW" -> Deliver(known, p)
         [] ours /\ p.op = "CREDIT_REQUEST" -> CreditUpdate(known)
         [] ours /\ p.op = "CREDIT_UPDATE" -> known
         [] ours /\ p.op \in {"SHUTDOWN", "RESPONSE"} -> Transmit(closed, To(s.ep, p.port, "RST", 0))

\* The event queue first, then every packet that waits.
ReceiveAll(s) ==
    FoldLeft(OnPacket, [s EXCEPT !.inbox = <<>>, !.ep.peer = IF evt THEN NoPeer ELSE @], s.inbox)

Becomes(s) ==
    /\ ep' = s.ep /\ pending' = s.pending /\ inbox' = s.inbox /\ host' = s.host
    /\ lostUpdate' = s.lost /\ txq' = s.txq

LockFree == writer.left = 0

\* Called while the console waits for input; skipped when the lock is taken.
Service ==
    /\ LockFree /\ (evt \/ inbox # <<>>)
    /\ Becomes(ReceiveAll(State))
    /\ evt' = FALSE
    /\ UNCHANGED <<writer, events, plan, link>>

\* The link decoder takes the bytes in the order of `pending`.
Take(l, c) ==
    [conn |-> c.at[1], next |-> Plus(c.at[2], c.len),
     broken |-> l.broken \/ ~(IF c.at[1] = l.conn THEN c.at[2] = l.next ELSE c.at[1] > l.conn /\ c.at[2] = 0)]

Poll ==
    /\ LockFree
    /\ LET s == ReceiveAll(State)
           took == [s EXCEPT !.pending = <<>>, !.ep.fwd = Plus(@, Held(s.pending))]
       IN /\ evt \/ inbox # <<>> \/ s.pending # <<>>
          /\ Becomes(IF CreditUpdateDue(took.ep) THEN CreditUpdate(took) ELSE took)
          /\ link' = FoldLeft(Take, link, s.pending)
    /\ evt' = FALSE
    /\ UNCHANGED <<writer, events, plan>>

\* write_all: a connection request that waits is taken first.
StartWrite ==
    /\ LockFree /\ plan.writes # {} /\ txq.left < MaxLeft
    /\ LET s == IF ep.peer = NoPeer THEN ReceiveAll(State) ELSE State
       IN /\ Becomes(s)
          /\ evt' = IF ep.peer = NoPeer THEN FALSE ELSE evt
          /\ writer' \in IF s.ep.peer = NoPeer THEN {writer}
                         ELSE [left : plan.writes, asked : {FALSE}]
    /\ UNCHANGED <<events, plan, link>>

\* As much as fits the peer's room; a transmit that times out ends the write.
WriteChunk ==
    /\ writer.left > 0 /\ Credit(ep) > 0
    /\ LET n == Smallest({writer.left, MaxTx, Credit(ep)})
           sent == [State EXCEPT !.ep.tx = Plus(@, n), !.ep.reported = ep.fwd, !.lost = @ \/ txq.stalled]
       IN /\ ep.peer # NoPeer
          /\ Becomes(Transmit(sent, To(ep, ep.peer, "RW", n)))
          /\ writer' = IF ~TransmitOk(State) THEN [left |-> 0, asked |-> FALSE]
                       ELSE [left |-> writer.left - n, asked |-> FALSE]
    /\ UNCHANGED <<evt, events, plan, link>>

\* No room: ask once, then take what arrives, which may be another gateway.
WriteWaits ==
    /\ writer.left > 0 /\ Credit(ep) = 0
    /\ LET ask == ~writer.asked /\ ep.peer # NoPeer
           asked == IF ask THEN Transmit(State, To(ep, ep.peer, "CREDIT_REQUEST", 0)) ELSE State
           s == ReceiveAll(asked)
           fails == ask /\ ~TransmitOk(State)
       IN /\ Becomes(IF fails THEN asked ELSE s)
          /\ evt' = IF fails THEN evt ELSE FALSE
          /\ writer' = IF fails \/ s.ep.peer = NoPeer THEN [left |-> 0, asked |-> FALSE]
                       ELSE [writer EXCEPT !.asked = TRUE]
    /\ UNCHANGED <<events, plan, link>>

\* Two seconds without room.
WriteTimesOut ==
    /\ writer.left > 0 /\ Credit(ep) = 0
    /\ writer' = [left |-> 0, asked |-> FALSE]
    /\ UNCHANGED <<ep, pending, inbox, evt, host, txq, events, plan, link, lostUpdate>>

-----------------------------------------------------------------------------
(* The host. *)

Conns == FoldFunction(LAMBDA h, n : IF h.conn > n THEN h.conn ELSE n, 0, host)
Room == Len(inbox) < QueueLen
HostOnly == UNCHANGED <<ep, pending, evt, txq, writer, events, plan, link, lostUpdate>>

\* The gateway connects, again and again until it succeeds.
GatewayConnect(port) ==
    /\ host[port].st = "closed" /\ Conns < plan.conns /\ Room
    /\ host' = [host EXCEPT ![port] = [st |-> "connecting", conn |-> Conns + 1, tx |-> 0, fwd |-> 0, held |-> 0, taken |-> 0]]
    /\ inbox' = Append(inbox, Packet("REQUEST", port))
    /\ HostOnly

ConnectTimeout(port) ==
    /\ host[port].st = "connecting"
    /\ host' = [host EXCEPT ![port].st = "closed"]
    /\ UNCHANGED inbox /\ HostOnly

HostSend(port, n) ==
    /\ host[port].st = "open" /\ n <= HostCredit(host[port]) /\ Room
    /\ inbox' = Append(inbox, [Packet("RW", port) EXCEPT !.len = n, !.at = <<host[port].conn, host[port].tx>>,
                                                         !.fwd = host[port].taken])
    /\ host' = [host EXCEPT ![port].tx = Plus(@, n)]
    /\ HostOnly

\* The gateway reads what its socket holds; its stack reports the room.
HostRead(port) ==
    /\ host[port].st = "open" /\ host[port].held > 0 /\ Room
    /\ host' = [host EXCEPT ![port].held = 0, ![port].taken = Plus(@, host[port].held)]
    /\ inbox' = Append(inbox, [Packet("CREDIT_UPDATE", port) EXCEPT !.fwd = host'[port].taken])
    /\ HostOnly

HostAsksCredit(port) ==
    /\ host[port].st = "open" /\ HostCredit(host[port]) = 0 /\ Room /\ txq.left < MaxLeft
    /\ inbox' = Append(inbox, [Packet("CREDIT_REQUEST", port) EXCEPT !.fwd = host[port].taken])
    /\ UNCHANGED host /\ HostOnly

HostClose(port) ==
    /\ host[port].st = "open" /\ Room
    /\ host' = [host EXCEPT ![port].st = "closed"]
    /\ inbox' = Append(inbox, [Packet("SHUTDOWN", port) EXCEPT !.fwd = host[port].taken])
    /\ HostOnly

\* The gateway's socket answers a connection the guest never asked for.
HostResponds(port) ==
    /\ host[port].st = "open" /\ Room /\ events < plan.events /\ events' = events + 1
    /\ inbox' = Append(inbox, [Packet("RESPONSE", port) EXCEPT !.fwd = host[port].taken])
    /\ UNCHANGED <<ep, pending, evt, host, txq, writer, plan, link, lostUpdate>>

\* A socket that is not the gateway's sends to another port, or to another guest.
HostStrays(to) ==
    /\ Room /\ events < plan.events /\ events' = events + 1
    /\ inbox' = Append(inbox, [Packet("RW", NoPeer) EXCEPT !.to = to, !.len = 1])
    /\ UNCHANGED <<ep, pending, evt, host, txq, writer, plan, link, lostUpdate>>

\* The machine was moved: every connection is gone.
TransportReset ==
    /\ events < plan.events /\ events' = events + 1
    /\ evt' = TRUE /\ inbox' = <<>>
    /\ host' = [p \in HostPorts |-> [host[p] EXCEPT !.st = "closed"]]
    /\ UNCHANGED <<ep, pending, txq, writer, plan, link, lostUpdate>>

\* The device stops taking packets.
Stall ==
    /\ ~txq.stalled /\ events < plan.events
    /\ txq' = [txq EXCEPT !.stalled = TRUE] /\ events' = events + 1
    /\ UNCHANGED <<ep, pending, inbox, evt, host, writer, plan, link, lostUpdate>>

\* It goes on: every entry left refers to the one buffer, as it is now.
Resume ==
    /\ txq.stalled
    /\ LET on == [State EXCEPT !.txq.stalled = FALSE, !.txq.left = 0, !.txq.unseen = @ \/ txq.left > 0]
       IN Becomes(FoldLeft(HostPacket, on, [i \in 1..txq.left |-> txq.buf]))
    /\ UNCHANGED <<evt, writer, events, plan, link>>

-----------------------------------------------------------------------------
VsockInit ==
    /\ ep = [peer |-> NoPeer, palloc |-> 0, pfwd |-> 0, tx |-> 0, fwd |-> 0, reported |-> 0]
    /\ pending = <<>> /\ inbox = <<>> /\ evt = FALSE
    /\ host = [p \in HostPorts |-> [st |-> "closed", conn |-> 0, tx |-> 0, fwd |-> 0, held |-> 0, taken |-> 0]]
    /\ txq = [stalled |-> FALSE, left |-> 0, buf |-> Packet("RST", NoPeer), unseen |-> FALSE, late |-> FALSE]
    /\ writer = [left |-> 0, asked |-> FALSE]
    /\ events = 0 /\ link = [conn |-> 0, next |-> 0, broken |-> FALSE] /\ lostUpdate = FALSE

HostSide(port) ==
    \/ GatewayConnect(port) \/ ConnectTimeout(port) \/ HostRead(port) \/ HostAsksCredit(port) \/ HostClose(port)
    \/ HostResponds(port)
    \/ \E n \in plan.sends : HostSend(port, n)

VsockNext ==
    \/ Service \/ Poll \/ StartWrite \/ WriteChunk \/ WriteWaits \/ WriteTimesOut
    \/ TransportReset \/ Stall \/ Resume
    \/ \E to \in {"other port", "elsewhere"} : HostStrays(to)
    \/ \E port \in HostPorts : HostSide(port)

-----------------------------------------------------------------------------
\* Every variable holds a value of its kind; what waits for the link fits the
\* room the guest advertised.
VsockTypeOK ==
    /\ ep.peer \in HostPorts \cup {NoPeer} /\ Held(pending) <= BufAlloc
    /\ {ep.tx, ep.fwd, ep.pfwd, ep.reported} \subseteq 0..Word-1
    /\ writer.left \in {0} \cup UNION {1..n : n \in plan.writes}

\* The link reads the bytes of a connection in order and without a gap, and none
\* of an earlier connection after one of a later: flow control never makes the
\* guest drop bytes, and a new gateway voids what the old one sent
\* (Endpoint::on_packet, hw::receive, hw::poll).
VsockStreamIntact == ~link.broken

\* The guest never sends more than the host's socket has room for, across
\* reconnections, resets and counters that wrap, as long as no transmit has run
\* out: the entry it leaves is sent again with the next (Endpoint::credit, data).
VsockHostNotOverrun ==
    ~txq.late => \A p \in HostPorts : host[p].st = "open" => host[p].held <= HostAlloc

\* Once the link has taken everything, a connected gateway has room to send: the
\* reports of credit, which are sent only when half the buffer was taken, are
\* never too late, unless one could not be sent (Endpoint::credit_update_due).
VsockCreditReturns ==
    \A p \in HostPorts :
        host[p].st = "open" /\ ep.peer = p /\ inbox = <<>> /\ pending = <<>> /\ ~evt /\ ~lostUpdate
            => HostCredit(host[p]) > 0
=============================================================================
