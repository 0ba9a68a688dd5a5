---------------------------- MODULE VirtioConsole ----------------------------
(* The virtio-console driver under the link: probing the device, the         *)
(* transmit ring with its one buffer and bounded wait, and the receive ring  *)
(* with its posted buffers.  The device and the host behind it are external: *)
(* they follow the virtio rules (so the check of a used entry's buffer number *)
(* always passes), at their own pace, and may stall.                        *)
(*                                                                           *)
(* A frame fits one buffer, so one frame is one transmit; frames and host    *)
(* chunks are numbered in the order in which they are given to the driver.   *)
EXTENDS VirtioPci, Sequences, FiniteSets, SequencesExt

CONSTANTS
    QSize,       \* ring entries (8)
    RxBufs,      \* receive buffers posted (4)
    Wrap,        \* ring indices are modulo this (2^16)
    MaxFrames,   \* bound: frames written
    MaxChunks,   \* bound: chunks the host sends
    MaxTimeouts  \* bound: transmit waits that run out

ASSUME ConsoleAssumption ==
    /\ QSize \in Nat \ {0} /\ RxBufs \in 1..QSize
    /\ \E k \in 1..Wrap : Wrap = k * QSize /\ k > 1

VARIABLES
    cdev,      \* the driver: probe outcome, status register, buffers posted
    tx,        \* transmit ring: available index, last used seen, buffer, frame being sent
    txdev,     \* the device's side of it: entries taken (its used index)
    txlog,     \* history: frames the host has read, frames reported sent, timeouts
    rx,        \* receive ring: available and used entries with their indices, buffers
    rxlog,     \* history: chunks sent by the host, chunks handed to the link
    cpci       \* the device on the bus

cvars == <<cdev, tx, txdev, txlog, rx, rxlog, cpci>>

Torn == 0
\* Ring indices wrap.
Next_(i) == (i + 1) % Wrap

-----------------------------------------------------------------------------
(* Probing. *)

ProbeConsole(d) ==
    IF ~d.present \/ ~DiscoverModern(d) \/ ~CapMmio(d, d.caps) THEN Failed(0)
    ELSE Negotiate(d, QSize)

AvailPush(ring, id) ==
    [ring EXCEPT !.avail[ring.availIdx % QSize] = id, !.availIdx = Next_(@)]

Posted(ring) ==
    LET post(r, i) == AvailPush(r, i - 1)
    IN FoldLeft(post, ring, [i \in 1..RxBufs |-> i])

InitConsole ==
    /\ cdev.st = "off"
    /\ cdev' = ProbeConsole(cpci)
    /\ rx' = IF ProbeConsole(cpci).st = "ready" THEN Posted(rx) ELSE rx
    /\ UNCHANGED <<tx, txdev, txlog, rxlog, cpci>>

-----------------------------------------------------------------------------
(* Transmit, under the DEVICE lock from WriteAll to its return. *)

Ready == cdev.st = "ready"
Written == tx.next - 1

\* The frame is being copied into the transmit buffer.
WriteAll ==
    /\ Ready /\ tx.frame = 0 /\ tx.next <= MaxFrames
    /\ tx' = [tx EXCEPT !.frame = tx.next, !.next = @ + 1, !.buf = Torn, !.pc = "copy"]
    /\ UNCHANGED <<cdev, txdev, txlog, rx, rxlog, cpci>>

TransmitPost ==
    /\ tx.pc = "copy"
    /\ tx' = [tx EXCEPT !.buf = tx.frame, !.avail = Next_(@), !.pc = "wait"]
    /\ UNCHANGED <<cdev, txdev, txlog, rx, rxlog, cpci>>

\* Any used entry not seen yet ends the wait.
TransmitDone ==
    /\ tx.pc = "wait" /\ txdev.used # tx.last
    /\ tx' = [tx EXCEPT !.last = txdev.used, !.frame = 0, !.pc = "idle"]
    /\ txlog' = [txlog EXCEPT !.ok = Append(@, tx.frame)]
    /\ UNCHANGED <<cdev, txdev, rx, rxlog, cpci>>

\* Two giga-cycles without a used entry: the frame stays in the ring.
TransmitTimeout ==
    /\ tx.pc = "wait" /\ txdev.used = tx.last
    /\ txlog.timeouts < MaxTimeouts
    /\ tx' = [tx EXCEPT !.frame = 0, !.pc = "idle"]
    /\ txlog' = [txlog EXCEPT !.timeouts = @ + 1]
    /\ UNCHANGED <<cdev, txdev, rx, rxlog, cpci>>

\* The device reads the transmit buffer as it is at that moment.
DeviceTransmit ==
    /\ txdev.used # tx.avail
    /\ txdev' = [txdev EXCEPT !.used = Next_(@)]
    /\ txlog' = [txlog EXCEPT !.wire = Append(@, tx.buf)]
    /\ UNCHANGED <<cdev, tx, rx, rxlog, cpci>>

-----------------------------------------------------------------------------
(* Receive. *)

HostWrites ==
    /\ Ready /\ rxlog.sent < MaxChunks
    /\ rxlog' = [rxlog EXCEPT !.sent = @ + 1]
    /\ UNCHANGED <<cdev, tx, txdev, txlog, rx, cpci>>

\* The next chunk of the host goes into the next buffer offered.
DeviceReceive ==
    /\ rx.seen # rx.availIdx /\ rx.filled < rxlog.sent
    /\ LET id == rx.avail[rx.seen % QSize]
       IN rx' = [rx EXCEPT !.bufs[id] = rx.filled + 1, !.used[rx.usedIdx % QSize] = id,
                           !.usedIdx = Next_(@), !.seen = Next_(@), !.filled = @ + 1]
    /\ UNCHANGED <<cdev, tx, txdev, txlog, rxlog, cpci>>

\* One turn of the receive loop: hand the bytes over, then offer the buffer again.
Receive ==
    /\ rx.usedIdx # rx.last
    /\ LET id == rx.used[rx.last % QSize]
       IN /\ rx' = [AvailPush(rx, id) EXCEPT !.last = Next_(@)]
          /\ rxlog' = [rxlog EXCEPT !.got = Append(@, rx.bufs[id])]
    /\ UNCHANGED <<cdev, tx, txdev, txlog, cpci>>

-----------------------------------------------------------------------------
ConsoleInit ==
    /\ cdev = [st |-> "off", status |-> 0]
    /\ tx = [avail |-> 0, last |-> 0, buf |-> Torn, frame |-> 0, next |-> 1, pc |-> "idle"]
    /\ txdev = [used |-> 0]
    /\ txlog = [wire |-> <<>>, ok |-> <<>>, timeouts |-> 0]
    /\ rx = [avail |-> [s \in 0..QSize-1 |-> 0], availIdx |-> 0, seen |-> 0,
             used |-> [s \in 0..QSize-1 |-> 0], usedIdx |-> 0, last |-> 0,
             bufs |-> [b \in 0..RxBufs-1 |-> 0], filled |-> 0]
    /\ rxlog = [sent |-> 0, got |-> <<>>]

ConsoleNext ==
    \/ InitConsole \/ WriteAll \/ TransmitPost \/ TransmitDone \/ TransmitTimeout
    \/ DeviceTransmit \/ HostWrites \/ DeviceReceive \/ Receive

-----------------------------------------------------------------------------
\* Every variable holds a value of its kind.
ConsoleTypeOK ==
    /\ cdev.st \in {"off", "absent", "ready"}
    /\ {tx.avail, tx.last, txdev.used, rx.availIdx, rx.seen, rx.usedIdx, rx.last} \subseteq 0..Wrap-1
    /\ tx.buf \in 0..MaxFrames /\ tx.pc \in {"idle", "copy", "wait"}

\* What the link reads is what the host wrote, in order, without loss or
\* repetition, however the ring indices wrap and whenever the driver polls
\* (hw::receive).
ConsoleReceivesInOrder == rxlog.got = [i \in 1..Len(rxlog.got) |-> i]

\* Until a wait has run out, every frame reported as sent has been read by the
\* host, once (write_all "blocks until the device consumed each chunk").
ConsoleSentWasRead ==
    txlog.timeouts = 0 => IsPrefix(txlog.ok, txlog.wire) /\ Len(txlog.wire) <= Written
=============================================================================
