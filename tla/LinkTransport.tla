---------------------------- MODULE LinkTransport ----------------------------
(* The byte stream under the link: the virtio-console when the machine has    *)
(* one, else the vsock endpoint, else none.  The choice is made once, at boot. *)
EXTENDS VirtioConsole, Vsock

CONSTANT
    Machines   \* the machines checked: the devices on the bus, and the vsock scenario

VARIABLES
    vdev,     \* the vsock driver: probe outcome
    vpci      \* the vsock device on the bus

\* The console is tried first; the vsock device only where there is none.
InitVsock ==
    /\ cdev.st = "absent" /\ vdev.st = "off"
    /\ vdev' = ProbeVsock(vpci, QSize)
    /\ UNCHANGED <<vpci, cvars, vvars>>

Transport ==
    IF cdev.st = "ready" THEN "virtio-console" ELSE IF vdev.st = "ready" THEN "virtio-vsock" ELSE "none"

TransportInit ==
    /\ ConsoleInit /\ VsockInit
    /\ vdev = [st |-> "off", status |-> 0]
    /\ \E m \in Machines : cpci = m.console /\ vpci = m.vsock /\ plan = m.plan

TransportNext ==
    \/ InitVsock
    \/ ConsoleNext /\ UNCHANGED <<vdev, vpci, vvars>>
    \/ Transport = "virtio-vsock" /\ VsockNext /\ UNCHANGED <<vdev, vpci, cvars>>

TransportSpec == TransportInit /\ [][TransportNext]_<<vdev, vpci, cvars, vvars>>

-----------------------------------------------------------------------------
\* Every variable holds a value of its kind, and a device is driven only once it
\* answered every question of its probe, never both (virtio_console::init,
\* virtio_vsock::init).
TransportTypeOK ==
    /\ ConsoleTypeOK /\ VsockTypeOK
    /\ tx.next > 1 \/ rxlog.sent > 0 => cdev.st = "ready"
    /\ ep.peer # NoPeer => vdev.st = "ready" /\ cdev.st = "absent"

\* Over either device each side reads what the other wrote, in order and once,
\* nobody is sent more than there is room for, and a stream that was read empty
\* can go on (virtio_console.rs, virtio_vsock.rs).
StreamsIntact ==
    /\ TransportTypeOK
    /\ ConsoleReceivesInOrder /\ ConsoleSentWasRead
    /\ VsockStreamIntact /\ VsockHostNotOverrun /\ VsockCreditReturns
=============================================================================
