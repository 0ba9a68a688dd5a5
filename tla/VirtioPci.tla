------------------------------ MODULE VirtioPci ------------------------------
(* Finding and starting a virtio device: the capability windows, the feature *)
(* handshake through the status register, and the queues.  A device on the   *)
(* bus is described by what its registers answer.                            *)
EXTENDS Integers

\* The bits of the status register.
Status == [ack |-> 1, driver |-> 2, driver_ok |-> 4, features_ok |-> 8, failed |-> 128]

\* The capability list names a common and a notify window.
DiscoverModern(d) == {"common", "notify"} \subseteq d.caps

\* Each window used lies in a memory BAR.
CapMmio(d, windows) == windows \subseteq d.bars

Failed(status) == [st |-> "absent", status |-> status]

\* Reset, acknowledge, VERSION_1 and nothing else, then the queues: each check
\* leaves the device as far as it came.
Negotiate(d, qsize) ==
    IF ~d.version1 THEN Failed(Status.failed)
    ELSE IF ~d.accepts THEN Failed(Status.ack + Status.driver)
    ELSE IF d.qmax < qsize THEN Failed(Status.ack + Status.driver + Status.features_ok)
    ELSE [st |-> "ready", status |-> Status.ack + Status.driver + Status.features_ok + Status.driver_ok]
=============================================================================
