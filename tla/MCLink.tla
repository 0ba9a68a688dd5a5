------------------------------- MODULE MCLink --------------------------------
(* The two halves of the link beside each other: the devices and byte streams *)
(* that carry it, and the sessions on top.  SecureLink takes the frames of a  *)
(* stream as they come, and LinkTransport shows what they come as, so a run   *)
(* exercises one half and leaves the other as it was.                         *)
EXTENDS LinkTransport, SecureLink

VARIABLE half

Device(present, v1, accepts, qmax, caps) ==
    [present |-> present, version1 |-> v1, accepts |-> accepts, qmax |-> qmax,
     caps |-> caps, bars |-> {"common", "notify", "device"}]

Windows == {"common", "notify", "device"}
GoodDevice == Device(TRUE, TRUE, TRUE, 2, Windows)
Absent == Device(FALSE, FALSE, FALSE, 0, {})
FaultyDevices ==
    {Device(TRUE, FALSE, TRUE, 2, Windows), Device(TRUE, TRUE, FALSE, 2, Windows),
     Device(TRUE, TRUE, TRUE, 1, Windows), Device(TRUE, TRUE, TRUE, 2, {"common"}), Absent}
NoConfig == Device(TRUE, TRUE, TRUE, 2, {"common", "notify"})

\* Connections, resets and stalls, lengths of writes and of the host's sends.
Traffic(c, e, w, h) == [conns |-> c, events |-> e, writes |-> w, sends |-> h]
QuietPlan == Traffic(1, 0, {}, {1})
TrafficPlans == {
    Traffic(1, 2, {2}, {}), Traffic(2, 0, {3}, {}), Traffic(2, 1, {}, {2}),
    Traffic(3, 0, {}, {2}), Traffic(1, 0, {2}, {3})}

Devices(c, v, s) == [console |-> c, vsock |-> v, plan |-> s]
MCMachines ==
    {Devices(GoodDevice, GoodDevice, QuietPlan)}
        \cup {Devices(c, v, QuietPlan) : c \in FaultyDevices, v \in FaultyDevices \cup {NoConfig}}
        \cup {Devices(Absent, GoodDevice, s) : s \in TrafficPlans}

Good == [regs |-> "build", tpm |-> TRUE, ak |-> "A", fw |-> "F", loader |-> "build", cert |-> "ek",
         pinned |-> "gateway"]
Patched == [Good EXCEPT !.regs = "patched"]
Bare == [Good EXCEPT !.tpm = FALSE, !.cert = "none"]
Other == [Good EXCEPT !.ak = "B", !.cert = "other-key"]
Twin == [Good EXCEPT !.ak = "B"]
Bios == [Good EXCEPT !.loader = "zero"]
NewFirmware == [Good EXCEPT !.fw = "G"]
Strange == [Good EXCEPT !.cert = "unknown-root"]
Unusable == [Good EXCEPT !.cert = "ek-unusable"]
Uncertified == [Good EXCEPT !.cert = "none"]

NoChecks == [expect |-> FALSE, loader |-> FALSE, tpm |-> FALSE, ca |-> FALSE, certify |-> FALSE]
Expect == [NoChecks EXCEPT !.expect = TRUE]
Tofu == [NoChecks EXCEPT !.tpm = TRUE]
Certified == [NoChecks EXCEPT !.ca = TRUE]
Everything == [expect |-> TRUE, loader |-> TRUE, tpm |-> TRUE, ca |-> TRUE, certify |-> TRUE]

Quiet(cfg, boots) ==
    [cfg |-> cfg, boots |-> boots, offers |-> <<1, 2>>, enrolled |-> NoEnrollment, disk |-> TRUE, hello |-> TRUE,
     agents |-> {"a1"}, tries |-> 2, calls |-> 1, syncs |-> 1, faults |-> 0, decisions |-> 0]

\* The loader's registers are expected, but no TPM is asked for them.
LoaderAlone == {Quiet([Expect EXCEPT !.loader = TRUE], <<Bios>>)}

Attesting ==
    {Quiet(Expect, <<Good, Patched>>)}
    \union {Quiet([Expect EXCEPT !.loader = TRUE, !.tpm = TRUE], b) : b \in {<<Bios, Good>>, <<Good, NewFirmware>>}}
    \union {Quiet([Tofu EXCEPT !.certify = TRUE], b) : b \in {<<Bare, Good>>, <<Good, Twin>>}}
    \union {Quiet(Certified, b) : b \in {<<Other, Good>>, <<Strange, Uncertified>>, <<Unusable>>}}
    \union LoaderAlone
    \union {Quiet([Certified EXCEPT !.tpm = TRUE], <<Other, Good>>)}
    \union {Quiet(Everything, <<Patched, Good>>)}

Unwritable == {[Quiet(Everything, <<Good, Good>>) EXCEPT !.disk = FALSE]}

Retried == [Quiet(NoChecks, <<Good>>) EXCEPT !.hello = FALSE]
Faulty ==
    {[Retried EXCEPT !.faults = 1], [Retried EXCEPT !.faults = 1, !.decisions = 1, !.offers = <<1>>],
     [Retried EXCEPT !.decisions = 1],
     [Quiet(NoChecks, <<[Good EXCEPT !.pinned = "other"]>>) EXCEPT !.syncs = 0]}

Concurrent == {[Quiet(NoChecks, <<Good>>) EXCEPT !.agents = {"a1", "a2"}, !.calls = 3, !.tries = 1,
                                                  !.faults = 1, !.offers = <<1>>]}

LossyAttestation == {[Quiet(Everything, <<Good>>) EXCEPT !.tries = 1, !.faults = 1, !.calls = 0, !.syncs = 0]}

MCScenarios == Attesting \union Unwritable \union Faulty \union LossyAttestation \union Concurrent

transportVars == <<vdev, vpci, cvars, vvars>>

MCInit ==
    /\ TransportInit /\ LinkInit
    /\ \/ half = "transport" /\ sc \in Unwritable
       \/ half = "sessions" /\ cpci = Absent /\ vpci = Absent

MCNext ==
    \/ half = "transport" /\ TransportNext /\ UNCHANGED <<half, linkVars>>
    \/ half = "sessions" /\ LinkNext /\ UNCHANGED <<half, transportVars>>

MCSpec == MCInit /\ [][MCNext]_<<half, transportVars, linkVars>>
=============================================================================
