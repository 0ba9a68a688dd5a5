-------------------------------- MODULE Tpm ----------------------------------
(* The TPM driver: one command at a time through the TIS registers, and the   *)
(* command sequences the kernel runs with it, with what each of them flushes  *)
(* when a command in the middle fails.                                        *)
(*                                                                            *)
(* Lengths are scaled down: a response header is 3 units long, its size is    *)
(* known after 2, and a response has at most 4 (4096).  A handle is its role and the operation that loaded         *)
(* it, so that no two loads share one.                                        *)
EXTENDS Integers, Sequences, FiniteSets, SequencesExt

CONSTANTS MaxTries, \* times a command is sent again when the TPM says so
          MaxSlots  \* transient objects the TPM holds

VARIABLES drv, \* transmit: program counter, positions, tries
          dev, \* the TIS interface of the TPM
          t,   \* what the TPM holds: objects, sessions, PCRs
          op,  \* the kernel operation under way: commands left, result so far
          ak,  \* the attestation key's handle, once the TPM holds the measurements
          lost \* history: handles the kernel cannot know or failed to flush

tpmVars == <<drv, dev, t, op, ak, lost>>

CMD_LEN == 2
HEADER == 3
SIZE_AT == 2
MAX_SIZE == HEADER + 1
MAX_BURST == 2

PCRS == 8..12
CDK_PCRS == <<8, 9, 10>>

NoHandle == <<"none", 0>>
NoCommand == [cc |-> "none", h |-> NoHandle, clean |-> <<>>]
NoResponse == [to |-> 0, rc |-> "ok", size |-> 0, left |-> 0, odd |-> "no"]
IdleDevice == [loc |-> FALSE, asked |-> FALSE, st |-> "idle", id |-> 0, cmd |-> NoCommand, rsp |-> NoResponse]
IdleDriver == [pc |-> "off", id |-> 0, i |-> 0, want |-> 0, tries |-> 0]
NoOp == [name |-> "none", n |-> 0, todo |-> <<>>, ok |-> TRUE, held |-> NoHandle]

-----------------------------------------------------------------------------
(* The TPM, as the driver sees it. *)

\* Writing commandReady drops whatever the interface was doing.
CommandReady(d) == [d EXCEPT !.st = "readying", !.cmd = NoCommand, !.rsp = NoResponse]

Loads == {"CreatePrimary", "Load"}
EndsSession == {"ActivateCredential", "Unseal"}

\* What a command does when the TPM accepts it.
Effect(c) ==
    CASE c.cc \in Loads -> [t EXCEPT !.objs = @ \cup {c.h}]
      [] c.cc = "StartAuthSession" -> [t EXCEPT !.sess = @ \cup {c.h}]
      [] c.cc = "FlushContext" -> [t EXCEPT !.objs = @ \ {c.h}, !.sess = @ \ {c.h}]
      [] c.cc \in EndsSession -> [t EXCEPT !.sess = @ \ {c.h}]
      [] c.cc = "PCR_Extend" -> [t EXCEPT !.pcr[c.h[1]] = Append(@, c.h[2])]
      [] OTHER -> t

\* Commands the TPM must refuse.
Refuses(c) ==
    \/ c.cc \in Loads /\ Cardinality(t.objs) = MaxSlots
    \/ c.cc = "FlushContext" /\ c.h \notin t.objs \cup t.sess

Response(rc, size, left, odd) == [to |-> dev.id, rc |-> rc, size |-> size, left |-> left, odd |-> odd]

\* Commands whose answer the driver takes apart (Resp).
Parsed == Loads \cup EndsSession
          \cup {"StartAuthSession", "PCR_Read", "NV_ReadPublic", "NV_Read", "Quote", "PolicyGetDigest", "Create"}

\* Answers to an accepted command: whole, cut short, with a size out of range,
\* whole but with contents that end too soon, or with a public area other than
\* the template's.
Accepted(c) ==
    {Response("ok", MAX_SIZE, HEADER + 1, "no"), Response("ok", MAX_SIZE, HEADER, "no"),
     Response("ok", 0, HEADER, "no"), Response("ok", MAX_SIZE + 1, HEADER + 1, "no")}
    \cup {Response("ok", MAX_SIZE, HEADER + 1, "contents") : x \in Parsed \cap {c.cc}}
    \cup {Response("ok", MAX_SIZE, HEADER + 1, "template") : x \in {"CreatePrimary"} \cap {c.cc}}

Rejected(c) ==
    {Response("error", HEADER, HEADER, "no"), Response("retry", HEADER, HEADER, "no")}
    \cup {Response("RC_INITIALIZE", HEADER, HEADER, "no") : x \in {"Startup"} \cap {c.cc}}

Device(d) == dev' = d /\ UNCHANGED <<drv, op, ak, lost>>

DeviceGrants == dev.asked /\ ~dev.loc /\ Device([dev EXCEPT !.loc = TRUE]) /\ UNCHANGED t
DeviceReady == dev.st = "readying" /\ Device([dev EXCEPT !.st = "ready"]) /\ UNCHANGED t
DeviceAccepts ==
    /\ dev.st = "execution" /\ ~Refuses(dev.cmd)
    /\ \E r \in Accepted(dev.cmd) : Device([dev EXCEPT !.st = "completion", !.rsp = r])
    /\ t' = Effect(dev.cmd)
DeviceRejects ==
    /\ dev.st = "execution"
    /\ \E r \in Rejected(dev.cmd) : Device([dev EXCEPT !.st = "completion", !.rsp = r])
    /\ UNCHANGED t

-----------------------------------------------------------------------------
(* Operations: sequences of commands.  A command names the handle it loads or *)
(* uses, and the handles flushed if it fails.                                 *)

Command(cc, h, clean) == [cc |-> cc, h |-> h, clean |-> clean]
Flush(h) == Command("FlushContext", h, <<>>)
Plain(cc) == Command(cc, NoHandle, <<>>)
FlushAll(hs) == [i \in DOMAIN hs |-> Flush(hs[i])]

PcrReadQuoted == <<Plain("PCR_Read"), Plain("PCR_Read")>>

\* tpm_commit up to the comparison; the events in the order they were measured.
Replay(events) ==
    <<Plain("Startup")>>
    \o [i \in DOMAIN events |-> Command("PCR_Extend", <<CDK_PCRS[events[i][1] + 1], events[i][2]>>, <<>>)]
    \o PcrReadQuoted
CreateAk(n) == <<Command("CreatePrimary", <<"ak", n>>, <<>>)>>

NvRead == <<Plain("NV_ReadPublic"), Plain("NV_Read")>>
CreateEk(n) == <<Command("CreatePrimary", <<"ek", n>>, <<>>)>>

Quote == PcrReadQuoted \o <<Plain("Quote")>>

\* Mutant: a failed policy leaves its session.
ActivateLeavesSession(n) ==
    LET ek == <<"ek", n>>
        s == <<"session", n>>
    IN <<Command("StartAuthSession", s, <<ek>>), Command("PolicySecret", s, <<ek>>),
         Command("ActivateCredential", s, <<s, ek>>), Flush(ek)>>
\* activate_credential, and the flush of the EK that ends the exchange.
ActivateCredential(n) ==
    LET ek == <<"ek", n>>
        s == <<"session", n>>
    IN <<Command("StartAuthSession", s, <<ek>>), Command("PolicySecret", s, <<s, ek>>),
         Command("ActivateCredential", s, <<s, ek>>), Flush(ek)>>

\* pcr_policy_digest, then seal under the storage key.
SealKey(n) ==
    LET s == <<"session", n>>
        srk == <<"srk", n>>
    IN <<Command("StartAuthSession", s, <<>>), Command("PolicyPCR", s, <<s>>),
         Command("PolicyGetDigest", s, <<s>>), Flush(s),
         Command("CreatePrimary", srk, <<>>), Command("Create", srk, <<srk>>), Flush(srk)>>

\* unseal_key: load under the storage key, satisfy the policy, unseal.
UnsealKey(n, branches) ==
    LET s == <<"session", n>>
        srk == <<"srk", n>>
        item == <<"item", n>>
    IN <<Command("CreatePrimary", srk, <<>>), Command("Load", item, <<srk>>),
         Command("StartAuthSession", s, <<item, srk>>), Command("PolicyPCR", s, <<s, item, srk>>)>>
       \o (IF branches THEN <<Command("PolicyOR", s, <<s, item, srk>>)>> ELSE <<>>)
       \o <<Command("Unseal", s, <<s, item, srk>>), Flush(item), Flush(srk)>>

Busy == op.todo # <<>>
\* An operation of several parts is not over between two of them.
Over == ~Busy /\ op.name \notin {"replay", "ak", "endorse", "drop"} /\ op.held = NoHandle

Start(name, n, held, todo) ==
    /\ op' = [name |-> name, n |-> n, todo |-> todo, ok |-> TRUE, held |-> held]
    /\ UNCHANGED <<drv, dev, t, ak, lost>>
Begin(name, todo) == Over /\ Start(name, op.n + 1, NoHandle, todo)

\* unseal_key and the sealing of a new store key.
BeginSeal == ak # NoHandle /\ Begin("seal", SealKey(op.n + 1))
BeginUnseal(branches) == ak # NoHandle /\ Begin("unseal", UnsealKey(op.n + 1, branches))

\* answer_attestation: the endorsement if asked for, the quote, the challenge.
BeginAttestation(prove) ==
    ak # NoHandle /\ IF prove THEN Begin("endorse", NvRead \o CreateEk(op.n + 1)) ELSE Begin("quote", Quote)
\* Whether the endorsement fits its messages and they are sent.
Endorsed(sent) ==
    /\ op.name = "endorse" /\ ~Busy
    /\ IF op.ok /\ ~sent THEN Start("drop", op.n, NoHandle, <<Flush(<<"ek", op.n>>)>>)
       ELSE Start("quote", op.n, IF op.ok THEN <<"ek", op.n>> ELSE NoHandle, Quote)
Dropped == op.name = "drop" /\ ~Busy /\ Start("quote", op.n, NoHandle, Quote)
\* The gateway challenges the attestation key, or does not.
Challenged(asked) ==
    /\ op.name = "quote" /\ ~Busy /\ op.held # NoHandle
    /\ Start("prove", op.n, NoHandle, IF asked THEN ActivateCredential(op.n) ELSE <<Flush(op.held)>>)

-----------------------------------------------------------------------------
(* transmit and transmit_once. *)

Driver(d) == drv' = d /\ UNCHANGED <<t, op, ak, lost>>

Transmit ==
    /\ drv.pc = "off" /\ Busy
    /\ Driver([IdleDriver EXCEPT !.pc = "locality", !.id = drv.id, !.tries = drv.tries])
    /\ dev' = [dev EXCEPT !.asked = TRUE]

LocalityActive ==
    /\ drv.pc = "locality" /\ dev.loc
    /\ Driver([drv EXCEPT !.pc = "ready", !.id = (@ + 1) % 2])
    /\ dev' = CommandReady(dev)

WriteBurst(n) ==
    /\ drv.pc = "ready" /\ dev.st \in {"ready", "reception"} /\ drv.i < CMD_LEN
    /\ n <= CMD_LEN - drv.i
    /\ Driver([drv EXCEPT !.i = @ + n])
    /\ dev' = [dev EXCEPT !.st = "reception", !.id = drv.id, !.cmd = op.todo[1]]

\* The TPM expects no more data: go.
Go ==
    /\ drv.pc = "ready" /\ drv.i = CMD_LEN /\ dev.st = "reception"
    /\ Driver([drv EXCEPT !.pc = "wait", !.i = 0, !.want = HEADER])
    /\ dev' = [dev EXCEPT !.st = "execution"]

\* The size field, once it was read, replaces the header's length.
SizeField(got, want) == IF got >= SIZE_AT /\ want = HEADER THEN dev.rsp.size ELSE want

ReadBurst(n) ==
    LET want == SizeField(drv.i + n, drv.want)
    IN /\ drv.pc = "wait" /\ dev.st = "completion"
       /\ n <= dev.rsp.left /\ n <= drv.want - drv.i
       /\ drv.i < drv.want
       /\ Driver([drv EXCEPT !.i = @ + n, !.want = want, !.pc = IF want \in HEADER..MAX_SIZE THEN @ ELSE "bad"])
       /\ dev' = [dev EXCEPT !.rsp.left = @ - n]

WholeResponse == drv.pc = "wait" /\ dev.st = "completion" /\ (drv.i = drv.want \/ dev.rsp.left = 0)

\* Mutant: the wait for the answer has no limit.
WaitsForDevice == (drv.pc = "locality" /\ ~dev.loc) \/ drv.pc = "ready"
\* A wait of five seconds in vain, wherever the driver waits.
Waiting ==
    \/ drv.pc = "locality" /\ ~dev.loc
    \/ drv.pc = "ready"
    \/ drv.pc = "wait" /\ ~WholeResponse

-----------------------------------------------------------------------------
(* The answer, and the next command of the operation. *)

Outcome ==
    CASE drv.pc = "bad" \/ drv.i # drv.want -> "bad"
      [] dev.rsp.rc = "RC_INITIALIZE" -> "ok"
      [] dev.rsp.rc # "ok" -> dev.rsp.rc
      [] dev.rsp.odd = "contents" -> "bad"
      [] OTHER -> IF dev.rsp.odd = "template" THEN "odd" ELSE "ok"

\* A handle the kernel never learns, or one it could not flush; and an AK with a
\* public area other than the template's, which create_ak refuses and leaves loaded.
Forgotten(c, out) ==
    \/ c.cc \in Loads \cup {"StartAuthSession"} /\ out \in {"bad", "timeout"}
    \/ c.cc = "FlushContext" /\ out # "ok"
    \/ out = "odd" /\ c.h[1] = "ak"

\* What a failed command leaves to do; a refused EK is flushed, a refused AK is not.
CleanUp(c, out) ==
    FlushAll((IF out = "odd" /\ c.h[1] = "ek" THEN <<c.h>> ELSE <<>>) \o c.clean)

\* A failed flush is ignored; the storage key's public area is not looked at.
Succeeded(c, out) == out = "ok" \/ c.cc = "FlushContext" \/ (out = "odd" /\ c.h[1] = "srk")

NextCommands(c, out) ==
    IF Succeeded(c, out) THEN Tail(op.todo) ELSE CleanUp(c, out)

Answered(out) ==
    LET c == op.todo[1]
    IN /\ op' = [op EXCEPT !.todo = NextCommands(c, out), !.ok = @ /\ Succeeded(c, out)]
       /\ lost' = IF Forgotten(c, out) THEN lost \cup {c.h} ELSE lost
       /\ drv' = [IdleDriver EXCEPT !.id = drv.id]
       /\ UNCHANGED <<t, ak>>

MayRetry == drv.tries < MaxTries

Respond ==
    /\ drv.pc = "bad" \/ WholeResponse
    /\ dev' = IF drv.pc = "bad" THEN dev ELSE CommandReady(dev)
    /\ IF Outcome = "retry" /\ MayRetry
       THEN Driver([IdleDriver EXCEPT !.id = drv.id, !.tries = drv.tries + 1])
       ELSE Answered(Outcome)

Timeout == Waiting /\ Answered("timeout") /\ UNCHANGED dev

DriverStep ==
    \/ Transmit \/ LocalityActive \/ Go \/ Respond \/ Timeout
    \/ \E n \in 1..MAX_BURST : WriteBurst(n) \/ ReadBurst(n)

DeviceStep == DeviceGrants \/ DeviceReady \/ DeviceAccepts \/ DeviceRejects

TpmInit(pcr) ==
    /\ drv = IdleDriver /\ dev = IdleDevice /\ op = NoOp /\ ak = NoHandle /\ lost = {}
    /\ t = [objs |-> {}, sess |-> {}, pcr |-> pcr]

-----------------------------------------------------------------------------
(* Properties. *)

\* Types of the driver and of the TPM.
TpmTypeOK ==
    /\ drv.pc \in {"off", "locality", "ready", "wait", "bad"} /\ drv.id \in 0..1
    /\ drv.i \in 0..HEADER + 1 /\ drv.tries \in 0..MaxTries
    /\ dev.st \in {"idle", "readying", "ready", "reception", "execution", "completion"}
    /\ DOMAIN t.pcr = PCRS
    /\ op.ok \in BOOLEAN /\ (Busy \/ drv = [IdleDriver EXCEPT !.id = drv.id])

\* Whatever command failed, and whenever: once an operation is over the TPM
\* holds no object and no session of it, except those whose handle the kernel
\* never learned, whose flush failed, or an AK that create_ak refused and left
\* loaded (src/src/tpm.rs:437-444; "never leak a TPM object slot",
\* src/src/link.rs).
NothingLeftLoaded == Over => t.objs \cup t.sess \subseteq lost \cup {ak}

\* A response believed by the driver answers the command it sent, even after
\* earlier commands timed out and were executed late, and was read to its end
\* (transmit_once).
AnswersThisCommand ==
    WholeResponse /\ Outcome \in {"ok", "odd"} => dev.rsp.to = drv.id /\ drv.i = dev.rsp.size /\ dev.rsp.left = 0

\* The driver and the TPM never get out of step: answers are to the command just
\* sent, and an operation that is over leaves nothing behind.
TpmInStep == NothingLeftLoaded /\ AnswersThisCommand

\* However slow or silent the TPM is, every operation ends: each wait is
\* bounded and commands are sent again a bounded number of times (wait,
\* transmit).
OperationsEnd == ~Over ~> Over
====
