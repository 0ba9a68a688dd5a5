----------------------------- MODULE SecureLink ------------------------------
(* The secure link: the kernel's handshake, sealed frames and attestation     *)
(* answers, the gateway's serve loop, and the operator's pinned tool listing, *)
(* over a link that may lose or repeat frames.                                *)
(*                                                                            *)
(* A ClientHello is named by its attempt `ch`, a ServerHello by the hello it  *)
(* answers and the gateway's randomness `sn`; the two name the session key.   *)
(* Handshake messages travel in fragments, as their sizes demand.             *)
EXTENDS Attestation, SequencesExt, FiniteSets

CONSTANTS Scenarios, \* gateway configuration, machines and budgets to explore
          MaxSn      \* handshakes the gateways of one behaviour answer

VARIABLES sc,       \* the scenario
          k,        \* kernel: console thread and link statics
          agents,   \* tool calls under way, per agent
          g,        \* gateway process
          up, down, \* frames in flight to the gateway and to the kernel
          left,     \* budgets left
          log,      \* history: per session, what was sealed and opened each way
          served,   \* history: calls the gateway ran
          certs,    \* history: node certificates issued
          clean     \* history: nothing disturbed the handshake attempt so far

linkVars == <<sc, k, agents, g, up, down, left, log, served, certs, clean>>

-----------------------------------------------------------------------------
(* Frames and sessions. *)

NoSession == [key |-> <<0, 0>>, tx |-> 0, rx |-> 0]
NewSession(key) == [NoSession EXCEPT !.key = key]

\* Fragments of the three handshake messages, as many as change the outcome.
Fragments == [CH |-> 2, SH |-> 2, CF |-> 3]
MaxFragments == 4

ForEachFragment(m) ==
    [i \in 1..Fragments[m.t] |-> [f |-> "HANDSHAKE", m |-> m, i |-> i, more |-> i < Fragments[m.t]]]

\* A message larger than the buffer is dropped with what was collected.
Push(re, frag) ==
    IF Len(re) = MaxFragments THEN [re |-> <<>>, msg |-> <<>>]
    ELSE IF frag.more THEN [re |-> Append(re, frag), msg |-> <<>>]
    ELSE [re |-> <<>>, msg |-> Append(re, frag)]

\* Size of a reassembled message: full fragments and the kind of the last one.
HasLength(msg, t) == Len(msg) = Fragments[t] /\ Last(msg).m.t = t
Whole(msg) == \A i \in DOMAIN msg : msg[i].m = Last(msg).m /\ msg[i].i = i

Sealed(sess, body) == [f |-> "SEALED", key |-> sess.key, seq |-> sess.tx, body |-> body]

\* Mutant: any frame of the session opens.
OpensAnyFrame(sess, fr) == fr.key = sess.key
\* A frame opens under its own key and only at the expected sequence number.
Opens(sess, fr) == fr.key = sess.key /\ fr.seq = sess.rx

\* Seal several messages: the frames and the session after them.
SealAll(sess, bodies) ==
    [frames |-> [i \in DOMAIN bodies |-> Sealed([sess EXCEPT !.tx = @ + i - 1], bodies[i])],
     sess |-> [sess EXCEPT !.tx = @ + Len(bodies)]]

Logged(l, sn, dir, bodies, opened) ==
    [l EXCEPT ![<<sn, dir>>] = [sent |-> @.sent \o bodies, got |-> @.got \o opened]]

Machine == sc.boots[k.boot]

-----------------------------------------------------------------------------
(* Kernel: secure_connect on the console thread. *)

KernelBoot(b) == [boot |-> b, pc |-> "idle", ch |-> 0, sess |-> NoSession, re |-> <<>>, epoch |-> 0,
                  certify |-> FALSE, pin |-> [attr |-> 0, epoch |-> 0]]

NoCall == [pc |-> "no", out |-> <<>>]

\* Mutant: the reassembler outlives its wait.
KeptReassembler == k.re
\* Each wait for a handshake message starts with a new reassembler.
NewReassembler == <<>>

\* The session ends before the ClientHello is sent; a write may fail half way.
Connect(cut) ==
    LET ch == left.ch + 1
        frags == ForEachFragment([t |-> "CH", ch |-> ch, sn |-> 0])
    IN /\ k.pc = "idle" /\ left.tries > 0 /\ Machine.pinned # "none"
       /\ cut => left.faults > 0
       /\ k' = [k EXCEPT !.ch = ch, !.sess = NoSession, !.re = NewReassembler, !.pc = IF cut THEN "idle" ELSE "hello"]
       /\ up' = IF cut THEN Append(up, frags[1]) ELSE up \o frags
       /\ left' = [left EXCEPT !.tries = @ - 1, !.ch = ch, !.faults = IF cut THEN @ - 1 ELSE @]
       /\ clean' = (~cut /\ up = <<>> /\ down = <<>> /\ g.re = <<>>)
       /\ UNCHANGED <<sc, agents, g, down, log, served, certs>>

\* The first complete handshake message decides; the rest of the batch is lost.
Collect(acc, fr) ==
    IF fr.f # "HANDSHAKE" \/ acc.msg # <<>> THEN acc ELSE Push(acc.re, fr)

\* The gateway must be the pinned one and have signed this very exchange.
ClientFinish(msg) ==
    /\ HasLength(msg, "SH") /\ Whole(msg)
    /\ Last(msg).m.ch = k.ch /\ Machine.pinned = "gateway"

\* Writing the ClientFinish may fail half way: then there is no session.
WaitHandshake(cut) ==
    LET r == FoldLeft(Collect, [re |-> k.re, msg |-> <<>>], down)
        sh == Last(r.msg).m
    IN /\ k.pc = "hello" /\ down # <<>> /\ down' = <<>>
       /\ cut => left.faults > 0 /\ r.msg # <<>> /\ ClientFinish(r.msg)
       /\ left' = [left EXCEPT !.faults = IF cut THEN @ - 1 ELSE @]
       /\ clean' = (clean /\ ~cut)
       /\ \/ r.msg = <<>> /\ k' = [k EXCEPT !.re = r.re] /\ up' = up
          \/ /\ r.msg # <<>> /\ ~ClientFinish(r.msg)
             /\ k' = [k EXCEPT !.pc = "failed"] /\ up' = up
          \/ /\ r.msg # <<>> /\ ClientFinish(r.msg)
             /\ LET frags == ForEachFragment([t |-> "CF", ch |-> k.ch, sn |-> sh.sn])
                IN \/ cut /\ up' = Append(up, frags[1]) /\ k' = [k EXCEPT !.pc = "failed"]
                   \/ /\ ~cut /\ up' = up \o frags
                      /\ k' = [k EXCEPT !.pc = "ask", !.epoch = @ + 1, !.sess = NewSession(<<k.ch, sh.sn>>)]
       /\ UNCHANGED <<sc, agents, g, log, served, certs>>

\* A handshake that gets no complete answer in time fails.
HandshakeTimeout ==
    /\ k.pc = "hello" /\ k' = [k EXCEPT !.pc = "failed"] /\ clean' = FALSE
    /\ UNCHANGED <<sc, agents, g, up, down, left, log, served, certs>>

\* The failure is reported and audited.
ReportFailure ==
    /\ k.pc = "failed" /\ k' = [k EXCEPT !.pc = "idle"]
    /\ UNCHANGED <<sc, agents, g, up, down, left, log, served, certs, clean>>

-----------------------------------------------------------------------------
(* Kernel: sealed frames. *)

\* Rejected frames leave the session as it is.
RejectFrame(acc) == acc

OpenOne(acc, fr) ==
    IF fr.f # "SEALED" THEN acc
    ELSE IF acc.sess # NoSession /\ Opens(acc.sess, fr)
         THEN [sess |-> [acc.sess EXCEPT !.rx = @ + 1], got |-> Append(acc.got, fr.body)]
    ELSE RejectFrame(acc)

\* Everything that arrived, opened with the current session.
Recv == FoldLeft(OpenOne, [sess |-> k.sess, got |-> <<>>], down)
Received(t) == SelectSeq(Recv.got, LAMBDA b : b.t = t)

\* recv, then seal and send `bodies`; `next` is the kernel but for its session.
\* Nothing is read between two of the sends, so they are one step.  The write of
\* the first `lost` of them fails after they were sealed.
RecvAndSendBut(lost, bodies, next) ==
    LET s == SealAll(Recv.sess, bodies)
    IN /\ down' = <<>> /\ up' = up \o SubSeq(s.frames, lost + 1, Len(bodies))
       /\ log' = IF k.sess = NoSession THEN log
                 ELSE Logged(Logged(log, k.sess.key[2], "up", bodies, <<>>), k.sess.key[2], "down", <<>>, Recv.got)
       /\ k' = [next EXCEPT !.sess = s.sess]
RecvAndSend(bodies, next) == RecvAndSendBut(0, bodies, next)

At(pc) == [k EXCEPT !.pc = pc]

-----------------------------------------------------------------------------
(* Kernel: answering the attestation request. *)

HasCertificate == Machine.tpm /\ Machine.cert # "none"

EkChunks(prove) ==
    IF prove /\ HasCertificate
    THEN [i \in 1..2 |-> [t |-> "ek", at |-> i, total |-> 2, cert |-> Machine.cert]] ELSE <<>>

TpmQuote(n) ==
    IF Machine.tpm
    THEN <<[t |-> "quote", nonce |-> n,
            q |-> [st |-> "ok", ak |-> Machine.ak, regs |-> Machine.regs, fw |-> Machine.fw, loader |-> Machine.loader]]>>
    ELSE <<>>

AfterProof(certify) == IF certify THEN "cert" ELSE "idle"

\* An endorsement whose first chunk cannot be written is given up: the rest of
\* it is not sent and no challenge is waited for, but quote and report follow.
AnswerAttestation(cut) ==
    /\ k.pc = "ask" /\ Received("request") # <<>>
    /\ LET req == Head(Received("request"))
           next == IF req.prove /\ HasCertificate /\ ~cut THEN "prove" ELSE AfterProof(req.certify)
           chunks == EkChunks(req.prove)
           report == TpmQuote(req.nonce) \o <<[t |-> "attest", nonce |-> req.nonce, regs |-> Machine.regs]>>
           answer == (IF cut THEN <<Head(chunks)>> ELSE chunks) \o report
       IN /\ cut => left.faults > 0 /\ chunks # <<>>
          /\ RecvAndSendBut(IF cut THEN 1 ELSE 0, answer, [At(next) EXCEPT !.certify = req.certify])
    /\ left' = [left EXCEPT !.faults = IF cut THEN @ - 1 ELSE @]
    /\ clean' = (clean /\ ~cut)
    /\ UNCHANGED <<sc, agents, g, served, certs>>

\* The TPM recovers the secret only for its own attestation key, and only if
\* the challenge was made for the endorsement key it holds.
TpmActivate(ch) ==
    IF ch.ak = Machine.ak /\ Machine.cert = "ek" THEN <<[t |-> "proof", secret |-> ch.secret]>> ELSE <<>>

AnswerChallenge ==
    /\ k.pc = "prove" /\ Received("challenge") # <<>>
    /\ RecvAndSend(TpmActivate(Head(Received("challenge"))), At(AfterProof(k.certify)))
    /\ UNCHANGED <<sc, agents, g, left, served, certs, clean>>

AwaitCertificate ==
    /\ k.pc = "cert" /\ Received("cert") # <<>>
    /\ RecvAndSend(<<>>, At("idle"))
    /\ UNCHANGED <<sc, agents, g, left, served, certs, clean>>

\* A wait that polls without its message keeps nothing of what it read.
WaitSealed ==
    /\ k.pc \in {"ask", "prove", "cert", "list"} /\ down # <<>>
    /\ Received([ask |-> "request", prove |-> "challenge", cert |-> "cert", list |-> "listing"][k.pc]) = <<>>
    /\ RecvAndSend(<<>>, k)
    /\ UNCHANGED <<sc, agents, g, left, served, certs, clean>>

WaitTimeout ==
    /\ k.pc \in {"ask", "prove", "cert", "list"} /\ down = <<>>
    /\ k' = [k EXCEPT !.pc = IF k.pc = "prove" THEN AfterProof(k.certify) ELSE "idle"]
    /\ UNCHANGED <<sc, agents, g, up, down, left, log, served, certs, clean>>

-----------------------------------------------------------------------------
(* Kernel: the tool listing, and agents' calls while a run is on. *)

SyncTools ==
    /\ k.pc = "idle" /\ k.sess # NoSession /\ left.syncs > 0
    /\ left' = [left EXCEPT !.syncs = @ - 1]
    /\ RecvAndSend(<<[t |-> "list"]>>, At("list"))
    /\ UNCHANGED <<sc, agents, g, served, certs, clean>>

\* An unchanged entry is confirmed for this session; a new or changed one only
\* if the operator approves.  An empty listing confirms nothing.
ReviewListing(attr, approves) ==
    IF attr # 0 /\ (k.pin.attr = attr \/ approves) THEN [attr |-> attr, epoch |-> k.epoch] ELSE k.pin

ReviewTools(approves) ==
    /\ k.pc = "list" /\ Received("listing") # <<>>
    /\ RecvAndSend(<<>>, [At("idle") EXCEPT !.pin = ReviewListing(Last(Received("listing")).attr, approves)])
    /\ UNCHANGED <<sc, agents, g, left, served, certs, clean>>

\* run_scheduled returns once no process runs or waits.
StartRun ==
    /\ k.pc = "idle" /\ left.calls > 0 /\ k' = [k EXCEPT !.pc = "run"]
    /\ UNCHANGED <<sc, agents, g, up, down, left, log, served, certs, clean>>

EndRun ==
    /\ k.pc = "run" /\ \A a \in DOMAIN agents : agents[a] = NoCall
    /\ k' = [k EXCEPT !.pc = "idle"]
    /\ UNCHANGED <<sc, agents, g, up, down, left, log, served, certs, clean>>

\* Mutant: a listing confirmed once is good for every session.
VerifiedOnce == k.pin.epoch # 0
Verified == k.pin.epoch = k.epoch /\ k.epoch # 0

\* prepare: the link is secure and the tool was confirmed in this session.
PrepareCall(a) ==
    /\ k.pc = "run" /\ agents[a].pc = "no" /\ left.calls > 0
    /\ k.sess # NoSession /\ Verified
    /\ agents' = [agents EXCEPT ![a].pc = "ready"]
    /\ left' = [left EXCEPT !.calls = @ - 1]
    /\ UNCHANGED <<sc, k, g, up, down, log, served, certs, clean>>

\* send_data seals under the lock and releases it before the frame is written.
SendData(a) ==
    LET body == [t |-> "call", attr |-> k.pin.attr]
    IN /\ k.pc = "run" /\ agents[a].pc = "ready"
       /\ agents' = [agents EXCEPT ![a] =
              [pc |-> "write", out |-> IF k.sess = NoSession THEN <<[f |-> "DATA", body |-> body]>>
                                                               ELSE <<Sealed(k.sess, body)>>]]
       /\ k' = IF k.sess = NoSession THEN k ELSE [k EXCEPT !.sess.tx = @ + 1]
       /\ log' = IF k.sess = NoSession THEN log ELSE Logged(log, k.sess.key[2], "up", <<body>>, <<>>)
       /\ UNCHANGED <<sc, g, up, down, left, served, certs, clean>>

WriteFrame(a) ==
    /\ agents[a].pc = "write"
    /\ up' = up \o agents[a].out /\ agents' = [agents EXCEPT ![a] = NoCall]
    /\ UNCHANGED <<sc, k, g, down, left, log, served, certs, clean>>

\* The supervising console thread, and the operator's link commands, poll.
Pump ==
    /\ k.pc \in {"idle", "run"} /\ down # <<>>
    /\ RecvAndSend(<<>>, k)
    /\ UNCHANGED <<sc, agents, g, left, served, certs, clean>>

-----------------------------------------------------------------------------
(* Gateway: one frame at a time, its answers written before the next. *)

GatewayStart(enrolled, gen) ==
    [hs |-> <<0, 0>>, sess |-> NoSession, re |-> <<>>, announced |-> 0, at |-> AttestorNew(enrolled),
     client |-> 0, certified |-> FALSE, gen |-> gen]

\* What the gateway offers as its one tool: the configuration of this process.
Offer == sc.offers[g.gen]

Hello == Head(up).f = "HELLO" /\ g' = [g EXCEPT !.announced = Head(up).boot]
         /\ down' = down /\ UNCHANGED <<left, log, served, certs>>

\* A ClientFinish must fit the exchange, and its signer be the announced issuer.
ServerFinish(msg) ==
    /\ Whole(msg) /\ Last(msg).m.ch = g.hs[1] /\ Last(msg).m.sn = g.hs[2]
    /\ g.announced \in {0, k.boot}

\* The new session starts unattested, and is asked to attest at once.
OpenSession(key) ==
    LET req == RequestMessage(sc.cfg, key[2])
        s == SealAll(NewSession(key), <<req>>)
    IN /\ g' = [g EXCEPT !.hs = <<0, 0>>, !.re = <<>>, !.sess = s.sess, !.client = k.boot, !.certified = FALSE,
                         !.at = Request(@, key[2])]
       /\ down' = down \o s.frames
       /\ log' = Logged(log, key[2], "down", <<req>>, <<>>)

\* The answer to a ClientHello signs what was received, whole or not.
ServerRespond(msg) ==
    LET ch == IF Whole(msg) THEN Last(msg).m.ch ELSE 0
        sn == left.sn + 1
    IN /\ sn <= MaxSn /\ left' = [left EXCEPT !.sn = sn]
       /\ g' = [g EXCEPT !.hs = <<ch, sn>>, !.re = <<>>, !.sess = NoSession]
       /\ down' = down \o ForEachFragment([t |-> "SH", ch |-> ch, sn |-> sn])

Handshake ==
    LET r == Push(g.re, Head(up))
        finish == g.hs # <<0, 0>> /\ HasLength(r.msg, "CF")
    IN /\ Head(up).f = "HANDSHAKE"
       /\ \/ r.msg = <<>> /\ g' = [g EXCEPT !.re = r.re] /\ UNCHANGED <<down, left, log>>
          \/ r.msg # <<>> /\ finish /\ ServerFinish(r.msg) /\ OpenSession(g.hs) /\ left' = left
          \/ /\ r.msg # <<>> /\ finish /\ ~ServerFinish(r.msg)
             /\ g' = [g EXCEPT !.hs = <<0, 0>>, !.re = <<>>] /\ UNCHANGED <<down, left, log>>
          \/ r.msg # <<>> /\ ~finish /\ HasLength(r.msg, "CH") /\ ServerRespond(r.msg) /\ log' = log
          \/ /\ r.msg # <<>> /\ ~finish /\ ~HasLength(r.msg, "CH")
             /\ g' = [g EXCEPT !.hs = <<0, 0>>, !.re = <<>>, !.sess = NoSession] /\ UNCHANGED <<down, left, log>>
       /\ UNCHANGED <<served, certs>>

\* The certificate for the key this session proved, once and once accepted.
Certify(gw) == sc.cfg.certify /\ ~gw.certified /\ gw.at.status = "Trusted"

\* The gateway after a message, and its replies.
Dispatch(gw, b) ==
    CASE b.t = "quote" -> [g |-> [gw EXCEPT !.at = OnQuote(sc.cfg, @, b)], out |-> Challenges(sc.cfg, gw.at, b)]
      [] b.t \in {"ek", "proof", "attest"} ->
           LET at == CASE b.t = "attest" -> OnMessage(sc.cfg, gw.at, b, sc.disk)
                       [] ~sc.cfg.ca -> gw.at
                       [] b.t = "ek" -> OnEkChunk(gw.at, b)
                       [] OTHER -> OnProof(sc.cfg, gw.at, b, sc.disk)
               gw2 == [gw EXCEPT !.at = at]
           IN IF Certify(gw2) THEN [g |-> [gw2 EXCEPT !.certified = TRUE], out |-> <<[t |-> "cert", node |-> gw.client]>>]
              ELSE [g |-> gw2, out |-> <<>>]
      [] b.t = "list" -> [g |-> gw, out |-> <<[t |-> "listing", attr |-> IF Serving(sc.cfg, gw.at) THEN Offer ELSE 0]>>]
      [] b.t = "call" -> [g |-> gw, out |-> <<[t |-> "result", ok |-> Serving(sc.cfg, gw.at)]>>]

SealedFrame ==
    LET fr == Head(up)
        opened == [g EXCEPT !.sess.rx = @ + 1]
        r == Dispatch(opened, fr.body)
        s == SealAll(r.g.sess, r.out)
        sn == g.sess.key[2]
    IN /\ fr.f = "SEALED" /\ left' = left
       /\ \/ (g.sess = NoSession \/ ~Opens(g.sess, fr)) /\ UNCHANGED <<g, down, log, served, certs>>
          \/ /\ g.sess # NoSession /\ Opens(g.sess, fr)
             /\ g' = [r.g EXCEPT !.sess = s.sess] /\ down' = down \o s.frames
             /\ log' = Logged(Logged(log, sn, "up", <<>>, <<fr.body>>), sn, "down", r.out, <<>>)
             /\ served' = IF fr.body.t = "call" /\ Serving(sc.cfg, r.g.at)
                          THEN served \union {[boot |-> g.client, ran |-> Offer, asked |-> fr.body.attr]} ELSE served
             /\ certs' = IF \E i \in DOMAIN r.out : r.out[i].t = "cert" THEN Append(certs, [sn |-> sn, node |-> g.client]) ELSE certs

\* Plain data is echoed only while there is no session.
PlainData ==
    /\ Head(up).f = "DATA" /\ UNCHANGED <<g, left, log, served, certs>>
    /\ down' = IF g.sess = NoSession THEN Append(down, Head(up)) ELSE down

Gateway ==
    /\ up # <<>> /\ up' = Tail(up)
    /\ \/ Hello
       \/ Handshake
       \/ SealedFrame
       \/ PlainData
    /\ UNCHANGED <<sc, k, agents, clean>>

\* On a quiet line the gateway forwards an operator's decision.
ForwardDecision ==
    LET s == SealAll(g.sess, <<[t |-> "decision"]>>)
    IN /\ up = <<>> /\ g.sess # NoSession /\ left.decisions > 0
       /\ left' = [left EXCEPT !.decisions = @ - 1]
       /\ g' = [g EXCEPT !.sess = s.sess] /\ down' = down \o s.frames
       /\ log' = Logged(log, g.sess.key[2], "down", <<[t |-> "decision"]>>, <<>>)
       /\ UNCHANGED <<sc, k, agents, up, served, certs, clean>>

-----------------------------------------------------------------------------
(* Faults. *)

\* A frame torn by a failed write fails its checksum; one may be sent twice.
LoseOrRepeat ==
    /\ left.faults > 0 /\ left' = [left EXCEPT !.faults = @ - 1] /\ clean' = FALSE
    /\ \/ \E i \in DOMAIN up : up' = RemoveAt(up, i) /\ down' = down
       \/ \E i \in DOMAIN up : up' = InsertAt(up, i, up[i]) /\ down' = down
       \/ \E i \in DOMAIN down : down' = RemoveAt(down, i) /\ up' = up
    /\ UNCHANGED <<sc, k, agents, g, log, served, certs>>

\* A new gateway process knows the enrolled machine and nothing else.
GatewayRestart ==
    /\ g.gen < Len(sc.offers) /\ clean' = FALSE
    /\ g' = GatewayStart(g.at.enrolled, g.gen + 1) /\ up' = <<>>
    /\ UNCHANGED <<sc, k, agents, down, left, log, served, certs>>

\* Another boot, perhaps of another machine, announces its new issuer key.
Reboot ==
    /\ k.boot < Len(sc.boots) /\ g.gen < Len(sc.offers) /\ clean' = FALSE
    /\ k' = KernelBoot(k.boot + 1) /\ agents' = [a \in DOMAIN agents |-> NoCall]
    /\ g' = GatewayStart(g.at.enrolled, g.gen + 1)
    /\ up' = IF sc.hello THEN <<[f |-> "HELLO", boot |-> k.boot + 1]>> ELSE <<>>
    /\ down' = <<>> /\ UNCHANGED <<sc, left, log, served, certs>>

-----------------------------------------------------------------------------
Ways == (1..MaxSn) \X {"up", "down"}

LinkInit ==
    /\ sc \in Scenarios
    /\ k = KernelBoot(1) /\ g = GatewayStart(sc.enrolled, 1)
    /\ agents = [a \in sc.agents |-> NoCall]
    /\ up = IF sc.hello THEN <<[f |-> "HELLO", boot |-> 1]>> ELSE <<>>
    /\ down = <<>>
    /\ left = [tries |-> sc.tries, calls |-> sc.calls, syncs |-> sc.syncs, faults |-> sc.faults,
               decisions |-> sc.decisions, ch |-> 0, sn |-> 0]
    /\ log = [w \in Ways |-> [sent |-> <<>>, got |-> <<>>]]
    /\ served = {} /\ certs = <<>> /\ clean = FALSE

LinkNext ==
    \/ \E cut \in BOOLEAN : Connect(cut) \/ WaitHandshake(cut) \/ AnswerAttestation(cut)
    \/ HandshakeTimeout \/ ReportFailure
    \/ AnswerChallenge \/ AwaitCertificate \/ WaitSealed \/ WaitTimeout
    \/ SyncTools \/ (\E yes \in BOOLEAN : ReviewTools(yes))
    \/ StartRun \/ EndRun \/ Pump
    \/ (\E a \in DOMAIN agents : PrepareCall(a) \/ SendData(a) \/ WriteFrame(a))
    \/ Gateway \/ ForwardDecision
    \/ LoseOrRepeat \/ GatewayRestart \/ Reboot

LinkSpec == LinkInit /\ [][LinkNext]_linkVars

-----------------------------------------------------------------------------
(* Properties. *)

Trusts(m) == \* what a configured check means of the machine itself
    /\ sc.cfg.expect => m.regs = "build"
    /\ TpmRequired(sc.cfg) => m.tpm /\ (sc.cfg.loader => m.loader = "build")
    /\ sc.cfg.ca => m.cert = "ek"

\* The link's state is well formed.
LinkTypeOK ==
    /\ sc \in Scenarios /\ k.boot \in DOMAIN sc.boots
    /\ k.pc \in {"idle", "hello", "failed", "ask", "prove", "cert", "list", "run"}
    /\ g.at.status \in {"Pending", "Trusted", "Rejected"} /\ g.gen \in DOMAIN sc.offers
    /\ k.pc # "run" => \A a \in DOMAIN agents : agents[a] = NoCall
    /\ \A a \in DOMAIN agents : agents[a].pc \in {"no", "ready", "write"}

\* The sessions implement the abstract secure channel (link/src/secure.rs,
\* Session): however frames are lost, repeated, reordered between writers or
\* left over from older sessions, each direction delivers a prefix of what was
\* sealed for that session.
Channel == INSTANCE SecureChannel WITH
               sent <- [w \in Ways |-> log[w].sent], got <- [w \in Ways |-> log[w].got]
ImplementsSecureChannel == Channel!Spec

\* A gateway that requires attestation runs calls only for a boot of which
\* every configured check is true, and, with --tpm, only for the enrolled
\* machine (gateway/src/main.rs, attestor.serving()).  The loader's registers
\* are a check only where a quote is: with --tpm or --tpm-ca.
ServedIsAttested ==
    \A s \in served : LET m == sc.boots[s.boot]
                      IN Trusts(m) /\ (sc.cfg.tpm => g.at.enrolled = [ak |-> m.ak, fw |-> m.fw])

\* With manufacturer CAs, the machine on file passed every check: enrolled
\* "only after this proof" (gateway/src/attestation.rs:20).
EnrolledIsProven ==
    (sc.cfg.ca /\ sc.enrolled = NoEnrollment /\ g.at.enrolled # NoEnrollment) =>
        \E b \in DOMAIN sc.boots : /\ Trusts(sc.boots[b])
                                   /\ g.at.enrolled = [ak |-> sc.boots[b].ak, fw |-> sc.boots[b].fw]

\* A node certificate names the boot that passed the checks, and a session
\* gets at most one (gateway/src/main.rs, certify).
CertifiedOnce ==
    /\ \A i \in DOMAIN certs : Trusts(sc.boots[certs[i].node])
    /\ \A i, j \in DOMAIN certs : certs[i].sn = certs[j].sn => i = j

\* Only machines that proved what the gateway's configuration asks for are
\* served, enrolled and certified (gateway/src/attestation.rs).
MachinesAreProven == LinkTypeOK /\ ServedIsAttested /\ EnrolledIsProven /\ CertifiedOnce

\* A gateway given the loader's expected registers serves only boots measured by
\* that loader: "the gateway requires them" (ARCHITECTURE.md:361).  Not so
\* without --tpm or --tpm-ca: check_tpm returns before it looks at them.
LoaderIsRequired == \A s \in served : sc.cfg.loader => sc.boots[s.boot].loader = "build"

\* The gateway runs a tool only as the operator approved it: calls name the
\* listing reviewed in this session (src/tools.rs, verified).
CalledAsApproved == \A s \in served : s.ran = s.asked

\* Tool calls never travel in plaintext (ARCHITECTURE.md), although the check
\* that the link is secure and the sending are two critical sections.
ToolsNeverPlain ==
    /\ \A i \in DOMAIN up : up[i].f # "DATA"
    /\ \A a \in DOMAIN agents : agents[a].out # <<>> => Head(agents[a].out).f = "SEALED"

\* A call reaches the gateway sealed, and runs the tool the operator approved,
\* although sessions end and listings change while it is on its way.
CallsAreApproved == CalledAsApproved /\ ToolsNeverPlain

\* An undisturbed attempt against the pinned gateway, begun with a quiet link,
\* does not fail (src/link.rs, secure_connect_inner).
CleanAttemptSucceeds == (clean /\ Machine.pinned = "gateway") => k.pc # "failed"
=============================================================================
