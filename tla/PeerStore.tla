------------------------------ MODULE PeerStore ------------------------------
(* Distributed capabilities and the sealed store that makes them safe across  *)
(* reboots: a node, its TPM counter, its gateway with the store file, inbox   *)
(* and revocation list, and the link between them, whose answers may come     *)
(* late.  The node may crash at any point and boot again.                     *)
EXTENDS PeerCredentials, SequencesExt, TLC

CONSTANTS Scenarios,  \* boot chains, policy and budgets to explore
          Senders,    \* certificates of peer nodes
          Offers,     \* portable capabilities peers may offer this node
          Trusted,    \* <<node, object, permission>> the policy trusts
          MaxList,    \* capacity of the replay and revocation lists
          MaxInbound, \* messages one peer-sync takes in (64)
          Validity,   \* how long a certificate is valid
          MaxNow      \* the gateway's clock stops here

VARIABLES sc,    \* the scenario
          n,     \* the node's kernel: store state, lists, certificate, job
          tpm,   \* the NV counter: survives everything
          gw,    \* the gateway: store file, revocations, inbox, clock
          up, down, \* messages of this session under way
          left,  \* budgets
          hist   \* history: what took effect, exports, committed revocations

vars == <<sc, n, tpm, gw, up, down, left, hist>>

-----------------------------------------------------------------------------
(* Records and envelopes. *)

Records(node) == [rev |-> node.rev, seen |-> node.seen, imp |-> node.imp]
NoRecords == [rev |-> {}, seen |-> {}, imp |-> {}]

\* Mutant: an entry is dropped in the last second it matters.
PruneEarly(entries, now) == {e \in entries : e.exp > now}
Unexpired(entries, now) == {e \in entries : e.exp >= now}

\* Revocations are kept; a negative time prunes nothing.
Prune(r, now) == [r EXCEPT !.seen = Unexpired(@, now), !.imp = Unexpired(@, now)]

NoEnvelope == [ctr |-> 0, key |-> 0, chains |-> {}, recs |-> NoRecords]

\* Mutant: only the committed envelope is fresh.
CommittedOnly(ctr, counter) == IF ctr = counter THEN "Current" ELSE IF ctr < counter THEN "RolledBack" ELSE "Invalid"
Freshness(ctr, counter) ==
    CASE ctr = counter -> "Current"
      [] ctr = counter + 1 -> "Uncommitted"
      [] ctr < counter -> "RolledBack"
      [] OTHER -> "Invalid"

-----------------------------------------------------------------------------
(* The node. *)

\* What may take effect: messages, and portable capabilities.
Ids == {<<"msg", s.issuer, q>> : s \in Senders, q \in 1..4} \cup {<<"cap", p.cert.issuer, p.serial>> : p \in Offers}
Never == [i \in Ids |-> 0]

NoJob == [k |-> "none", x |-> 0]
MyAuthority == NodeAuthority(Me, Key("gateway", 0), MaxNow)
Booted(b) ==
    [boot |-> b, secure |-> FALSE, cert |-> <<>>, st |-> "NotLoaded", why |-> "none", ctr |-> 0, key |-> 0,
     chains |-> {}, seen |-> {}, imp |-> {}, rev |-> {}, proxies |-> {}, outq |-> <<>>, seq |-> 1,
     pc |-> "idle", job |-> NoJob, now |-> -1, got |-> 0, owed |-> FALSE]

Chain == sc.chains[n.boot]
TpmReady == Chain # "no tpm"
Measured == Chain \notin {"no tpm", "bios"}

\* acceptance_blocked
Blocked ==
    CASE n.st = "Ready" -> FALSE
      [] n.st = "Failed" -> TRUE
      [] n.st = "NotLoaded" -> sc.required \/ TpmReady
      [] OTHER -> sc.required

Send(m) == up' = Append(up, m)
Fault == left.faults > 0 /\ left' = [left EXCEPT !.faults = @ - 1]
Idle == n.pc = "idle"

Failed(node, why) == [node EXCEPT !.st = "Failed", !.why = why, !.pc = "idle", !.job = NoJob]
Off(node, why) == [node EXCEPT !.st = "Off", !.why = why, !.pc = "idle"]

\* The blobs of certify: the gateway's revocations, then the certificate.
Certified(revoked) ==
    <<[t |-> "cert", rev |-> revoked, cert |-> Certify(MyAuthority, Key(Me, n.boot), gw.now + Validity)]>>

\* link-secure up to the wait for the certificate.  The gateway reads what came
\* before the handshake first; the old session's answers are unreadable.  A list
\* of revocations that cannot be read is taken for an empty one; a gateway that
\* does not accept the attestation serves nothing.
LinkSecure ==
    /\ Idle /\ up = <<>> /\ left.links > 0 /\ UNCHANGED <<sc, tpm, up, hist>>
    /\ n' = [n EXCEPT !.secure = TRUE, !.owed = FALSE, !.pc = "cert"]
    /\ \/ /\ down' = Certified(gw.revoked) /\ gw' = [gw EXCEPT !.session = "served"]
          /\ left' = [left EXCEPT !.links = @ - 1]
       \/ /\ left.faults > 0 /\ left' = [left EXCEPT !.links = @ - 1, !.faults = @ - 1]
          /\ \/ down' = Certified({}) /\ gw' = [gw EXCEPT !.session = "served"]
             \/ down' = <<>> /\ gw' = [gw EXCEPT !.session = "refused"]

\* on_node_cert, then load: an open store is kept.
Linked(node, cert) == [node EXCEPT !.cert = cert, !.pc = IF node.st = "Ready" THEN "idle" ELSE "load"]

\* A TPM that holds a counter belongs to a machine that keeps a store.  A counter
\* that was never incremented cannot be read.
Ineligible(node) ==
    IF TpmReady /\ tpm.nv = "set" THEN Failed(node, "other boot chain") ELSE Off(node, "ineligible")

\* read_counter: a counter defined and never incremented is incremented now.
CounterRead == IF tpm.nv = "defined" THEN [nv |-> "set", ctr |-> tpm.ctr + 1] ELSE tpm

\* load, up to the request for the envelope.  A fault of the TPM lasts for one
\* command or for several: the registers unreadable and the counter not, the
\* counter unreadable too, or the counter alone.
LoadStart ==
    /\ n.pc = "load" /\ UNCHANGED <<sc, gw, down, hist>>
    /\ \/ ~Measured /\ n' = Ineligible(n) /\ UNCHANGED <<tpm, up, left>>
       \/ /\ TpmReady /\ Fault /\ UNCHANGED <<tpm, up>>
          /\ n' \in {Off(n, "unreadable"), Ineligible(n)} \cup IF Measured THEN {Failed(n, "tpm")} ELSE {}
       \/ /\ Measured /\ tpm' = CounterRead /\ Send([t |-> "get"])
          /\ n' = [n EXCEPT !.pc = "get", !.ctr = CounterRead.ctr] /\ UNCHANGED left

\* plan and open, with the gateway's answer: an envelope, none, or no store.
\* The lists are merged while there is room: which entries a full list leaves out
\* depends on their order, which the sets do not keep.
Merge(list, from) ==
    IF Cardinality(list \cup from) <= MaxList THEN {list \cup from}
    ELSE {list \cup some : some \in {x \in SUBSET (from \ list) : Cardinality(list \cup x) = MaxList}}
Restored(node, env) ==
    {[node EXCEPT !.rev = r, !.seen = s, !.imp = i, !.key = env.key, !.chains = env.chains, !.ctr = env.ctr,
                  !.st = "Ready", !.pc = "idle", !.job = NoJob] :
        r \in Merge(node.rev, env.recs.rev), s \in Merge(node.seen, env.recs.seen), i \in Merge(node.imp, env.recs.imp)}

\* unseal_key, the envelope's authentication and its freshness.
Open(node, env) ==
    CASE Chain \notin env.chains -> {Failed(node, "other boot chain")}
      [] Freshness(env.ctr, tpm.ctr) = "Current" -> Restored(node, env)
      [] Freshness(env.ctr, tpm.ctr) = "Uncommitted" -> {[node EXCEPT !.pc = "catch up", !.job = [k |-> "load", x |-> env]]}
      [] OTHER -> {Failed(node, Freshness(env.ctr, tpm.ctr))}

Plan(node, answer) ==
    CASE tpm.nv = "absent" /\ answer.t = "status" /\ answer.ok -> {Failed(node, "none yet")}
      [] tpm.nv = "absent" /\ answer.t = "status" -> {Off(node, "no store")}
      [] tpm.nv = "absent" -> {Failed(node, "inconsistent")}
      [] answer.t = "store" -> Open(node, answer.env)
      [] OTHER -> {Failed(node, "missing")}

\* History: a restored list had no room for all that was recorded.
Spills(node, env) ==
    MaxList < Max({Cardinality(node.rev \cup env.recs.rev), Cardinality(node.seen \cup env.recs.seen),
                   Cardinality(node.imp \cup env.recs.imp)})
Opens(env) == hist' = IF Spills(n, env) THEN [hist EXCEPT !.spilled = TRUE] ELSE hist

\* The increment that was missing after an uncommitted write.
CatchUp ==
    LET env == n.job.x
        bumped == [tpm EXCEPT !.ctr = @ + 1]
    IN /\ n.pc = "catch up" /\ UNCHANGED <<sc, gw, up, down>>
       /\ \/ tpm' = bumped /\ n' \in Restored(n, env) /\ Opens(env) /\ UNCHANGED left
          \/ Fault /\ n' = Failed(n, "tpm") /\ tpm' \in {tpm, bumped} /\ UNCHANGED hist

-----------------------------------------------------------------------------
(* commit: write the envelope, wait for the gateway, increment the counter.   *)

\* The job goes on once its records are committed (or need not be).
Committed(node) == [node EXCEPT !.pc = "done"]
\* A message or import that could not be recorded is not accepted; a
\* revocation stays in force; a new store is not taken.
Abort(node) ==
    CASE node.job.k = "deliver" -> [node EXCEPT !.seen = @ \ {node.job.x.entry}, !.pc = "file"]
      [] node.job.k = "import" -> [node EXCEPT !.imp = @ \ {node.job.x.entry}, !.pc = "idle", !.job = NoJob]
      [] node.job.k = "revoke" -> [node EXCEPT !.pc = "tell gateway"]
      [] OTHER -> [node EXCEPT !.pc = "idle", !.job = NoJob]

\* The store as the write sees it: for a reset a new key, sealed to this chain.
Target(node) ==
    CASE node.job.k = "reset" -> [key |-> hist.keys + 1, chains |-> {Chain}, ctr |-> CounterRead.ctr]
      [] node.job.k = "migrate" -> [key |-> node.key, chains |-> node.job.x, ctr |-> node.ctr]
      [] OTHER -> [key |-> node.key, chains |-> node.chains, ctr |-> node.ctr]

Envelope(node) ==
    [ctr |-> Target(node).ctr + 1, key |-> Target(node).key, chains |-> Target(node).chains,
     recs |-> Prune(Records(node), node.now)]

Fits(node) == Cardinality(node.rev) <= MaxList /\ Cardinality(node.seen) <= MaxList /\ Cardinality(node.imp) <= MaxList

\* History: how often a message or capability took effect in this boot, and how
\* often with the store open, during the life of that store.
TakesEffect(h, id) ==
    [h EXCEPT !.boot[id] = @ + 1, !.sealed[id] = IF n.st = "Ready" THEN @ + 1 ELSE @]
\* What a new store does not hold is lost, as store-reset says; what it does hold
\* it answers for.
Forget(h) ==
    [h EXCEPT !.keys = @ + 1, !.revoked = @ \cap n.rev,
              !.sealed = [i \in DOMAIN @ |-> IF \E x \in n.seen \cup n.imp : x.id = i
                                            THEN IF @[i] < h.boot[i] THEN h.boot[i] ELSE @[i]
                                            ELSE 0]]

\* A job with its records in place starts to write: the counter must be readable
\* and where this boot left it, the link secure and the records small enough.
Write ==
    LET reset == n.job.k = "reset"
        ok == n.secure /\ Fits(n) /\ (reset \/ tpm.ctr = n.ctr)
    IN /\ n.pc = "commit" /\ UNCHANGED <<sc, gw, down>>
       /\ \/ ~reset /\ n.st = "Off" /\ n' = Committed(n) /\ UNCHANGED <<tpm, up, left, hist>>
          \/ ~reset /\ n.st \in {"NotLoaded", "Failed"} /\ n' = Abort(n) /\ UNCHANGED <<tpm, up, left, hist>>
          \/ (reset \/ n.st = "Ready") /\ Fault /\ n' = Abort(n) /\ UNCHANGED <<tpm, up, hist>>
          \/ /\ reset \/ n.st = "Ready"
             /\ UNCHANGED left
             /\ tpm' = IF reset THEN CounterRead ELSE tpm
             /\ n' = IF ok THEN [n EXCEPT !.pc = "put", !.job.env = Envelope(n)] ELSE Abort(n)
             /\ up' = IF ok THEN Append(up, [t |-> "put", env |-> Envelope(n)]) ELSE up
             /\ hist' = IF reset /\ ok THEN Forget(hist) ELSE hist

\* The gateway confirmed the envelope: the counter follows.
Increment ==
    LET env == n.job.env
        bumped == [tpm EXCEPT !.ctr = @ + 1]
    IN /\ n.pc = "increment" /\ UNCHANGED <<sc, gw, up, down, hist>>
       /\ \/ /\ tpm' = bumped /\ UNCHANGED left
             /\ n' = [n EXCEPT !.ctr = env.ctr, !.key = env.key, !.chains = env.chains, !.st = "Ready", !.pc = "done"]
          \/ Fault /\ n' = Abort(n) /\ tpm' \in {tpm, bumped}

-----------------------------------------------------------------------------
(* Console jobs: reset and migrate the store, export, revoke, import, sync.   *)

\* The operator works through a list of commands and may leave some out.
Command == sc.script[left.at]
Start(k) == Idle /\ left.at \in DOMAIN sc.script /\ Command[1] = k /\ left' = [left EXCEPT !.at = @ + 1]

LeaveOut == Idle /\ left.at \in DOMAIN sc.script /\ left' = [left EXCEPT !.at = @ + 1]
            /\ UNCHANGED <<sc, n, tpm, gw, up, down, hist>>

\* store-reset, reviewed: a counter is defined if there is none.
Reset ==
    /\ Start("reset") /\ Measured /\ n.secure
    /\ tpm' = IF tpm.nv = "absent" THEN [nv |-> "set", ctr |-> tpm.ctr + 1] ELSE tpm
    /\ n' = [n EXCEPT !.pc = "commit", !.job = [k |-> "reset", x |-> 0, env |-> NoEnvelope], !.now = -1]
    /\ UNCHANGED <<sc, gw, up, down, hist>>

\* Defining the counter stops half-way.
DefineFails ==
    /\ Idle /\ left.at \in DOMAIN sc.script /\ Command[1] = "reset" /\ Measured /\ n.secure /\ tpm.nv = "absent" /\ Fault
    /\ tpm' = [tpm EXCEPT !.nv = "defined"] /\ UNCHANGED <<sc, n, gw, up, down, hist>>

\* store-migrate, to this chain alone or to this one and another.
Migrate ==
    LET to == Command[2] IN
    /\ Start("migrate") /\ n.st = "Ready" /\ Chain \in to
    /\ n' = [n EXCEPT !.pc = "commit", !.job = [k |-> "migrate", x |-> to, env |-> NoEnvelope], !.now = -1]
    /\ UNCHANGED <<sc, tpm, gw, up, down, hist>>

\* cap-export: the delegation is signed, then handed to the gateway.
Export ==
    LET audience == Command[2]
        perms == Command[3]
        cap == PortableCap(n.cert[1], "obj", perms, audience, Cardinality(hist.exports) + 1)
    IN /\ Start("export") /\ n.cert # <<>> /\ audience # Me /\ perms # {} /\ n.secure
       /\ hist' = [hist EXCEPT !.exports = @ \cup {cap}] /\ Send([t |-> "export"])
       /\ n' = [n EXCEPT !.pc = "ask"]
       /\ UNCHANGED <<sc, tpm, gw, down>>

\* cap-revoke: in force at once, then committed, then told to the gateway.
Revoke ==
    LET serial == Command[2] IN
    /\ Start("revoke") /\ Cardinality(n.rev \cup {serial}) <= MaxList
    /\ n' = [n EXCEPT !.rev = @ \cup {serial}, !.pc = "commit", !.now = -1,
                      !.job = [k |-> "revoke", x |-> serial, env |-> NoEnvelope]]
    /\ UNCHANGED <<sc, tpm, gw, up, down, hist>>

RevokeCommitted ==
    /\ n.pc = "done" /\ n.job.k = "revoke" /\ n' = [n EXCEPT !.pc = "tell gateway"]
    /\ hist' = IF n.st = "Ready" THEN [hist EXCEPT !.revoked = @ \cup {n.job.x}] ELSE hist
    /\ UNCHANGED <<sc, tpm, gw, up, down, left>>

TellGateway ==
    /\ n.pc = "tell gateway" /\ UNCHANGED <<sc, tpm, gw, down, left, hist>>
    /\ IF n.secure THEN n' = [n EXCEPT !.pc = "ask", !.job = NoJob] /\ Send([t |-> "revoke", serial |-> n.job.x])
                   ELSE n' = [n EXCEPT !.pc = "idle", !.job = NoJob] /\ UNCHANGED up

\* A new store or a migration is in use.
StoreChanged ==
    /\ n.pc = "done" /\ n.job.k \in {"reset", "migrate"} /\ n' = [n EXCEPT !.pc = "idle", !.job = NoJob]
    /\ UNCHANGED <<sc, tpm, gw, up, down, left, hist>>

\* cap-import asks for an offer; the answer carries the gateway's clock.
Import ==
    /\ Start("import") /\ n.secure /\ Send([t |-> "import", cap |-> Command[2]]) /\ n' = [n EXCEPT !.pc = "import"]
    /\ UNCHANGED <<sc, tpm, gw, down, hist>>

GrantMask(offered, from, object) == {p \in offered : <<from, object, p>> \in Trusted}
HasRoom(list) == Cardinality(list) < MaxList

\* check_import, the review and mark_imported up to the write.
CheckImport(node, p, now) ==
    LET entry == [id |-> <<"cap", p.cert.issuer, p.serial>>, exp |-> p.exp]
        kept == Unexpired(node.imp, now)
        checked == node.cert # <<>> /\ PortableVerify(p, now) /\ ~Blocked
        accepted == /\ checked /\ \A e \in kept : e.id # entry.id
                    /\ HasRoom(kept)
                    /\ GrantMask(p.perms, p.cert.name, p.object) # {}
    IN CASE accepted -> [node EXCEPT !.imp = kept \cup {entry}, !.now = now, !.pc = "commit",
                            !.job = [k |-> "import", x |-> [entry |-> entry, cap |-> p], env |-> NoEnvelope]]
         [] checked -> [node EXCEPT !.imp = kept, !.pc = "idle"]
         [] OTHER -> [node EXCEPT !.pc = "idle"]

\* The grant follows the record.
Grant ==
    LET x == n.job.x
    IN /\ n.pc = "done" /\ n.job.k = "import"
       /\ n' = [n EXCEPT !.proxies = @ \cup {<<x.cap.cert.name, x.cap.object>>}, !.pc = "idle", !.job = NoJob]
       /\ hist' = TakesEffect(hist, x.entry.id)
       /\ UNCHANGED <<sc, tpm, gw, up, down, left>>

-----------------------------------------------------------------------------
(* peer-sync: what agents queued on proxies goes out, the inbox comes in.     *)

\* An agent's message on a proxy: a payload the sync can send, or one it cannot.
AgentPosts ==
    /\ left.posts > 0 /\ left' = [left EXCEPT !.posts = @ - 1] /\ n.proxies # {}
    /\ \E fits \in BOOLEAN : n' = [n EXCEPT !.outq = Append(@, [no |-> sc.posts - left.posts + 1, fits |-> fits])]
    /\ UNCHANGED <<sc, tpm, gw, up, down, hist>>

Sync == Start("sync") /\ n.secure /\ n.cert # <<>> /\ n' = [n EXCEPT !.pc = "out"]
        /\ UNCHANGED <<sc, tpm, gw, up, down, hist>>

Sendable(q) == SelectInSeq(q, LAMBDA p : p.fits)

\* A message is taken from its queue before it is sent, and dropped with those
\* before it that cannot be sent; then the inbox.
Outbound ==
    LET k == Sendable(n.outq) IN
    /\ n.pc = "out" /\ UNCHANGED <<sc, tpm, gw, down, left, hist>>
    /\ IF k # 0
       THEN /\ Send([t |-> "outbound", what |-> n.outq[k].no, id |-> <<n.boot, n.seq>>])
            /\ n' = [n EXCEPT !.outq = SubSeq(@, k + 1, Len(@)), !.seq = @ + 1, !.pc = "sent"]
       ELSE Send([t |-> "next"]) /\ n' = [n EXCEPT !.outq = <<>>, !.pc = "next", !.got = 1]

\* Mutant: a delegation's revocation is not looked up.
AnySerial(m, revoked) == "send" \in m.grant.perms
MessagePolicy(m, revoked) == "send" \in m.grant.perms /\ m.grant.serial \notin revoked

Entry(m) == [id |-> <<"msg", m.sender.issuer, m.seq>>, exp |-> MessageExpiry(m)]

\* deliver, up to the write: verified, allowed, not seen, and room for it.
CheckMessage(node, f, now) ==
    LET m == f.msg
        kept == IF Cardinality(node.seen) >= MaxList THEN Unexpired(node.seen, now) ELSE node.seen
        fresh == /\ node.cert # <<>> /\ MessageVerify(m, now) /\ MessagePolicy(m, node.rev) /\ ~Blocked
                 /\ m.grant.object \in sc.objects /\ \A e \in node.seen : e.id # Entry(m).id
        job == [k |-> "deliver", x |-> [entry |-> Entry(m), file |-> f, ok |-> FALSE], env |-> NoEnvelope]
    IN CASE fresh /\ HasRoom(kept) ->
              [node EXCEPT !.seen = kept \cup {Entry(m)}, !.now = now, !.pc = "commit", !.job = job]
         [] fresh -> [node EXCEPT !.seen = kept, !.pc = "file", !.job = job]
         [] OTHER -> [node EXCEPT !.pc = "file", !.job = job]

\* Recorded, then delivered: the object's queue may still be full.
Deliver ==
    /\ n.pc = "done" /\ n.job.k = "deliver" /\ UNCHANGED <<sc, tpm, gw, up, down>>
    /\ \/ /\ hist' = [TakesEffect(hist, n.job.x.entry.id) EXCEPT !.messages = @ \cup {n.job.x.file.msg}]
          /\ n' = [n EXCEPT !.pc = "file", !.job.x.ok = TRUE] /\ UNCHANGED left
       \/ Fault /\ n' = [n EXCEPT !.pc = "file"] /\ UNCHANGED hist

\* The message is filed; the next is asked for until one sync has had its fill.
FileInbound ==
    LET more == n.got < MaxInbound
        done == <<[t |-> "done", name |-> n.job.x.file.name, ok |-> n.job.x.ok]>>
    IN /\ n.pc = "file" /\ UNCHANGED <<sc, tpm, gw, down, left, hist>>
       /\ up' = up \o IF more THEN Append(done, [t |-> "next"]) ELSE done
       /\ n' = [n EXCEPT !.pc = IF more THEN "next" ELSE "idle", !.got = IF more THEN @ + 1 ELSE 0, !.job = NoJob]

-----------------------------------------------------------------------------
(* wait_answer: the first status, or blob of the kind awaited, ends the wait, *)
(* whichever request it answers.  Revocation lists are applied as they come.  *)

Awaited == [cert |-> {"status", "cert"}, get |-> {"status", "store"}, put |-> {"status"}, ask |-> {"status"},
            sent |-> {"status"}, import |-> {"status", "import"}, next |-> {"status", "inbound"}]

NoAnswer == [t |-> "status", ok |-> FALSE]

AfterAnswer(node, a) ==
    CASE node.pc = "cert" -> {Linked(node, IF a.t = "cert" THEN <<a.cert>> ELSE node.cert)}
      [] node.pc = "get" -> Plan(node, a)
      [] node.pc = "put" -> {IF a.ok THEN [node EXCEPT !.pc = "increment"] ELSE Abort(node)}
      [] node.pc = "sent" -> {[node EXCEPT !.pc = IF a.ok THEN "out" ELSE "idle"]}
      [] node.pc = "import" /\ a.t = "import" -> {CheckImport(node, a.cap, a.now)}
      [] node.pc = "next" /\ a.t = "inbound" -> {CheckMessage(node, a.file, a.now)}
      [] OTHER -> {[node EXCEPT !.pc = "idle", !.got = 0]}

\* Everything up to the answer is consumed; several answers may have come, and
\* the last of those read together counts.  A TPM that fails to unseal the key
\* leaves the store unusable.
WaitAnswer(i) ==
    LET a == down[i]
        revoked == UNION {down[j].rev : j \in {k \in 1..i : down[k].t = "cert"}}
    IN /\ n.pc \in DOMAIN Awaited /\ i \in DOMAIN down /\ a.t \in Awaited[n.pc]
       /\ \E r \in Merge(n.rev, revoked) :
            LET node == [n EXCEPT !.rev = r] IN
            \/ n' \in AfterAnswer(node, a) /\ UNCHANGED left
            \/ n.pc = "get" /\ a.t = "store" /\ tpm.nv # "absent" /\ Fault /\ n' = Failed(node, "unseal")
       /\ down' = SubSeq(down, i + 1, Len(down))
       /\ hist' = [hist EXCEPT !.mistook = @ \/ (n.pc = "put" /\ n.owed),
                               !.spilled = @ \/ (n.pc = "get" /\ n'.st = "Ready" /\ Spills([n EXCEPT !.rev = @ \cup revoked], a.env))]
       /\ UNCHANGED <<sc, tpm, gw, up>>

\* Nothing of this session is under way any more.
Lost == up = <<>> /\ down = <<>>
TimesOut == n' \in AfterAnswer([n EXCEPT !.owed = @ \/ ~Lost], NoAnswer) /\ UNCHANGED <<sc, tpm, gw, up, down, left, hist>>

\* Mutant: the wait for the store goes on until it is answered.
TimeoutButForStore == n.pc \in DOMAIN Awaited \ {"get"} /\ TimesOut

\* Five seconds without an answer, which may still come: the node then owes its
\* next wait an answer to another request.
Timeout == n.pc \in DOMAIN Awaited /\ TimesOut

-----------------------------------------------------------------------------
(* The gateway and the world around it. *)

Status(ok) == <<[t |-> "status", ok |-> ok]>>

\* handle_peer, and what it leaves on disk.
Handled(m) ==
    CASE m.t = "put" -> IF sc.store THEN [gw EXCEPT !.file = <<m.env>>, !.past = @ \cup {m.env}] ELSE gw
      [] m.t = "revoke" -> [gw EXCEPT !.revoked = @ \cup {m.serial}]
      [] m.t = "done" -> [gw EXCEPT !.inbox = SelectSeq(@, LAMBDA f : f.name # m.name)]
      [] m.t = "outbound" -> [gw EXCEPT !.outbox = Append(@, <<m.what, m.id>>)]
      [] OTHER -> gw

Answered(m) ==
    CASE m.t = "get" -> IF ~sc.store THEN Status(FALSE)
                        ELSE IF gw.file = <<>> THEN Status(TRUE) ELSE <<[t |-> "store", env |-> gw.file[1]]>>
      [] m.t = "put" -> Status(sc.store)
      [] m.t = "next" -> IF gw.inbox = <<>> THEN Status(TRUE)
                         ELSE <<[t |-> "inbound", file |-> Head(gw.inbox), now |-> gw.now]>>
      [] m.t = "import" -> <<[t |-> "import", cap |-> m.cap, now |-> gw.now]>>
      [] m.t = "done" -> <<>>
      [] OTHER -> Status(TRUE)

\* What the gateway says when its disk fails it: an inbox it cannot list is empty.
NotHandled(m) == IF m.t = "done" THEN <<>> ELSE Status(m.t = "next")

\* A disk that fails may have taken the file all the same.
HandlePeer ==
    LET m == Head(up) IN
    /\ up # <<>> /\ up' = Tail(up) /\ UNCHANGED <<sc, n, tpm, hist>>
    /\ \/ gw.session = "none" /\ UNCHANGED <<gw, down, left>>
       \/ gw.session = "refused" /\ down' = down \o Status(FALSE) /\ UNCHANGED <<gw, left>>
       \/ gw.session = "served" /\ gw' = Handled(m) /\ down' = down \o Answered(m) /\ UNCHANGED left
       \/ gw.session = "served" /\ Fault /\ gw' \in {gw, Handled(m)} /\ down' = down \o NotHandled(m)

\* The gateway restarts: its files stay, its session and what was under way go.
GatewayRestart ==
    /\ left.restarts > 0 /\ left' = [left EXCEPT !.restarts = @ - 1]
    /\ gw' = [gw EXCEPT !.session = "none"] /\ up' = <<>> /\ down' = <<>>
    /\ UNCHANGED <<sc, n, tpm, hist>>

\* The store file is put back from an older copy.
RestoreFile ==
    /\ left.rollbacks > 0 /\ left' = [left EXCEPT !.rollbacks = @ - 1]
    /\ \E env \in gw.past : gw.file # <<env>> /\ gw' = [gw EXCEPT !.file = <<env>>]
    /\ UNCHANGED <<sc, n, tpm, up, down, hist>>

\* A courier drops a peer's next messages in the inbox; copies come too.
Courier ==
    LET k == Len(sc.mail) - left.drops + 1
        bag == sc.mail[k]
    IN /\ left.drops > 0 /\ left' = [left EXCEPT !.drops = @ - 1]
       /\ \E g \in hist.exports :
            gw' = [gw EXCEPT !.inbox = @ \o [i \in DOMAIN bag |-> [name |-> <<k, i>>, msg |-> PeerMessage(bag[i][1], g, bag[i][2])]]]
       /\ UNCHANGED <<sc, n, tpm, up, down, hist>>

Tick == gw.now < sc.clock /\ gw' = [gw EXCEPT !.now = @ + 1] /\ UNCHANGED <<sc, n, tpm, up, down, left, hist>>

\* The machine stops anywhere and boots its next chain.
Reboot ==
    /\ n.boot < Len(sc.chains) /\ n' = Booted(n.boot + 1) /\ down' = <<>>
    /\ hist' = [hist EXCEPT !.boot = Never]
    /\ UNCHANGED <<sc, tpm, gw, up, left>>

-----------------------------------------------------------------------------
Init ==
    /\ sc \in Scenarios /\ n = Booted(1) /\ left = sc.left /\ up = <<>> /\ down = <<>>
    /\ tpm = [nv |-> sc.nv, ctr |-> 5]
    /\ gw = [file |-> <<>>, past |-> {}, revoked |-> sc.revoked, inbox |-> <<>>, outbox |-> <<>>, now |-> 0,
             session |-> "none"]
    /\ hist = [boot |-> Never, sealed |-> Never, messages |-> {}, exports |-> {}, revoked |-> {}, keys |-> 0,
               spilled |-> FALSE, mistook |-> FALSE]

NodeStep ==
    \/ LoadStart \/ CatchUp \/ Write \/ Increment \/ RevokeCommitted \/ TellGateway \/ StoreChanged \/ Grant
    \/ Outbound \/ Deliver \/ FileInbound
    \/ \E i \in DOMAIN down : WaitAnswer(i)

Next ==
    \/ NodeStep \/ HandlePeer \/ LinkSecure
    \/ Reset \/ DefineFails \/ Migrate \/ Export \/ Revoke \/ Import \/ Sync \/ LeaveOut \/ AgentPosts
    \/ Courier \/ Timeout \/ GatewayRestart \/ RestoreFile \/ Tick \/ Reboot

\* The console's loops are finite and its waits time out; the gateway need do
\* nothing.
Spec == Init /\ [][Next]_vars /\ WF_vars(NodeStep) /\ WF_vars(Timeout)

-----------------------------------------------------------------------------
(* Properties. *)

\* The kernel's store is in a state of its State enum with a key once it is
\* Ready, its lists stay within their capacity, and the counter never runs
\* ahead of the envelope it would commit.
StoreTypeOK ==
    /\ n.st \in {"NotLoaded", "Off", "Ready", "Failed"} /\ (n.st = "Ready" => n.key > 0 /\ n.ctr <= tpm.ctr)
    /\ Fits(n) /\ n.got \in 0..MaxInbound
    /\ tpm.nv \in {"absent", "defined", "set"} /\ tpm.ctr \in Nat
    /\ Len(gw.file) <= 1 /\ gw.now \in 0..MaxNow
    /\ \A b \in DOMAIN left : left[b] \in Nat

\* The store answers for what it recorded: no restored list overflowed (the
\* console then says "replay list full while restoring the sealed store"), and
\* no confirmation of another request was taken for that of a write.
Answerable == ~hist.spilled /\ ~hist.mistook

\* peer.rs deliver and mark_imported: "at most once".  A message reaches its
\* object, and a portable capability is granted, at most once per boot (what
\* link/src/peer.rs promises without a store), and at most once with the store
\* open in all the boots of that store's life, whatever copies couriers drop and
\* wherever the machine crashes.
AtMostOnce ==
    /\ \A i \in DOMAIN hist.boot : hist.boot[i] <= 1
    /\ Answerable => \A i \in DOMAIN hist.sealed : hist.sealed[i] <= 1

\* peer.rs revoke, "committed to the sealed store": with the store open no
\* message is ever again delivered under that delegation, in this boot or a
\* later one.  (With the store off, the gateway's list is all there is.)
RevokedNeverDelivers ==
    [][hist'.sealed # hist.sealed /\ n.pc = "done" /\ n.job.k = "deliver" /\ Answerable
         => n.job.x.file.msg.grant.serial \notin hist.revoked]_vars

\* store.rs acceptance_blocked: nothing is accepted unless the store is open, or
\* off and not required by policy.
AcceptsOnlyWithStore ==
    [][hist'.boot # hist.boot /\ n.pc = "done" => n.st = "Ready" \/ (n.st = "Off" /\ ~sc.required)]_vars

\* store.rs load: on a TPM that holds a store counter the store is never off,
\* whatever chain was booted, unless the TPM could not be read; a counter that
\* is only defined does not count.
OffMeansNoCounter ==
    [][n.pc \in {"load", "get"} /\ n'.st = "Off" /\ n'.pc = "idle" /\ n'.boot = n.boot
         => tpm.nv # "set" \/ ~TpmReady \/ n'.why = "unreadable"]_vars

\* store.rs:169-171, "A TPM that already holds a store counter belongs to a
\* machine that keeps one: booting without it [...] must not reopen replay": what
\* a store recorded does not take effect again on a boot whose TPM works.
ReplayStaysClosed ==
    [][\A i \in DOMAIN hist.boot : hist'.boot[i] > hist.boot[i] /\ hist.sealed[i] > 0 => ~TpmReady]_vars

\* store.rs load, open: as long as nobody put back an old file, the store is
\* never reported rolled back, ahead of its counter or inconsistent with it,
\* wherever the machine crashed; and an answer that it is missing is true unless
\* the gateway's disk failed or the answer was to another request.
NoFalseAlarm ==
    [][n.pc = "get" /\ n'.pc = "idle" /\ n'.boot = n.boot /\ n'.st = "Failed"
         /\ left.rollbacks = sc.left.rollbacks /\ ~hist.mistook =>
        /\ n'.why \notin {"RolledBack", "Invalid", "inconsistent"}
        /\ n'.why = "missing" /\ down' # down /\ ~n.owed /\ left.faults = sc.left.faults => gw.past = {}]_vars

\* link/peer.rs verify: a message is delivered only under a delegation this
\* node made, to the very node whose kernel key signed the message, however the
\* certificates presented are put together.
DeliveredToTheDelegate ==
    \A m \in hist.messages :
        m.grant \in hist.exports /\ m.sender.issuer[1] = m.grant.audience /\ "send" \in m.grant.perms

\* gateway/src/store.rs:4-5, "Writes are durable before CDK is told they
\* succeeded, because CDK then commits the TPM counter": the counter is
\* incremented only for an envelope the gateway has stored.
StoredBeforeCounted == n.pc = "increment" => n.job.env \in gw.past

\* peer.rs sync: what an agent queued on a proxy leaves this node at most once,
\* although the gateway's confirmation may be late or lost.
SentAtMostOnce == \A i, j \in DOMAIN gw.outbox : i # j => gw.outbox[i][1] # gw.outbox[j][1] /\ gw.outbox[i][2] # gw.outbox[j][2]

\* Messages and portable capabilities take effect at most once on the receiving
\* side and leave the sending side at most once, whatever crashes, is repeated
\* or confirmed late.
DeliveredOnce == StoreTypeOK /\ AtMostOnce /\ SentAtMostOnce

\* What is delivered was delegated by this node to the sender, under a delegation
\* not revoked, and recorded where a reboot finds it when there is such a place.
DeliveryIsAuthorised ==
    []DeliveredToTheDelegate /\ RevokedNeverDelivers /\ AcceptsOnlyWithStore /\ OffMeansNoCounter

\* peer.rs wait_answer: whatever the gateway does, every console job ends.
JobsEnd == []<>(n.pc = "idle")
====
