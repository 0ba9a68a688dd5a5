----------------------------- MODULE Attestation -----------------------------
(* The gateway's attestor: what it asks of CDK after a handshake, and the     *)
(* order in which endorsement key, quote, attestation and proof decide        *)
(* whether the session is served.  A machine is a record of what is true of   *)
(* it: its measured registers, its TPM's keys, and the EK certificate in it.  *)
EXTENDS Naturals, Sequences

NoValue == "none"

NoQuote == [st |-> "none", ak |-> NoValue, regs |-> NoValue, fw |-> NoValue, loader |-> NoValue]
NoEnrollment == [ak |-> NoValue, fw |-> NoValue]

\* The attestor of a fresh gateway: nothing was asked yet.
AttestorNew(enrolled) ==
    [status |-> "Pending", nonce |-> 0, quote |-> NoQuote, chunks |-> 0, ek |-> "none",
     credential |-> 0, proven |-> "none", attestOk |-> "none", waiting |-> NoEnrollment,
     regs |-> NoValue, enrolled |-> enrolled]

\* The machine the last session enrolled stays; everything else starts over.
Request(at, n) == [AttestorNew(at.enrolled) EXCEPT !.nonce = n]

RequestMessage(c, n) == [t |-> "request", nonce |-> n, prove |-> c.ca, certify |-> c.certify]

TpmRequired(c) == c.tpm \/ c.ca
Serving(c, at) == IF c.expect \/ TpmRequired(c) THEN at.status = "Trusted" ELSE at.status # "Rejected"

-----------------------------------------------------------------------------
(* Endorsement. *)

\* The certificate names the TPM's key, is an EK certificate, and chains.  A
\* certified key may still be one that no credential can be made for.
CheckEk(cert) == CASE cert = "ek" -> "ok" [] cert = "ek-unusable" -> "unusable" [] OTHER -> "bad"

\* Chunks arrive in order; the last one brings the certificate to judge.
OnEkChunk(at, m) ==
    IF at.ek # "none" THEN at
    ELSE IF m.at # 1 /\ m.at # at.chunks + 1 THEN [at EXCEPT !.ek = "bad"]
    ELSE IF m.at < m.total THEN [at EXCEPT !.chunks = m.at]
    ELSE [at EXCEPT !.chunks = m.at, !.ek = CheckEk(m.cert)]

Enroll(at, seen, disk) ==
    IF disk THEN [at EXCEPT !.enrolled = seen] ELSE at

\* The outcome, once everything required is in.
Finish(c, at, disk) ==
    LET endorsed == ~c.ca \/ at.attestOk = "no" \/ at.proven = "ok"
        undecided == c.ca /\ at.attestOk = "yes" /\ at.proven = "none" /\ at.credential # 0
        ok == at.attestOk = "yes" /\ endorsed
        enrolls == at.waiting # NoEnrollment /\ ok
        written == IF enrolls THEN Enroll(at, at.waiting, disk) ELSE at
    IN IF at.status # "Pending" \/ at.attestOk = "none" \/ undecided THEN at
       ELSE [written EXCEPT !.waiting = NoEnrollment,
                            !.status = IF ok /\ (enrolls => disk) THEN "Trusted" ELSE "Rejected"]

\* The second proof is decided by the first.
OnProof(c, at, m, disk) ==
    IF at.proven # "none" THEN at
    ELSE Finish(c, [at EXCEPT !.proven = IF at.credential # 0 /\ m.secret = at.credential THEN "ok" ELSE "bad"], disk)

-----------------------------------------------------------------------------
(* Quote and attestation. *)

\* With --tpm-ca a good quote is answered with a challenge for the quoted key,
\* or the proof has failed if there is no key or no challenge can be made for it.
OnQuote(c, at, m) ==
    LET q == IF m.nonce = at.nonce THEN [m.q EXCEPT !.st = "ok"] ELSE [NoQuote EXCEPT !.st = "bad"]
        seen == [at EXCEPT !.quote = q]
    IN IF at.quote.st # "none" THEN at
       ELSE IF ~c.ca \/ q.st = "bad" \/ at.ek = "bad" THEN seen
       ELSE IF at.ek \in {"none", "unusable"} THEN [seen EXCEPT !.proven = "bad"]
       ELSE [seen EXCEPT !.credential = at.nonce]

Challenges(c, at, m) ==
    LET a == OnQuote(c, at, m)
    IN IF a.credential # at.credential THEN <<[t |-> "challenge", secret |-> a.credential, ak |-> a.quote.ak]>> ELSE <<>>

Matches(e, seen) == e = seen

\* Mutant: enroll a first machine at once.
NeverWaits(c) == FALSE
\* With manufacturer CAs a first enrollment waits for the endorsement proof.
EnrollsAfterProof(c) == c.ca

\* Quote against report, loader, and the enrolled machine.
CheckTpm(c, at, regs, disk) ==
    LET q == at.quote
        seen == [ak |-> q.ak, fw |-> q.fw]
        no == [ok |-> FALSE, at |-> at]
        yes(a) == [ok |-> TRUE, at |-> a]
    IN IF ~TpmRequired(c) THEN yes(at)
       ELSE IF q.st # "ok" \/ q.regs # regs THEN no
       ELSE IF c.loader /\ q.loader # "build" THEN no
       ELSE IF ~c.tpm THEN yes(at)
       ELSE IF at.enrolled # NoEnrollment THEN [no EXCEPT !.ok = Matches(at.enrolled, seen)]
       ELSE IF EnrollsAfterProof(c) THEN yes([at EXCEPT !.waiting = seen])
       ELSE [ok |-> disk, at |-> Enroll(at, seen, disk)]

\* An attestation for another nonce rejects the session.  The quote is checked,
\* and a first machine enrolled, whatever became of the registers.
OnMessage(c, at, m, disk) ==
    LET checked == CheckTpm(c, at, m.regs, disk)
        ok == (c.expect => m.regs = "build") /\ checked.ok
    IN IF at.attestOk # "none" \/ at.status # "Pending" THEN at
       ELSE IF m.nonce # at.nonce THEN [at EXCEPT !.status = "Rejected"]
       ELSE Finish(c, [checked.at EXCEPT !.regs = m.regs, !.attestOk = IF ok THEN "yes" ELSE "no"], disk)
=============================================================================
