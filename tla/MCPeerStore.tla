---------------------------- MODULE MCPeerStore ----------------------------
(* A node with peers b and c.  Senders holds a good certificate of          *)
(* each and one that b's gateway wrote in c's name; each scenario explores    *)
(* one kind of trouble.                                                       *)
EXTENDS PeerStore

CONSTANTS here, b, c, root

AuthorityOf(x) == NodeAuthority(x, Key("gateway", x), MaxNow)
CertOf(x) == Certify(AuthorityOf(x), Key(x, 1), MaxNow)
MisissuedCert == [Certify(AuthorityOf(b), Key(b, 1), MaxNow) EXCEPT !.name = c]
MCSenders == {CertOf(b), CertOf(c), MisissuedCert}

Offer(x, serial, until) == [PortableCap(CertOf(x), "obj", {"send"}, here, serial) EXCEPT !.exp = until]
MCOffers == {Offer(b, 1, 0), Offer(b, 2, MaxNow)}
MCTrusted == {<<b, "obj", "send">>}

Good(q) == <<CertOf(b), q>>
Budget == [faults |-> 0, restarts |-> 0, rollbacks |-> 0, drops |-> 1, posts |-> 0, at |-> 1, links |-> 2]
Base == [chains |-> <<"c1", "c1">>, required |-> FALSE, store |-> TRUE, nv |-> "absent", clock |-> 0, revoked |-> {},
         objects |-> {"obj"}, posts |-> 0, left |-> Budget, mail |-> << <<Good(1), Good(1)>> >>,
         script |-> << <<"reset">>, <<"export", b, {"send"}>>, <<"sync">>, <<"sync">> >>]

Sync2 == << <<"export", b, {"send"}>>, <<"sync">>, <<"sync">> >>
Twice == [Base EXCEPT !.mail = << <<Good(1)>>, <<Good(1)>> >>, !.left.drops = 2]
Once == [Base EXCEPT !.script = << <<"reset">>, <<"export", b, {"send"}>>, <<"sync">> >>]
Ageing == [Base EXCEPT !.clock = MaxNow, !.chains = <<"c1">>, !.left.links = 1]
Revoking == [Base EXCEPT !.script = << <<"reset">>, <<"export", b, {"send"}>>, <<"revoke", 1>>, <<"sync">> >>,
                         !.mail = << <<Good(1)>> >>]
Importing == [Base EXCEPT !.mail = <<>>, !.left.drops = 0,
                !.script = << <<"reset">>, <<"import", Offer(b, 1, 0)>>, <<"import", Offer(b, 1, 0)>> >>]
Filling == [Importing EXCEPT !.clock = MaxNow, !.chains = <<"c1">>, !.left.links = 1,
                !.script = << <<"reset">>, <<"import", Offer(b, 1, 0)>>, <<"import", Offer(b, 2, MaxNow)>>,
                              <<"import", Offer(b, 1, 0)>> >>]
Posting == [Importing EXCEPT !.chains = <<"no tpm">>, !.posts = 2, !.left.posts = 2,
                !.script = << <<"import", Offer(b, 2, MaxNow)>>, <<"sync">>, <<"sync">> >>]
Migrating == [Base EXCEPT !.script = << <<"reset">>, <<"export", b, {"send"}>>, <<"migrate", {"c1", "c2"}>>,
                                        <<"migrate", {"c2"}>>, <<"sync">> >>, !.chains = <<"c1", "c2", "c1">>]
Misissued == [Base EXCEPT !.mail = << << <<MisissuedCert, 1>>, Good(1) >> >>,
                          !.script = << <<"reset">>, <<"export", c, {"send"}>>, <<"export", b, {"read"}>>, <<"sync">> >>]

\* Each scenario adds one kind of trouble to crashes between any two steps.
MCScenarios == {
  [Twice EXCEPT !.nv = "defined"],
  [Once EXCEPT !.left.faults = 1], [Base EXCEPT !.left.faults = 1, !.chains = <<"c1">>, !.left.links = 1],
  [Base EXCEPT !.left.restarts = 1, !.mail = << <<Good(1)>> >>],
  [Base EXCEPT !.left.rollbacks = 1],
  [Base EXCEPT !.clock = 1],
  [Ageing EXCEPT !.mail = << <<Good(1), Good(2), Good(3)>> >>],
  [Ageing EXCEPT !.mail = << <<Good(1)>>, <<Good(1)>> >>, !.left.drops = 2],
  Revoking, [Revoking EXCEPT !.left.faults = 1, !.chains = <<"c1">>, !.left.links = 1],
  [Revoking EXCEPT !.left.faults = 1, !.revoked = {8, 9}, !.script = << <<"reset">>, <<"revoke", 1>> >>],
  Filling, [Importing EXCEPT !.left.faults = 1],
  [Posting EXCEPT !.left.faults = 1, !.left.restarts = 1],
  Migrating, Misissued,
  [Base EXCEPT !.chains = <<"c1", "bios">>, !.left.faults = 1, !.mail = << <<Good(1)>> >>],
  [Base EXCEPT !.chains = <<"bios", "bios">>, !.script = Sync2],
  [Base EXCEPT !.chains = <<"c1", "no tpm">>],
  [Base EXCEPT !.chains = <<"c1", "no tpm">>, !.required = TRUE],
  [Base EXCEPT !.chains = <<"no tpm", "no tpm">>, !.script = Sync2],
  [Base EXCEPT !.store = FALSE]
}

\* A machine with a store, then a boot that measures nothing and a TPM that fails once.
OffScenarios == {[Base EXCEPT !.chains = <<"c1", "bios">>, !.left.faults = 1]}

\* A gateway that answers after the node stopped waiting.
LateScenarios == {Revoking}
=============================================================================
