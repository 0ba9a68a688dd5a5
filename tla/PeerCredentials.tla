--------------------------- MODULE PeerCredentials ---------------------------
(* Node certificates, portable capabilities and peer messages: who signed     *)
(* what, and the checks a node makes before it believes them.                 *)
(*                                                                            *)
(* A signature is the key that made it over exactly the record that carries   *)
(* it; encodings are canonical, so a changed record is signed by nobody.      *)
EXTENDS Integers, Sequences, FiniteSets

CONSTANTS ROOT, \* the registry root key pinned in every ramdisk
          Me    \* this node's name

Key(owner, boot) == <<owner, boot>>

NodeAuthority(node, key, notAfter) ==
    [node |-> node, key |-> key, root |-> ROOT, exp |-> notAfter, by |-> ROOT]

AuthorityVerify(a) == a.root = ROOT /\ a.by = ROOT

Least(a, b) == IF a < b THEN a ELSE b

\* Registry::certify: a certificate never outlives its authority.
Certify(authority, issuer, until) ==
    [name |-> authority.node, issuer |-> issuer, registry |-> authority.root,
     exp |-> Least(until, authority.exp), auth |-> authority, by |-> authority.key]

CertVerify(c) ==
    /\ c.registry = ROOT /\ c.auth.node = c.name /\ c.exp <= c.auth.exp
    /\ AuthorityVerify(c.auth) /\ c.by = c.auth.key

\* prepare_export and sign_export: the grant expires with the certificate.
PortableCap(cert, object, perms, audience, serial) ==
    [cert |-> cert, object |-> object, perms |-> perms, audience |-> audience,
     serial |-> serial, exp |-> cert.exp, by |-> cert.issuer]

PortableVerify(p, now) ==
    /\ CertVerify(p.cert) /\ p.exp <= p.cert.exp /\ now <= p.exp
    /\ p.cert.name # Me /\ p.audience = Me /\ p.perms # {} /\ p.by = p.cert.issuer

PeerMessage(sender, grant, seq) == [sender |-> sender, grant |-> grant, seq |-> seq, by |-> sender.issuer]

\* The delegation names the node that may use it.
GrantedToSender(m) == m.grant.audience = m.sender.name

MessageVerify(m, now) ==
    /\ CertVerify(m.sender) /\ now <= m.sender.exp
    /\ CertVerify(m.grant.cert) /\ m.grant.cert.name = Me /\ GrantedToSender(m)
    /\ m.grant.exp <= m.grant.cert.exp /\ now <= m.grant.exp
    /\ m.grant.by = m.grant.cert.issuer /\ m.by = m.sender.issuer

\* How long a record of this message or capability matters.
MessageExpiry(m) == Least(m.sender.exp, m.grant.exp)
====
