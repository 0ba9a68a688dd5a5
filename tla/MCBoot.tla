------------------------------- MODULE MCBoot --------------------------------
(* Boot media for TLC: archives in every order, loaders with every kind of    *)
(* kernel file, and TPMs that answer late, wrongly or not at all.             *)
EXTENDS Boot

Names == <<"init", "operator.pub", "policy">>

K(elf, ro) == [there |-> TRUE, size |-> 1, elf |-> elf, ro |-> ro, rw |-> "file"]
NoKernel == [K(FALSE, "none") EXCEPT !.there = FALSE, !.size = 0]
EmptyKernel == [K(FALSE, "none") EXCEPT !.size = 0]
Kernels == {NoKernel, EmptyKernel, K(TRUE, "kernel"), K(TRUE, "other"), K(FALSE, "junk")}

File(n, v) == [kind |-> "file", name |-> n, data |-> [t |-> "data", v |-> v]]
Line(n, v) == [n |-> n, d |-> [t |-> "data", v |-> v]]
Man(canonical, lines) == [t |-> "manifest", canonical |-> canonical, lines |-> lines]
M1 == Man(TRUE, <<Line("init", 1)>>)
M2 == Man(TRUE, <<Line("init", 1), Line("policy", 1)>>)
Unsorted == Man(TRUE, <<Line("policy", 1), Line("init", 1)>>)
ManFile(m) == [kind |-> "file", name |-> MANIFEST_FILE, data |-> m]
SigFile(key, m) == [kind |-> "file", name |-> SIGNATURE_FILE, data |-> [t |-> "sig", key |-> key, over |-> m]]
Bad == [kind |-> "bad", name |-> "init", data |-> [t |-> "data", v |-> 1]]
Directory == [kind |-> "other", name |-> "init", data |-> [t |-> "data", v |-> 2]]

Library == {File("init", 1), File("init", 2), File("policy", 1), File("operator.pub", 1),
            ManFile(M1), SigFile("release", M1), ManFile(M2), Bad}
MoreArchives == {<<ManFile(m), SigFile(k, m)>> \o fs : m \in {M2, Unsorted, [M1 EXCEPT !.canonical = FALSE]},
                     k \in {"release", "other"},
                     fs \in {<<File("init", 1), File("policy", 1)>>, <<File("policy", 1), Directory, File("init", 1)>>,
                             <<File("init", 1), File("policy", 1), File("policy", 1)>>, <<File("init", 1)>>}}
Signed == <<ManFile(M1), SigFile("release", M1)>>
Archives == MoreArchives \cup UNION {[1..n -> Library] : n \in 0..3}
            \cup {Signed \o s : s \in [1..3 -> Library]} \cup {s \o Signed : s \in [1..3 -> Library]}

Rd(archive) == [there |-> TRUE, size |-> 1, entries |-> archive]
NoRd == [there |-> FALSE, size |-> 0, entries |-> <<>>]
EmptyRd == [there |-> TRUE, size |-> 0, entries |-> <<>>]
GoodRd == Rd(<<ManFile(M1), SigFile("release", M1), File("init", 1)>>)

Source(k, rd, config) == [kernel |-> k, ramdisk |-> rd, config |-> config]
Nothing == Source(NoKernel, NoRd, "none")
NoPin == [k |-> "none", d |-> NoKernel]
Pins == {NoPin, [k |-> "malformed", d |-> NoKernel], [k |-> "digest", d |-> K(TRUE, "kernel")]}

Machine(disk, net, pin, key, tcg, tis, extended) ==
    [disk |-> disk, net |-> net, pin |-> pin, key |-> key, tcg |-> tcg, tis |-> tis, extended |-> extended]

ArchiveMedia ==
    {Machine(Source(K(TRUE, "kernel"), Rd(a), "none"), Nothing, NoPin, "release", FALSE, FALSE, FALSE) : a \in Archives}
LoaderMedia ==
    {Machine(Source(kd, rd, c), Source(kn_, GoodRd, "none"), pin, "release", TRUE, FALSE, FALSE) :
        kd \in Kernels, kn_ \in Kernels, rd \in {NoRd, EmptyRd, GoodRd}, c \in {"none", "empty"}, pin \in Pins}
KeyMedia ==
    {Machine(Source(K(TRUE, "kernel"), rd, "none"), Nothing, NoPin, key, FALSE, FALSE, FALSE) :
        rd \in {NoRd, GoodRd, Rd(<<File("policy", 1), File("operator.pub", 2)>>)}, key \in {"none", "malformed"}}
TpmMedia ==
    {Machine(Source(K(TRUE, "kernel"), GoodRd, "none"), Nothing, NoPin, "release", ~extended, TRUE, extended) :
        extended \in BOOLEAN}

AllMedia == ArchiveMedia \cup LoaderMedia \cup KeyMedia \cup TpmMedia
====
