-------------------------------- MODULE Boot ---------------------------------
(* From the boot media to a running kernel: the UEFI loader, measured and     *)
(* verified boot, the ramdisk, the replay of the measurements into the TPM,   *)
(* and the TPM operations of a running kernel.                                *)
(*                                                                            *)
(* A digest is named by what it digests.  A kernel file has read-only and     *)
(* writable segments; a ramdisk is a sequence of archive entries.             *)
EXTENDS Tpm, TLC

CONSTANTS Media,     \* boot media, compiled-in keys and TPMs to explore
          FileNames, \* ramdisk file names, in the order of their bytes
          OperatorKeys, PolicyFile, \* names the kernel reads by itself
          MaxOps     \* TPM operations after boot

VARIABLES sc,  \* what this machine boots from
          ld,  \* loader: stage, boot mode, kernel and ramdisk loaded
          kn   \* kernel: stage, archive, registers, verdict, files read

vars == <<sc, ld, kn, drv, dev, t, op, ak, lost>>

-----------------------------------------------------------------------------
(* The loader. *)

\* The pinned digest; a malformed one matches nothing.
PinnedMatches(mode, file) == sc.pin.k = "none" \/ (sc.pin.k = "digest" /\ sc.pin.d = file)

\* PCR extension through the firmware; it may be unavailable or fail.
LoaderMeasures(pcr, file, ok) ==
    t' = IF sc.tcg /\ ok THEN [t EXCEPT !.pcr[pcr] = Append(@, file)] ELSE t

\* load_kernel: measured as loaded, then compared, then parsed.
LoadKernel(mode, ok, missing, differs) ==
    LET file == sc[mode].kernel
    IN /\ file.there /\ file.size > 0 => LoaderMeasures(11, file, ok)
       /\ ~(file.there /\ file.size > 0) => UNCHANGED t
       /\ ld' = [ld EXCEPT !.mode = mode, !.kernel = file,
                  !.stage = CASE ~file.there -> missing
                              [] file.size = 0 -> "panic"
                              [] ~PinnedMatches(mode, file) -> differs
                              [] ~file.elf -> "panic"
                              [] OTHER -> "ramdisk"]
       /\ UNCHANGED <<sc, kn, drv, dev, op, ak, lost>>

LoadKernelFromDisk(ok) == ld.stage = "start" /\ LoadKernel("disk", ok, "tftp", "refused")
LoadKernelFromTftp(ok) == ld.stage = "tftp" /\ LoadKernel("net", ok, "panic", "panic")

\* Configuration and ramdisk come from where the kernel came from; a file of no
\* bytes stops the loader.
LoadRamdisk(ok) ==
    LET rd == sc[ld.mode].ramdisk
        dead == sc[ld.mode].config = "empty" \/ (rd.there /\ rd.size = 0)
    IN /\ ld.stage = "ramdisk"
       /\ ld' = [ld EXCEPT !.stage = IF dead THEN "panic" ELSE "booted", !.ramdisk = rd]
       /\ IF rd.there /\ ~dead THEN LoaderMeasures(12, rd.entries, ok) ELSE UNCHANGED t
       /\ UNCHANGED <<sc, kn, drv, dev, op, ak, lost>>

-----------------------------------------------------------------------------
(* The ramdisk and its manifest. *)

MANIFEST_FILE == "boot.manifest"
SIGNATURE_FILE == "boot.manifest.sig"

\* Regular files up to the first entry that does not parse.
Parse(archive) ==
    LET bad == {i \in DOMAIN archive : archive[i].kind = "bad"}
        end == CHOOSE i \in 1..Len(archive) + 1 :
                  (i = Len(archive) + 1 \/ i \in bad) /\ \A j \in bad : i <= j
    IN SelectSeq(SubSeq(archive, 1, end - 1), LAMBDA e : e.kind = "file")

NoFile == [kind |-> "none", name |-> "none", data |-> [t |-> "none"]]
Find(files, name) ==
    LET found == SelectSeq(files, LAMBDA f : f.name = name)
    IN IF found = <<>> THEN NoFile ELSE Head(found)

NameRank(n) == CHOOSE i \in DOMAIN FileNames : FileNames[i] = n
SortedAndUnique(lines) ==
    \A i \in 1..Len(lines) - 1 : NameRank(lines[i].n) < NameRank(lines[i + 1].n)

\* One file of the archive against the lines.
CheckFile(lines, acc, f) ==
    LET at == {i \in DOMAIN lines : lines[i].n = f.name}
    IN IF acc.err # "none" \/ f.name \in {MANIFEST_FILE, SIGNATURE_FILE} THEN acc
       ELSE IF at = {} \/ at \subseteq acc.seen THEN [acc EXCEPT !.err = "Unlisted"]
       ELSE IF \E i \in at : lines[i].d # f.data THEN [acc EXCEPT !.err = "Mismatch"]
       ELSE [acc EXCEPT !.seen = @ \cup at]

CheckManifest(m, files) ==
    LET acc == FoldLeft(LAMBDA a, f : CheckFile(m.lines, a, f), [err |-> "none", seen |-> {}], files)
    IN CASE ~m.canonical \/ ~SortedAndUnique(m.lines) -> "Malformed"
         [] acc.err # "none" -> acc.err
         [] acc.seen # DOMAIN m.lines -> "Missing"
         [] OTHER -> "ok"

\* The manifest and its signature are the first files of those names.
Verify(archive) ==
    LET files == Parse(archive)
        m == Find(files, MANIFEST_FILE).data
        sig == Find(files, SIGNATURE_FILE).data
    IN CASE m.t # "manifest" -> "no manifest"
         [] sig.t # "sig" -> "no signature"
         [] sig.key # "release" \/ sig.over # m -> "bad signature"
         [] OTHER -> CheckManifest(m, files)

-----------------------------------------------------------------------------
(* Measured and verified boot. *)

REG_KERNEL == 0
REG_RAMDISK == 1
REG_VERDICT == 2

\* The read-only segments of an ELF image; zero for anything else.
KernelMeasurement(image) == IF image.elf THEN <<"ro", image.ro>> ELSE <<"zero">>
\* The image in memory: its writable segments have been relocated and written.
ImageInMemory == [ld.kernel EXCEPT !.rw = "running"]

Entries(rd) == IF rd.there THEN rd.entries ELSE <<>>

VerdictOf(archive) ==
    CASE sc.key = "none" -> [v |-> "Unverified", id |-> "none"]
      [] sc.key = "malformed" -> [v |-> "Failed", id |-> "none"]
      [] OTHER -> [v |-> IF Verify(archive) = "ok" THEN "Verified" ELSE "Failed", id |-> "release"]

ExpectedEvents(kernel, archive, verdict) ==
    <<<<REG_KERNEL, KernelMeasurement(kernel)>>, <<REG_RAMDISK, archive>>, <<REG_VERDICT, verdict>>>>

Registers(events) ==
    [r \in 0..2 |-> LET mine == SelectSeq(events, LAMBDA e : e[1] = r)
                    IN [i \in DOMAIN mine |-> mine[i][2]]]

\* The file visible to the kernel; nothing once the ramdisk is locked.
Archive == IF kn.locked THEN <<>> ELSE kn.ramdisk

NewKernel == [stage |-> "off", ramdisk |-> <<>>, events |-> <<>>, verdict |-> "Unverified",
              locked |-> FALSE, read |-> {}, note |-> "none"]

EnterKernel ==
    /\ ld.stage = "booted" /\ kn.stage = "off"
    /\ kn' = [kn EXCEPT !.stage = "entered", !.ramdisk = Entries(ld.ramdisk)]
    /\ UNCHANGED <<sc, ld, drv, dev, t, op, ak, lost>>

Lockdown(verdict) == verdict = "Failed"

MeasureAndVerify ==
    LET verdict == VerdictOf(Archive)
    IN /\ kn.stage = "entered"
       /\ kn' = [kn EXCEPT !.stage = "verified", !.verdict = verdict.v,
                  !.events = ExpectedEvents(ImageInMemory, Archive, verdict),
                  !.locked = Lockdown(verdict.v)]
       /\ UNCHANGED <<sc, ld, drv, dev, t, op, ak, lost>>

Found(names) == {f \in {Find(Parse(Archive), n) : n \in names} : f # NoFile}

\* Operator keys, then the boot policy (refused in lockdown).
LoadOperators ==
    /\ kn.stage = "verified"
    /\ kn' = [kn EXCEPT !.stage = "operators",
               !.read = @ \cup {f \in Range(Parse(Archive)) : f.name \in OperatorKeys}]
    /\ UNCHANGED <<sc, ld, drv, dev, t, op, ak, lost>>
LoadBootPolicy ==
    /\ kn.stage = "operators"
    /\ kn' = [kn EXCEPT !.stage = "commit", !.read = @ \cup (IF kn.locked THEN {} ELSE Found({PolicyFile}))]
    /\ UNCHANGED <<sc, ld, drv, dev, t, op, ak, lost>>

\* A program is spawned or a pinned key is looked up.
ReadFile(n) ==
    /\ kn.stage = "running" /\ Found({n}) # {}
    /\ kn' = [kn EXCEPT !.read = @ \cup Found({n})]
    /\ UNCHANGED <<sc, ld, drv, dev, t, op, ak, lost>>

-----------------------------------------------------------------------------
(* tpm_commit. *)

Stage(s) == kn' = [kn EXCEPT !.stage = s] /\ UNCHANGED <<sc, ld>>

TpmCommit ==
    /\ kn.stage = "commit" /\ op.name = "none"
    /\ \/ ~sc.tis /\ Stage("running") /\ UNCHANGED tpmVars
       \/ sc.tis /\ Begin("replay", Replay(kn.events)) /\ UNCHANGED <<sc, ld, kn>>

\* Mutant: the PCRs are not compared with the registers.
AnyPcrs == TRUE
\* PCRs 8-10 were at zero before the replay.
PcrsMatch == \A r \in 0..2 : t.pcr[CDK_PCRS[r + 1]] = Registers(kn.events)[r]

LoaderNote ==
    IF t.pcr[12] = <<>> THEN "no measuring loader"
    ELSE IF t.pcr[12] = Registers(kn.events)[REG_RAMDISK] THEN "ramdisk matches" ELSE "differs"

Compare ==
    /\ op.name = "replay" /\ ~Busy
    /\ \/ /\ op.ok /\ PcrsMatch /\ Start("ak", op.n, NoHandle, CreateAk(op.n))
          /\ kn' = [kn EXCEPT !.note = LoaderNote] /\ UNCHANGED <<sc, ld>>
       \/ /\ ~(op.ok /\ PcrsMatch) /\ op' = [op EXCEPT !.name = "none"]
          /\ Stage("running") /\ UNCHANGED <<drv, dev, t, ak, lost>>

AkCreated ==
    /\ op.name = "ak" /\ ~Busy /\ Stage("running")
    /\ ak' = IF op.ok THEN <<"ak", op.n>> ELSE NoHandle
    /\ op' = [op EXCEPT !.name = "none"] /\ UNCHANGED <<drv, dev, t, lost>>

-----------------------------------------------------------------------------

Init ==
    /\ sc \in Media
    /\ ld = [stage |-> "start", mode |-> "disk", kernel |-> sc.disk.kernel, ramdisk |-> sc.disk.ramdisk]
    /\ kn = NewKernel
    /\ TpmInit([p \in PCRS |-> IF p = 8 /\ sc.extended THEN <<"before">> ELSE <<>>])

TpmOperation ==
    /\ kn.stage = "running" /\ op.n < MaxOps + 1
    /\ BeginSeal \/ \E b \in BOOLEAN : BeginUnseal(b) \/ BeginAttestation(b)

KernelStep ==
    \/ EnterKernel \/ MeasureAndVerify \/ LoadOperators \/ LoadBootPolicy
    \/ TpmCommit \/ Compare \/ AkCreated
    \/ /\ DriverStep \/ Dropped \/ \E b \in BOOLEAN : Endorsed(b) \/ Challenged(b)
       /\ UNCHANGED <<sc, ld, kn>>

Next ==
    \/ KernelStep
    \/ \E ok \in BOOLEAN : LoadKernelFromDisk(ok) \/ LoadKernelFromTftp(ok) \/ LoadRamdisk(ok)
    \/ \E i \in DOMAIN FileNames : ReadFile(FileNames[i])
    \/ (DeviceStep \/ TpmOperation) /\ UNCHANGED <<sc, ld, kn>>

\* The kernel's own steps are one thread that always goes on.
Spec == Init /\ [][Next]_vars /\ WF_vars(KernelStep)

-----------------------------------------------------------------------------
(* Properties. *)

\* Stages of the loader and the kernel, and the driver's types.
BootTypeOK ==
    /\ ld.stage \in {"start", "tftp", "ramdisk", "booted", "refused", "panic"}
    /\ kn.stage \in {"off", "entered", "verified", "operators", "commit", "running"}
    /\ kn.verdict \in {"Unverified", "Verified", "Failed"} /\ TpmTypeOK

\* A loader built for one kernel never starts another, from disk or network,
\* and when the firmware measures, PCR 11 holds the kernel that runs and PCR
\* 12 the ramdisk it received; "Ramdisk must load from same source, or not at
\* all" (uefi-loader main.rs:143).
RunsTheKernelItMeasured ==
    kn.stage # "off" =>
        /\ sc.pin.k # "none" => sc.pin.k = "digest" /\ sc.pin.d = ld.kernel
        /\ \E mode \in {"disk", "net"} : ld.kernel = sc[mode].kernel /\ ld.ramdisk = sc[mode].ramdisk
        /\ t.pcr[11] \in {<<>>, <<ld.kernel>>}
        /\ t.pcr[12] \in {<<>>, <<kn.ramdisk>>}

\* Whatever the archive holds - repeated or unlisted files, entries that do not
\* parse, several manifests - a kernel with a release key reads only files that
\* a manifest signed with it lists, with the contents it lists (boot.rs,
\* check_manifest, initrd.rs).
ReadsOnlyListedFiles ==
    sc.key # "none" =>
        \A f \in kn.read : \E i \in DOMAIN kn.ramdisk :
            /\ kn.ramdisk[i].kind = "file" /\ kn.ramdisk[i].data.t = "manifest"
            /\ \E j \in DOMAIN kn.ramdisk : kn.ramdisk[j].data = [t |-> "sig", key |-> "release", over |-> kn.ramdisk[i].data]
            /\ [n |-> f.name, d |-> f.data] \in Range(kn.ramdisk[i].data.lines)

\* A verified archive is exactly its manifest: every listed file is there once
\* and nothing else is visible (check_manifest against its definition).
VerifiedIsExact ==
    kn.verdict = "Verified" =>
        LET files == SelectSeq(Parse(kn.ramdisk), LAMBDA f : f.name \notin {MANIFEST_FILE, SIGNATURE_FILE})
            m == Find(Parse(kn.ramdisk), MANIFEST_FILE).data
        IN /\ {[n |-> files[i].name, d |-> files[i].data] : i \in DOMAIN files} = Range(m.lines)
           /\ Len(files) = Len(m.lines)

\* While the kernel holds an attestation key, PCRs 8-10 are what the gateway
\* expects for the kernel and ramdisk files: every event once, in order, on
\* PCRs nobody extended before, in spite of retries and timeouts (tpm_commit,
\* expected_registers).
KeyOnlyForThisBoot ==
    ak # NoHandle =>
        \A r \in 0..2 : t.pcr[CDK_PCRS[r + 1]] =
            Registers(ExpectedEvents(ld.kernel, Entries(ld.ramdisk), VerdictOf(Entries(ld.ramdisk))))[r]

\* What runs, what it reads and what the TPM vouches for are one and the same
\* boot: the kernel and ramdisk the loader took, the files the manifest lists,
\* the registers the gateway expects.
BootIsMeasured ==
    BootTypeOK /\ RunsTheKernelItMeasured /\ ReadsOnlyListedFiles /\ VerifiedIsExact /\ KeyOnlyForThisBoot
====
