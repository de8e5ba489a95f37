----------------------------- MODULE VirtDetect -----------------------------
(***************************************************************************)
(* Detection of the virtualization a service runs under                    *)
(* (philharmonic-virt-detect/src/lib.rs, Mode::Any as the public function  *)
(* calls it).  Probes run in a fixed order and the first hit is the        *)
(* answer: containers before virtual machines, DMI before the hypervisor's *)
(* own files and CPUID.  A file that is absent or denied is no evidence,   *)
(* any other error ends the detection with "none".                         *)
(* A DMI field is the set of the marks the code searches it for, another   *)
(* file one of the texts the code tells apart.                             *)
(***************************************************************************)
EXTENDS Naturals, Sequences, SequencesExt

CONSTANTS MaxFiles   \* bound: files there are to read

VARIABLES files,     \* what the readable files hold, by path; CPUID is one of them
          probe,     \* position in the order of the probes
          answer     \* "none" until a probe hits

vars == <<files, probe, answer>>

ContainerIds == {"lxc", "lxc-libvirt", "systemd-nspawn", "docker", "podman", "rkt", "wsl",
                 "proot", "pouch", "openvz"}

VmIds == {"kvm", "qemu", "bochs", "xen", "uml", "vmware", "oracle", "microsoft", "zvm",
          "parallels", "bhyve", "qnx", "acrn", "powervm", "apple", "sre", "google", "amazon"}

DmiPaths == <<"sys_vendor", "product_name", "bios_vendor", "chassis_vendor", "chassis_asset_tag">>

ContainerProbes == <<"environ", "container", "container-manager", "dockerenv", "containerenv",
                     "osrelease", "vz", "bc">>

DeviceTreeProbes == <<"dt_hypervisor", "dt_ibm_partition", "dt_hmc_managed", "dt_qemu_graphic",
                      "dt_compatible">>

\* Mutant: CPUID is asked before DMI.
VmProbesCpuidFirst ==
    <<"cpuid">> \o DmiPaths \o <<"xen_capabilities", "hypervisor_type">> \o DeviceTreeProbes
    \o <<"sysinfo", "cpuinfo">>

VmProbes ==
    DmiPaths \o <<"xen_capabilities", "hypervisor_type", "cpuid">> \o DeviceTreeProbes
    \o <<"sysinfo", "cpuinfo">>

\* Mutant: virtual machines are looked for first.
ProbesOutermostFirst == VmProbes \o ContainerProbes

\* detect: first the container the process is in, then what that runs on.
Probes == ContainerProbes \o VmProbes

\* Marks that are searched for in this field only, and count together with another field's.
PairedMarks(path) ==
    CASE path = "sys_vendor" -> {{"Oracle Corporation"}, {"Microsoft Corporation"}}
      [] path = "product_name" -> {{"Virtual Machine"}}
      [] path = "chassis_vendor" -> {{"Oracle"}}
      [] OTHER -> {}

\* What a file can hold; a path that is only tested for existence holds "exists".
Texts ==
    [path \in ToSet(Probes) |->
        CASE path = "environ" -> {<<"docker">>, <<"oci">>, <<"oci", "podman">>}
          [] path \in {"container", "container-manager"} -> {"lxc", "oci"}
          [] path = "osrelease" -> {"linux", "wsl"}
          [] path \in ToSet(DmiPaths) ->
                 {{"VirtualBox"}, {"VMware"}, {"Amazon EC2"}, {"KVM", "QEMU"}, {"QEMU"}, {"Xen"}}
                 \cup PairedMarks(path)
          [] path = "xen_capabilities" -> {"control_d", "guest"}
          [] path = "hypervisor_type" -> {"xen", "other"}
          [] path = "cpuid" -> {"unknown", "kvm", "microsoft"}
          [] path = "dt_hypervisor" -> {"kvm", "other"}
          [] path = "dt_compatible" -> {"qemu,pseries", "other"}
          [] path = "sysinfo" -> {"z/VM", "other program", "no program"}
          [] path = "cpuinfo" -> {"User Mode Linux", "other"}
          [] OTHER -> {"exists"}]

Contents == UNION {{<<path, text>> : text \in Texts[path]} : path \in ToSet(Probes)}

Text(path) == IF path \in DOMAIN files THEN files[path] ELSE "absent"
Exists(path) == path \in DOMAIN files

----------------------------------------------------------------------------
(* Containers *)

\* The generic name "oci" is none of the managers.
FromManager(value) == IF value \in ContainerIds THEN value ELSE "none"

\* The first entry that names a known manager.
FromEnviron(entries) ==
    LET hits == SelectSeq(entries, LAMBDA value : FromManager(value) # "none")
    IN  IF hits = <<>> THEN "none" ELSE FromManager(Head(hits))

ContainerHit(path) ==
    CASE ~Exists("bc") /\ path = "bc" -> IF Exists("vz") THEN "openvz" ELSE "none"
      [] ~Exists(path) -> "none"
      [] path = "environ" -> FromEnviron(Text(path))
      [] path \in {"container", "container-manager"} -> FromManager(Text(path))
      [] path = "dockerenv" -> "docker"
      [] path = "containerenv" -> "podman"
      [] path = "osrelease" /\ Text(path) = "wsl" -> "wsl"
      [] OTHER -> "none"

----------------------------------------------------------------------------
(* Virtual machines *)

\* DMI rules in order: marks that any field may hold, marks that two given fields must.
Anywhere(marks, id) == [any |-> marks, all |-> {}, id |-> id]
Both(pairs, id) == [any |-> {}, all |-> pairs, id |-> id]

DmiRules ==
    <<Anywhere({"KVM"}, "kvm"), Anywhere({"Amazon EC2"}, "amazon"), Anywhere({"Google"}, "google"),
      Anywhere({"VMware", "VMW"}, "vmware"), Anywhere({"innotek GmbH", "VirtualBox"}, "oracle"),
      Both({<<"sys_vendor", "Oracle Corporation">>, <<"chassis_vendor", "Oracle">>}, "oracle"),
      Anywhere({"Xen"}, "xen"), Anywhere({"Bochs"}, "bochs"), Anywhere({"Parallels"}, "parallels"),
      Anywhere({"BHYVE"}, "bhyve"),
      Both({<<"sys_vendor", "Microsoft Corporation">>, <<"product_name", "Virtual Machine">>},
           "microsoft"),
      Anywhere({"Apple Virtualization", "Apple VZ"}, "apple"), Anywhere({"QEMU"}, "qemu")>>

Field(path) == IF Exists(path) THEN files[path] ELSE {}

Matches(rule) ==
    \/ \E path \in ToSet(DmiPaths) : Field(path) \cap rule.any # {}
    \/ rule.any = {} /\ \A pair \in rule.all : pair[2] \in Field(pair[1])

DmiHit ==
    LET i == SelectInSeq(DmiRules, Matches) IN IF i = 0 THEN "none" ELSE DmiRules[i].id

\* The domain that controls a Xen host is no hit here, but the next probe is still asked.
XenHit(path) ==
    IF Text(path) = (IF path = "xen_capabilities" THEN "guest" ELSE "xen") THEN "xen" ELSE "none"

\* A vendor that CPUID or the device tree names, when the code knows it.
NamedHit(path) == IF Text(path) \in VmIds THEN Text(path) ELSE "none"

DeviceTreeHit(path) ==
    CASE path = "dt_hypervisor" -> NamedHit(path)
      [] path = "dt_qemu_graphic" /\ Exists("dt_ibm_partition") /\ Exists("dt_hmc_managed")
            /\ ~Exists("dt_qemu_graphic") -> "powervm"
      [] path = "dt_compatible" /\ Text(path) = "qemu,pseries" -> "qemu"
      [] OTHER -> "none"

\* DMI is matched when its last field has been read.
VmHit(path) ==
    CASE path = Last(DmiPaths) -> DmiHit
      [] path \in {"xen_capabilities", "hypervisor_type"} -> XenHit(path)
      [] path = "cpuid" -> NamedHit(path)
      [] path \in ToSet(DeviceTreeProbes) -> DeviceTreeHit(path)
      [] path = "sysinfo" -> CASE Text(path) = "z/VM" -> "zvm"
                               [] Text(path) = "other program" -> "kvm"
                               [] OTHER -> "none"
      [] path = "cpuinfo" /\ Text(path) = "User Mode Linux" -> "uml"
      [] OTHER -> "none"

----------------------------------------------------------------------------
Detecting == probe <= Len(Probes)

Probe ==
    /\ Detecting
    /\ LET path == Probes[probe] IN
           answer' = IF path \in ToSet(ContainerProbes) THEN ContainerHit(path) ELSE VmHit(path)
    /\ probe' = IF answer' = "none" THEN probe + 1 ELSE Len(Probes) + 1
    /\ UNCHANGED files

\* An error other than not found and permission denied; CPUID is no file.
ReadError ==
    /\ Detecting
    /\ Probes[probe] # "cpuid"
    /\ probe' = Len(Probes) + 1
    /\ UNCHANGED <<files, answer>>

Init ==
    /\ \E readable \in {ToSet(some) : some \in [1 .. MaxFiles -> Contents]} :
           /\ \A a, b \in readable : a[1] = b[1] => a = b
           /\ files = [path \in {content[1] : content \in readable} |->
                         (CHOOSE content \in readable : content[1] = path)[2]]
    /\ probe = 1
    /\ answer = "none"

Next == Probe \/ ReadError

Spec == Init /\ [][Next]_vars

----------------------------------------------------------------------------
\* A service in a container on a virtual machine reports the container: a machine's name
\* is the answer only when no readable file speaks for a container.
InnermostReported ==
    answer \in VmIds => \A path \in ToSet(ContainerProbes) : ContainerHit(path) = "none"

\* What DMI has a name for, by any of its rules.
DmiNames == {DmiRules[i].id : i \in {k \in 1 .. Len(DmiRules) : Matches(DmiRules[k])}}

Products == {"amazon", "google", "vmware", "oracle"}

\* A machine that DMI has a name for gets one of those names, whatever CPUID, Xen's own files
\* or the device tree say.  Of several, the emulator's is given last, and Xen's not when DMI
\* also names a product that runs on it.  (KVM's own mark goes before every product's, so that
\* a product on a machine that also says KVM is reported as kvm.)
ProductNamed ==
    answer \in VmIds /\ DmiNames # {} =>
        /\ answer \in DmiNames
        /\ answer = "qemu" => DmiNames = {"qemu"}
        /\ answer = "xen" => DmiNames \cap Products = {}
=============================================================================
