-------------------------------- MODULE Kmod --------------------------------
(***************************************************************************)
(* initramfs/pid1/do_modprobe.go and initramfs/kmod/modprobe.go: the task  *)
(* that loads kernel modules walks /sys and loads, for every device, the   *)
(* modules whose alias matches, each after the modules it depends on.  The *)
(* recursion of loadPath is an explicit stack.                             *)
(***************************************************************************)
EXTENDS Sequences, Integers

CONSTANTS Modules,   \* names of kernel modules
          Devices,   \* modalias files under /sys, in the order of WalkDir
          Matches,   \* Matches[alias]: modules with an alias that matches it
          Builtin,   \* modules that are part of the kernel that runs
          NoDevice,  \* modules whose init may find no device
          Preloads,  \* modules that may be in the kernel when init starts
          WalkOrder  \* modules in the order refresh meets their files

\* The image may hold a file of what its kernel has built in.
ASSUME BuiltinAssumption == Builtin \subseteq Modules

VARIABLES
    deps,     \* deps[m]: Depends of Info(m), a sequence
    image,    \* modules whose file is in the initramfs
    kpc,      \* "idle", "walk", "alias", "load" or "returned"
    kerr,     \* what loadDeviceModules returned: "none", "nil" or "error"
    device,   \* position in Devices
    seen,     \* aliases that were looked at
    alias,    \* position in WalkOrder of the alias that LoadAlias looks at
    kstack,   \* calls of loadPath: module, next dependency, whether one failed
    loaded,   \* the package's set of loaded modules
    kernel,   \* modules the running kernel holds
    nodev     \* modules whose init found no device

kmodVars == <<deps, image, kpc, kerr, device, seen, alias, kstack, loaded, kernel, nodev>>

DepSet(m) == {deps[m][i] : i \in 1..Len(deps[m])}

\* A wrong refresh: it knows aliases of modules that have no file.
KnownAll(m) == TRUE

\* refresh: the aliases of the modules found are listed, in the order of the walk
Known(m) == m \in image

\* The kernel has no module without its dependencies.
KernelClosed == \A m \in kernel \cup Builtin : DepSet(m) \subseteq kernel \cup Builtin

KmodInit ==
    /\ kpc = "idle"
    /\ kerr = "none"
    /\ device = 1
    /\ seen = {}
    /\ alias = 1
    /\ kstack = <<>>
    /\ loaded = {}
    /\ kernel \in Preloads /\ KernelClosed
    /\ nodev = {}

KmodStart ==
    /\ kpc = "idle"
    /\ kpc' = "walk"
    /\ UNCHANGED <<deps, image, kerr, device, seen, alias, kstack, loaded, kernel, nodev>>

-----------------------------------------------------------------------------
\* WalkDir comes to the next modalias file
WalkDevice ==
    /\ kpc = "walk" /\ device <= Len(Devices)
    /\ IF Devices[device] \in seen
       THEN /\ device' = device + 1
            /\ UNCHANGED <<kpc, seen, alias>>
       ELSE /\ seen' = seen \cup {Devices[device]}
            /\ alias' = 1
            /\ kpc' = "alias"
            /\ UNCHANGED device
    /\ UNCHANGED <<deps, image, kerr, kstack, loaded, kernel, nodev>>

WalkEnd ==
    /\ kpc = "walk" /\ device > Len(Devices)
    /\ kpc' = "returned" /\ kerr' = "nil"
    /\ UNCHANGED <<deps, image, device, seen, alias, kstack, loaded, kernel, nodev>>

\* LoadAlias: the next entry of modalias; Load returns at once if it is loaded
LoadAlias ==
    /\ kpc = "alias" /\ alias <= Len(WalkOrder)
    /\ LET m == WalkOrder[alias]
       IN IF Known(m) /\ m \in Matches[Devices[device]] /\ m \notin loaded
          THEN /\ kstack' = <<[module |-> m, next |-> 1, failed |-> FALSE]>>
               /\ kpc' = "load"
               /\ UNCHANGED alias
          ELSE /\ alias' = alias + 1
               /\ UNCHANGED <<kstack, kpc>>
    /\ UNCHANGED <<deps, image, kerr, device, seen, loaded, kernel, nodev>>

LoadAliasEnd ==
    /\ kpc = "alias" /\ alias > Len(WalkOrder)
    /\ device' = device + 1
    /\ kpc' = "walk"
    /\ UNCHANGED <<deps, image, kerr, seen, alias, kstack, loaded, kernel, nodev>>

KTop == kstack[Len(kstack)]
KBelow == SubSeq(kstack, 1, Len(kstack) - 1)

\* The call after the next dependency, and whether that one failed
Later(call, fail) ==
    [module |-> call.module, next |-> call.next + 1, failed |-> call.failed \/ fail]

\* loadPath: Load of the next dependency
LoadDep ==
    /\ kpc = "load" /\ KTop.next <= Len(deps[KTop.module])
    /\ LET dep == deps[KTop.module][KTop.next]
           found == dep \in image
       IN kstack' = IF dep \in loaded \/ ~found
                    THEN Append(KBelow, Later(KTop, dep \notin loaded))
                    ELSE Append(kstack, [module |-> dep, next |-> 1, failed |-> FALSE])
    /\ UNCHANGED <<deps, image, kpc, kerr, device, seen, alias, loaded, kernel, nodev>>

\* finit_module of the running kernel.  EBUSY makes loadPath call it again.
\* A module that is built in defines symbols or drivers a second time.
FinitModule(m) ==
    IF m \in kernel THEN {"EEXIST"}
    ELSE IF m \in Builtin THEN {"EEXIST", "error"}
    ELSE IF ~(DepSet(m) \subseteq kernel \cup Builtin) THEN {"ENOENT"}
    ELSE {"ok", "error"} \cup (IF m \in NoDevice THEN {"ENODEV"} ELSE {})

\* loadPath returns e to the call of Load in the caller's loop
LoadReturn(e) ==
    IF Len(kstack) = 1
    THEN /\ kstack' = <<>>
         /\ IF e = "nil"
            THEN /\ alias' = alias + 1
                 /\ kpc' = "alias"
                 /\ UNCHANGED kerr
            ELSE /\ kpc' = "returned" /\ kerr' = "error"
                 /\ UNCHANGED alias
    ELSE /\ kstack' = [KBelow EXCEPT ![Len(KBelow)] = Later(@, e # "nil")]
         /\ UNCHANGED <<alias, kpc, kerr>>

\* A wrong loadPath: dependencies that failed count as loaded in any case.
LoadModuleTrusting ==
    /\ kpc = "load" /\ KTop.next > Len(deps[KTop.module])
    /\ \E e \in FinitModule(KTop.module) :
          /\ loaded' = loaded \cup DepSet(KTop.module)
                         \cup (IF e \in {"ok", "EEXIST", "ENODEV"} THEN {KTop.module} ELSE {})
          /\ LoadReturn(IF e \in {"ok", "EEXIST", "ENODEV"} THEN "nil" ELSE "error")
          /\ kernel' = IF e = "ok" THEN kernel \cup {KTop.module} ELSE kernel
          /\ nodev' = IF e = "ENODEV" THEN nodev \cup {KTop.module} ELSE nodev
    /\ UNCHANGED <<deps, image, device, seen>>

\* loadPath, after its loop
LoadModule ==
    /\ kpc = "load" /\ KTop.next > Len(deps[KTop.module])
    /\ \E e \in FinitModule(KTop.module) :
          /\ IF e \in {"ok", "EEXIST", "ENODEV"}
             THEN /\ loaded' = loaded \cup {KTop.module}
                                 \cup (IF KTop.failed THEN DepSet(KTop.module) ELSE {})
                  /\ LoadReturn("nil")
             ELSE /\ UNCHANGED loaded
                  /\ LoadReturn("error")
          /\ kernel' = IF e = "ok" THEN kernel \cup {KTop.module} ELSE kernel
          /\ nodev' = IF e = "ENODEV" THEN nodev \cup {KTop.module} ELSE nodev
    /\ UNCHANGED <<deps, image, device, seen>>

KmodStep == KmodStart \/ WalkDevice \/ WalkEnd \/ LoadAlias \/ LoadAliasEnd \/ LoadDep \/ LoadModule

-----------------------------------------------------------------------------
(* Properties *)

\* What the package takes for loaded is in the kernel, or its init reported
\* that there is no such device: also where loadPath marks dependencies it
\* could not load because the module itself was accepted, which happens when
\* the kernel refuses the file of a module that it has built in.
LoadedInKernel == loaded \subseteq kernel \cup Builtin \cup nodev
=============================================================================
