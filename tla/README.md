# TLA+ verification of vm-to-quadlet

vm-to-quadlet converts a KubeVirt `VirtualMachine` into Podman Quadlet units, so
that the VM runs on one host under systemd and Podman, without a cluster. The
converter is a short-lived, sequential program; what it writes is not. The units
are a small distributed system of services that start, crash, restart and share
volumes, and the init containers' shell scripts provision disks across crashes
and later conversions. The project models both: the pipeline as it rewrites the
pod and emits the units, and the emitted units and scripts as they run.

Paths below are relative to the repository. "post_render" is
`pkg/standalone/post_render.go`, "convert.go" the one in
`internal/third_party/kube/quadlet/`.

## Inventory of the system

| Part | State | Operations | Interacts with |
|---|---|---|---|
| Command line, `cmd/vm-to-quadlet/main.go` | none | read the VM, run steps 3 to 7, `writeFiles` or `writeTAR` | everything; the output directory outlives it |
| Step 3, `pre_render.go` | the VM being prepared, stubs of its claims | validation, defaults, `forcePasstBinding`, claim stubs | KubeVirt's defaults; step 4 reads the VM |
| Step 4, `pkg/kubevirt` | none | `RenderLaunchManifest` | a KubeVirt library |
| Step 5, `post_render.go` | the pod: containers, init containers, volumes | ten functions run in a fixed order, each finding by name or position what the earlier ones left | reads PCI devices and IOMMU groups of the host |
| Step 6, `pkg/quadlet` and `kube/quadlet` | the list of unit files | `Convert`: volumes, inits, containers, pod, network | vendored Podman constants and parser |
| Step 7, `post_convert.go` | the text of the units | `PublishPort=` and `PATH` lines inserted before a section header | relies on the order of groups that step 6 produced |
| Unit file parser | groups and lines of one file | `Set`, `Add`, `NewUnitFile`, quoting and splitting | used by steps 6 and 7 |
| Disk provisioning scripts (text in post_render 517-601) | `disk.img`, `disk.img.partial` | create or import, grow, publish by rename | kernel, qemu-img, next boots, next conversions |
| Generated services | state of each unit, start jobs, the tmpfs volumes of the infra container | start, stop, crash, restart | systemd, Podman, the Quadlet generator |

What is hard here:

* **Crashes and partial failure in the scripts.** The only test that decides
  whether a disk exists is `[ ! -f "$DISK" ]`; everything depends on what a killed
  run can leave behind.
* **Interleavings of services.** Restart after a crash, loss of the infra
  container (and with it of the tmpfs volumes that inits had prepared, although
  the inits remain "active (exited)"), stops in the middle of a start.
* **Order and position.** "The first container is compute" is assumed by the
  converter (convert.go 137), and eight functions add to the lists, at either end.
* **Two languages with one graph.** Names of files are computed in one place and
  references in another, and lines are inserted into rendered text where a group
  is expected to end.
* **A loop that changes what it iterates over** (`forcePasstBinding`), and calls
  around it whose order decides what they copy: the UID from the namespace, the
  status from the interfaces, the stubs before the defaults.
* **Output that is not atomic and never cleared**: `os.WriteFile` on the live unit
  directory, in which the units of several conversions may end up side by side.
* **One name in two languages**: the directory of the guest's sockets, the domain
  of the health check and of the monitor all follow from the namespace of the VM.

What makes each part correct:

* scripts: a disk is whole or absent, is created once, only grows, never under a
  running machine, and a boot that succeeded has a disk of the requested size;
* services: compute runs only in volumes that all inits have prepared, inits run
  alone and in order, no init is repeated in volumes it has prepared, and the VM
  comes back after failures;
* step 5: compute stays first, names and mounts stay consistent, nothing rendered
  is lost, and each file compute expects is made by one init that runs before it;
* steps 6 and 7: references have files, inserted lines land in the right group,
  tmpfs volumes are held by the infra container, the health check asks for the
  guest, and the graph the generator derives is the intended one;
* step 3: step 4 finds every claim of the volumes that get a stub, without a cluster,
  and what it renders is whole; after the passes each interface is on a pod network, no
  network of the VM is lost, and the status names the interfaces the guest gets;
* output: success means whole files, compute never comes without its inits, what was
  complete never dangles, and a mixture of conversions still is a pod whose present
  inits run before compute.

## Modules

| Module | Models | Uses |
|---|---|---|
| `PersistentDisk` | abstract: what a disk promises to its machine | |
| `DiskImage` | the two scripts of `injectDataVolumeInitContainers`, and what surrounds them | implements `PersistentDisk` |
| `MCDiskImage` | sizes for TLC | `DiskImage` |
| `DiskImageProofs` | theorems about `DiskImage` | `DiskImage`, `TLAPS` |
| `PodUnits` | the generated services under systemd, those left by earlier conversions included | |
| `MCPodUnits` | what the stale inits know, for TLC | `PodUnits` |
| `PodUnitsProofs` | theorems about `PodUnits` | `PodUnits`, `TLAPS` |
| `Enumerations` | loops over lists as expressions: sorted sets, selections, concatenations | |
| `EnumerationLemmas` | theorems about `Enumerations` and about concatenation | `Enumerations`, `TLAPS` |
| `StandalonePod` | step 5, `AdaptForStandalone` | extends `Enumerations` |
| `StandalonePodProofs` | theorems about `StandalonePod` | `StandalonePod`, `EnumerationLemmas` |
| `QuadletConvert` | steps 6 and 7, and the generator's graph | extends `StandalonePod`, instantiates `PodUnits` |
| `QuadletConvertProofs` | theorems about `QuadletConvert` | `QuadletConvert`, `StandalonePodProofs` |
| `ForcePasst` | `forcePasstBinding` of step 3 | extends `Enumerations` |
| `ForcePasstProofs` | theorems about `ForcePasst` | `ForcePasst`, `EnumerationLemmas` |
| `PreRender` | step 3, `PrepareForRendering`, and the lookups of step 4 | extends `ForcePasst` |
| `PreRenderProofs` | theorems about `PreRender` | `PreRender`, `ForcePasstProofs` |
| `OutputDir` | `writeFiles` over several conversions into one directory | extends `Enumerations`, instantiates `PodUnits` |
| `OutputDirProofs` | theorems about `OutputDir` | `OutputDir`, `EnumerationLemmas` |

They form one argument. `StandalonePod` and `QuadletConvert` are one behaviour
from the rendered pod to the written units, and `GraphIsPodUnits`, which is proved, says
that the dependencies, restart policies and exit policy in those units are exactly the
operators `Requires`, `BindsTo`, `After`, `Wants`, `RestartsOnFailure` and
`ExitPolicy` of `PodUnits`. `MixtureIsPodUnits` of `OutputDir` says the same of the
dependencies in a directory that several conversions have written, with the inits
of earlier ones as the stale inits of `PodUnits`. `PodUnits` is then about what these
services do, and its `InitsRunAlone` and `ComputeIsPrepared` are the reason why, in
`DiskImage`, compute starts only when the init is "done" and no init of the present
conversion runs beside it. That an init of an *earlier* conversion may run beside
compute is a finding, and outside what `DiskImage` assumes.

### DiskImage and PersistentDisk

`at` is the line of the script that comes next, or how the run ended
(`done` is "active (exited)"); `run` is the script the shell read and `installed`
the one the unit directory holds, which differ once the VM has been converted
again. Each line that reads or writes a file is an action (`Clean` the `rm -f`,
`Test` the `[ ! -f ]`, `Find`, `Convert`/`Converted` the start and the end of
`qemu-img convert`, `Enlarge`, `Create`/`Created`, `Check`, `Publish` the `mv`,
`Measure` the else branch, `Leave` the trap). `Fail` is `set -e` on a command that
fails, `RemoveFails` a scratch file that the first line or the trap cannot remove (the
shell then exits with an error, and leaves it), `Kill` a death without trap at any line. Around them `StartVM`, `StopVM`,
`GuestWrite`, `StopPod`, and the converter: `Reconvert` with any size or source,
`Truncate` for the window in which `os.WriteFile` has emptied the file. One disk
is modelled, as disks share no file.

Files are their size and what they hold (`torn` while being written); of qemu-img
it is assumed that success means the size asked for and that a raw resize is one
`ftruncate`. Data that a host crash loses from the page cache is not modelled: the
scripts never sync, and no promise about it is made anywhere in the repository.

`PersistentDisk` states the promise in two variables. The mapping is the disk file
itself and "is compute running". Its constant `BootNeedsDisk` is TRUE for whole
scripts only; with truncated scripts, which the run allows, compute can start before
the disk exists (see findings), and the rest of the promise holds all the same.

### PodUnits

Unit 0 is the pod service, then the inits in pod order, compute, the other
containers, and the stale inits. `st` is the state of a unit, `jobs` the waiting start
jobs, `prepared` the inits whose work is in the present tmpfs volumes, `wanted` whether
the user wants the pod up. `Requires` is what `Convert` writes; `BindsTo` and `Wants`
what `handlePod` and `ConvertPod` of the generator add. A stale init is one that an
earlier conversion wrote and the present one does not make: its unit is still there,
joins the pod and is wanted by compute; `Knows` gives the inits it was ordered after,
any of those that are there; and no unit of the present conversion waits for it.
systemd is external and modelled from its manual: a start job pulls in requirements
and wants (`PulledIn`), takes its turn when the units it is ordered after have finished
(`Turn`), fails as a dependency without a restart (`DependencyFailed`), and stop jobs
run in reverse (`Stopped`). `PodUp` is `podman pod create --replace`, which gives fresh
volumes.

A container can end in two ways, `Crash` and `Exit`, and so can the infra container
(`InfraGone`), for `Restart=on-failure` decides by the status: after a failure the unit
is started again, after status 0, as when the guest powers off, it is left inactive
("finished"). Users start and stop the pod service, not a single container.

### StandalonePod

Each function of step 5 that changes containers, mounts or volumes is an action, in the
order of `AdaptForStandalone`: proxies, host devices, disks, cleanup, directories, passt
patcher, persistent state, readiness probe, environment. `Rendered` is what step 4
returns, an external: compute first with a mount for each volume and the VM's own probe,
perhaps a hook sidecar, a log sidecar as an init container with restart policy Always,
an ordinary init container. Mounts do not hide each other's directories: that a mount
lies below another one of the same container (post_render 176-177) is not modelled. `vm` also holds what step 5 reads of the host: the devices
bound to vfio-pci, each with an IOMMU group or none that can be read. A container is its
name, its mounts, its restart policy ("always" is what KubeVirt gives an init container
that never ends), the files its script makes, the socket it dials, its probe and its
environment; a mount is a volume, a path, a mode and perhaps a subpath. Left out are
annotations, sysctls, image names, resources and security contexts, which no other part
depends on.

### QuadletConvert

A unit is a file, its groups in order of creation, and its lines. One action per
part of `Convert` and per fixup of step 7. The textual insertion
`insertBeforeSection` is modelled by what it does to a rendered file: the lines end
up in whichever group precedes the header. An environment value that does not fit a
unit goes to a companion file, which is written last and referred to by name; a
probe becomes the one health check a unit can have. The last section reads the written
units as the generator does.

### ForcePasst and PreRender

`ForcePasst` has one action per pass of the loops; `Attach` and `Rename` are the two
outcomes of the search for a network of the interface's name. A VM that asks for none
has no interface, and the loops no pass.

`PreRender` has one action per call of `PrepareForRendering`, in order: `Validate` or
`Refuse`, `DefaultNamespace`, `StubPVCs` (of the claims and of the DataVolumes),
`SetDefaults` or `DefaultsFail` (one of KubeVirt's three functions returns an error),
`ForcePasstBinding` (all of `ForcePasst`, as one stage), `SetUID`,
`PopulateInterfaceStatus`; then `Render`, which is step 4 as far as step 3 prepares it:
a claim is looked up in the cache by namespace and name. A VM is its namespace, its
volumes (a claim, a DataVolume, a claim in one of the fields that step 3 does not read,
which are `ephemeral` and `memoryDump`, a kind that needs the API, or one that needs
nothing of either sort, such as a container disk or the secret of a cloudInit volume),
the volumes its disks name, and whether the template, CPU and memory are sound; a VM
read from a file has no UID. KubeVirt's defaults are external, and are what adds a disk
for a volume without one. Filesystems, which a volume may have in place of a disk, and
warnings, which only print, are left out.

### OutputDir

One directory and a sequence of conversions, each of any shape: any set of disks, with
or without a network unit of its own. A disk converted under another kind (`init-disk-`,
`import-disk-`) has another file and counts as another disk. `FilesOf` is the set of
files that `Convert` emits and `Turn` their order (`Upcoming` is the one to be written
next), `Awaits` the services a unit requires and `Mentions` the other files it refers to;
`QuadletConvert` has these in full detail, here they are what the directory can be short
of. A file is absent, torn or the whole of one conversion.
`Open` and `Write` are the two halves of `os.WriteFile`; `Fail` and `Die` may happen at
either. The last section computes the services of the directory: the inits of the last
conversion, compute, and the inits no conversion makes any more. The scripts of other
inits than those of disks behave like these and are left out, and so are file modes, as
the units run scripts with `/bin/sh`.

## Runs

| Run | Config | Question, and what it shows | Distinct states |
|---|---|---|---|
| disk | `MCDiskImage.cfg` | every kill, failing command and later conversion, with scripts that may be read truncated: the disk invariants, the two action properties and the refinement hold, and every run of the script ends | 37,008 |
| disk_missing | `MCDiskImageMissing.cfg` | violation: compute starts without a disk | |
| units | `MCPodUnits.cfg` | faults, clean exits, stops and restarts in every order, with stale inits: compute is prepared, inits alone, volumes outlive users, inits once per pod; a guest that powered off stays off while its pod is up; compute comes back unless one of its inits has failed, or it or the pod ended without a failure | 52,655 |
| stale | `MCPodUnitsStale.cfg` | violation: compute does not wait for a stale init that it wants | |
| convert | `MCQuadletConvert.cfg` | steps 5 to 7 in one behaviour on every small VM, host and choice of options: names, mounts, order, anchors, PATH, health check, references, and the graph of services | 411,480 |
| pod_gpu | `MCStandalonePodGPU.cfg` | violation: an NVIDIA GPU without control devices | |
| proxies | `MCStandalonePodProxies.cfg` | violation: a proxy dials a socket nobody makes | |
| ports | `MCQuadletPorts.cfg` | violation: ports are not published | |
| grace | `MCQuadletGrace.cfg` | violation: compute has no grace period | |
| output | `MCOutputDir.cfg` | three conversions of any shape into one directory, failing or dying anywhere: success is whole, compute never comes without its inits, what was complete never dangles, the mixture is a pod of `PodUnits` | 1,692,747 |
| prepare | `MCPreRender.cfg` | step 3 and its use by step 4, with no Multus network called default: what is rendered is whole, and step 4 fails only on a claim without a stub; interfaces reach the pod, status and domain fit the guest | 4,117,572 |
| passt_multus | `MCForcePasstMultus.cfg` | violation: a Multus network called default stays one | |

Deadlock is checked in every run. The pipeline modules end in a stuttering `Done`,
`Written` or `Ended` action; the others never stop.

### Bounds and why they are enough

* `Sizes = 1..3`, `ImageSizes = 1..2`: an image smaller than, equal to and as a
  request changes larger than what is asked for, one disk grown twice, and a later
  conversion that asks for less. Scripts compare sizes and never compute with
  them. The numbers of kills, failures and conversions are not bounded. The theorems
  have no bound at all.
* `NInits = 3`, `NContainers = 2`, `NStale = 2`, `MaxFaults = 3`: a first, a middle and
  a last init; compute and another container; a stale init that knows a present one
  and one that knows a stale one too; three faults let the pod fail while it
  recovers from a failure of compute. The safety theorems hold for every value.
  For liveness `MaxFaults` also says that faults end, without which nothing comes
  back.
* `MaxItems = 3` in `convert`: volumes, GPUs, vfio devices, sidecars and probes,
  together. Any two of a kind, the least for which order and names matter, with one of
  any other kind; any three of a kind. `MaxGroups = 2`: devices that share a group, that
  do not, and that have none that can be read. One namespace, as `proxies` is about the
  others.
* `MaxDisks = 2`, `MaxConversions = 3` in `output`: disks can be added, lost and swapped,
  and a directory can hold files of a complete, a dead and a running conversion, with
  stale inits that know each other. More disks repeat the pair of an init and its script.
* `MaxNetworks = 2`, `MaxInterfaces = 3`, two names besides `default`: matched,
  unmatched and twice unmatched interfaces, in every order around `default`. One claim
  and `MaxVolumes = 2`: a claim and a DataVolume of one name, a claim without a stub alone
  and beside one that gives it a stub, volumes with, without and with a wrong disk. The theorems hold for every value.

### Fairness

* `DiskImage`: weak fairness of `ScriptStep`, the lines of a running script. The
  kernel schedules the shell and qemu-img terminates. Starts, kills, failures, the
  guest, users and conversions are not fair.
* `PodUnits`: weak fairness of the jobs systemd has queued (`PodUp`, `MemberStep`),
  of stop jobs and of automatic restarts. That inits end by themselves is
  `DiskImage`'s `RunEnds`, for the scripts that provision disks. Users, faults and clean
  exits are not fair. systemd's start rate limit is not modelled: `ComputeComesBack` is about
  fewer failures than the limit.

## Proofs

The modules whose names end in `Proofs`, and `EnumerationLemmas`, are checked by TLAPS
for all values of the constants, from the named assumptions in the modules alone: sizes
are positive naturals (a template of size zero gets no init container, post_render 483),
`NContainers` and `MaxConversions` are positive, the other bounds are naturals,
`TornScripts` and `MultusDefault` are Booleans, and a stale init knows inits that are
there (`KnowsAssumption`, which `MixtureIsPodUnits` shows of the directory).

**Enumerations.** The converter loops over lists: it sorts, it keeps some elements, it
appends piece by piece. The prover cannot reason about what a recursive definition
computes for every input, so `Sorted`, `Select` and `Flat` say what such a loop returns
in terms of positions and cardinalities. `SortedEnumerates` and `SortedUnique` show that a
finite set of numbers has exactly one increasing enumeration and that `Sorted` is it;
`SelectKeeps`, `SelectNone`, `SelectAll` and `SelectConcat` that selecting keeps what it
should and works piece by piece; `FlatKeeps` that a concatenation has the elements of its
pieces, each at a place of its own.

**DiskImage.** None of the disk invariants is inductive: that `Publish` yields a
whole disk needs to know what the scratch file holds before it, which depends on
the line. `AtLine` says, for each line, what the two files, the source and the kind
of script can be; `IInv` is its conjunction with the type invariant and the safety
invariants. `InitInv` and `NextInv` (one step per action) give `Invariance`, from
which follow `TypeCorrect`, `DiskIsWhole`, `DoneMeansDisk` and `ScratchIsPrivate` (for
`PublishesOwnWork` and for `ScratchRemoved`, which the run checks as a part of `IInv`).
`DiskSteps` shows which actions may change the disk and how, and gives the action
properties `NeverLosesData` and `GuestOwnsDisk`. `Implementation` is the refinement
of `PersistentDisk`: each step of a script maps to `Provision`, `Grow` or a stutter,
the machine's to `Boot`, `GuestWrite` and `Halt`.

**PodUnits.** `UnitsFit` says where each unit may be given where the others are:
that members are up only with the pod, that an init is up only when those before it
have exited, and that an exited init is prepared. The last is what a restart of the
pod could break, and does not because `InfraGone` and `StopPod` take the members
down and `PodUp` waits until they have stopped. Stale inits occur only where all
members do, so the theorems hold for any number of them and any `Knows`. `IInv` is
that with the type invariant; `Invariance` gives `Prepared` and `InitsAlone`, and, with
the steps, `VolumesStay` and `InitsOnce`. `OffStaysOff` goes through what can give compute
a start job: the pod, when it is started or restarted, and the restart of another
container, which pulls in nothing else as long as the pod is up.

**ForcePasst.** The theorems have the condition `~MultusDefault`, without which
`passt_multus` refutes them. `IInv` says that network names are distinct, that a
network called default is the pod's, and how far each loop has come. The distinct
names make "the first match" the only one (`FirstMatch`); that default is the pod's is
why a renamed interface needs no further pass. There is a lemma for each action, and
`InterfacesReachPod` and `NamesStayDistinct` follow. `NetworksKept` needs a second
invariant on top, `KeptInv`: the networks given are there in their order, at most one place
further down, under their names and unchanged unless an interface corresponds to them; as
names are distinct, selecting the names given yields exactly these.

**PreRender.** `PIInv` is what each stage owes the next: from `stubs` on the namespace
is set, from `defaults` on the stubs are those of the VM as it is (`StubsOf`), under the
namespace where the renderer looks (`StubsAreInNamespace`), from `passt` on
every disk has a volume and every volume a disk, from `uid` on the passes are over,
from `status` on the UID is the namespace, from `render` on the status is that of the
interfaces. `PInvariance` proves it action by action, and `Whole` and `Domain` follow.
`FoundIfNamed` compares what is looked up with the stubs, and gives `Renders`: step 4
fails on a claim that only volumes of other kinds name, and on no other. `PStepsAreSteps` says that a step of step 3 is a step of `ForcePasst` or leaves
its variables alone, so that `PassInvariance` has its `IInv` here too; with it, and under
its condition `~MultusDefault`, `Status` follows, as nothing renames an interface after
the status is taken.

`Kept` takes `NetworksKept` along in the same way.

**StandalonePod.** None of the seven properties is inductive: that a step finds compute
first, or that the name it adds is new, depends on all steps before it. `IInv` says what
there is after each step. For the inits that is the list itself, `InitsAt(step)`, put
together from the parts that the steps have added. For containers, volumes and mounts of
compute it is their *tags*, the first components of their names: a step only adds names
whose tags no earlier step has used (`VolumeTags`, `PathTags`, `SidecarsAt`), so what it
adds is new whatever the VM has, and within one step the second component, an index or a
number, tells names apart. `VolumesGrow`, `MountsGrow` and `ContainersGrow` prove that once
for all steps, and each step has a lemma that shows what it adds. The length of lists is
never bounded: GPUs, IOMMU groups and disks are enumerated by `Flat` and `Sorted`.
`Invariance` then gives `FirstIsCompute`, `OrderOfInits`, `DistinctThroughout`,
`MountsAlwaysResolve`, `RenderedKept` and `FilesAreMade` as they are checked in `convert`,
and `ProxiesReachDefault`, which is `ProxiesReachGuest` for VMs of the namespace default:
the condition under which `convert` checks it, and without which `proxies` refutes it.
The type of the grace period is wider than step 5 needs, so that the invariant goes on
through the two steps of conversion that set it.

**QuadletConvert.** None of the six properties of the files is inductive, as each is
about what several stages write. `CInv` says exactly what there is: beside `IInv`
of the pod, which the steps of `AdaptForStandalone` keep within `ConvertNext` as they do
alone, and `Extras` (the probe, environment, restart policy and passt volume of the pod,
which step 5's own properties do not need), the files are exactly `FilesAt(stage)`, and
from the first stage after the fixups on step 5 is over. `Conversion` is its invariance. What follows reads
the last stage:

* `Holds(list, units)`: a list of units has exactly these, and no two in one file. It is
  built up along the stages (`HoldsConcat`, `HoldsFlat`) and survives the two edits of
  step 7 (`HoldsEdited`), as they change no file name. That two files never
  collide comes from `DistinctNames` of the pod and from each kind of file having its own
  extension; `FilesAlwaysDistinct` is that at every stage.
* `UnitsFound`: since no file is there twice, the unit that a name leads to is the one
  written for it, and its lines are known key by key (the lemmas about `Values`).
  `HealthAlwaysChecksGuest`, `PatchedPasstAlwaysFound` and `ScratchAlwaysAnchored` compare such
  lines with each other, and the latter with the mounts of the infra container.
* `ReferencesAlwaysExist` goes through the kinds of lines: a mount needs
  `MountsResolve` of the pod, a dependency the position of the init in it.
* `GraphAlwaysPodUnits`: `Numbering` maps the names of services to the units of `PodUnits`
  and back, as no two have one name; `FewInits` and `FewContainers` show that the pod has no
  more of them than the property's bounds on `NInits` and `NContainers` allow. Then `Requires`, `BindsTo`, `After`, `Wants` and the restart policies
  are read off the lines on the one side and off `PodUnits` on the other.

**OutputDir.** `IInv` has four parts beside the types. `WrittenSoFar`: what the running
conversion has done with is whole and its own. `CameInOrder`: wherever there is a whole
file, all the files that its conversion makes before it are there, whichever conversion
wrote them last. `CompletedStays`: no file of a conversion that succeeded ever goes away.
`NothingLeftToDo`: success leaves no file to write. The second is the point: files are
overwritten and truncated but never removed, so the order of `Turn` survives any number of
conversions that died, and with it what compute waits for. `Success`,
`ComputeIsAccompanied` and `NeverDangles` follow; `MixtureFits` also uses that inits in the
order of their indices are an increasing enumeration, of which there is only one.

Model-checked only: the liveness properties `RunEnds` and `ComputeComesBack`, as the
prover has no ENABLED. Every invariant and every action property that a passing run
checks is also the subject of a theorem; `ProxiesReachGuest`, and the properties of
`ForcePasst` and those of `PreRender` that depend on it, under the conditions named above.

## Findings

* **Ports are not published** (`ports`). `PublishPort=` is inserted before `[Install]`
  on the assumption that `[Pod]` precedes it, but `[Service]` does, and the generator
  does not read the key there. Not visible in tests that look for the line in the text.
* **No grace period for compute** (`grace`). The 120 s are in `[Service]` of the pod
  unit only; the documentation says `StopTimeout=120` in the container unit.
* **A Multus network called default** (`passt_multus`) is shadowed by the pod network
  prepended under the same name, and stays a Multus network.
* **NVIDIA control devices** (`pod_gpu`) are mounted at index 0 of all GPUs, so not at
  all when an AMD GPU comes first.
* **A truncated init script succeeds** (`disk_missing`). `writeFiles` rewrites scripts
  in place; a pod that starts meanwhile, or after a conversion that died, runs an empty
  script, and compute starts without its disk. A disk that exists is never damaged by
  it, which `disk` and the theorems show.
* **Proxies outside the namespace default** (`proxies`). The VNC and console sidecars
  dial `.../default/virt-vnc` and `.../default/virt-serial0`, a literal path; the guest
  makes its sockets in a directory named by the UID, which step 3 makes the namespace
  of the VM. In any other namespace they connect to nothing.
* **Stale inits** (`stale`). Files of an earlier conversion are never removed. An init
  unit that the present conversion does not make any more stays wanted by compute and
  is not awaited by it. When a disk of one name changes from blank to registry, its
  init changes from `init-disk-` to `import-disk-`, and the old one then works on the
  same `disk.img` beside compute. The comment in convert.go 136 says that the first
  container waits for all init containers. What holds all the same is in `units` and the theorems:
  the present inits run before compute and alone among themselves.

Where a model shows what the code does and no statement in the repository says
otherwise, no finding is recorded: an init that fails once leaves the VM down until
the pod is started again, as `Restart=` does not apply to a failed dependency; and a
claim that only an `ephemeral` or `memoryDump` volume names passes validation, has no stub
and makes the conversion fail in step 4, which `ClaimsFound` states. Nor is
one recorded where the wording differs and the behaviour does not: `docs/reference.md`
206-208 makes each init depend on the previous one and compute on the last, where the
code writes all the earlier ones; the order that results is the same.

## Not modelled

* Command line, YAML decoding and error hints: functions of their input with no state.
* The TAR stream and file modes: the stream is written once, to a pipe.
* Quoting, splitting and continuation in the unit file parser; see the plan.
* Resources and security keys: one pod field to one key, no interaction.
* KubeVirt's defaults and renderer: dependencies, of which only what the program
  relies on is in `PreRender` and `Rendered`.
* The command lines the generator builds: the program only uses its constants.
* `pkg/quadlet/render.go` and `types.go`, which the pipeline does not call.
* Vendored Kubernetes types, the quantity library and the version string.

## Plan

Written so far, in this order: `PersistentDisk` and `DiskImage` with proofs,
`PodUnits` with proofs, `StandalonePod`, `QuadletConvert` on top of the two,
`ForcePasst` with proofs, `OutputDir`, the composition of `OutputDir` and `PodUnits`,
`PreRender` with proofs, `Enumerations` and its lemmas, the proofs of `OutputDir`, of
`StandalonePod` and of `QuadletConvert`. Left:

1. `Shutdown`: the stop of a pod with its timeouts (`TimeoutStopSec=`, `pod stop
   --time`, the container's own), an abstract specification "the guest is given its
   grace period", composed with `PodUnits`.
2. `PreRender` composed with `StandalonePod`, so that `VMs` of the latter are the VMs
   that pass; claims named by two volumes.
3. `UnitText`: quoting and splitting of the parser as functions over short
   sequences of character classes, `split(quote(s)) = s` as reference.
