# Specifications of omni-infra-provider-libvirt

TLA+ models of the provider, the TLC configurations that check them on small
instances, and proofs of what matters most for every value of the constants.
Paths without a prefix are under `src/internal/pkg/provider/`.

Run everything from this directory: `tlc -workers 2 -config MCProvisioner.cfg
MCProvisioner`, `tlapm ProvisionerProofs.tla`.

## The system

The provider is one process. Omni hands it machine requests; its controller (a
library, five workers: `src/cmd/omni-infra-provider-libvirt/main.go:161`) runs
the provisioning steps or `Deprovision` of each request against one libvirt
daemon, and a second goroutine cleans the cache of downloaded ISO images.

| Component | State it keeps | Operations | What makes it correct |
|---|---|---|---|
| Image cache (`images.go`) | maps `refs`, `lastUsed` under a mutex; files; flights of `singleflight` | `Acquire`, `Release`, `download`, `Run`/`cleanup` | counts match holders; an acquired image is whole and stays; no partial image; every `Acquire` returns; idle files go |
| Provisioning steps (`provision.go`) | the machine's spec and the recorded step, in Omni | eight steps, each re-run from its start on a retry or after a restart | a domain has complete media and disks; re-running is harmless; nothing recorded is missing |
| Deprovision (`deprovision.go`) | none: reads the spec and the host | NVRAM, domain by state, volumes | ends; leaves nothing of the spec behind |
| Volume operations (`volumes.go`, `../libvirt/volume/libvirt/pool.go`) | the host's pools and volumes | `getVol`, `createVolume`, `Create`, `CreateFrom`, `createOrGetPool` | survive a lost reply, a partial upload; a missing pool fails the request |
| VM manager (`../libvirt/vm/libvirt/vm.go`) | `BridgeCount` (memory only); the host's domains | `Create`, `Start` | names of interfaces unique; starting twice harmless |
| Process (`main.go`, `../libvirt/libvirt.go`) | none | start-up, error group, signals | a restart at any point loses only memory; it ends when told to or when a goroutine breaks, with the right code, and cuts nothing off |
| Libvirt manager, image managers (`../libvirt/manager.go`, `../libvirt/image`) | volumes | `Create`, `Remove`, `Clone` | not reached from the provider |
| Cloud-init (`../libvirt/cloudinit`) | none | documents of a Talos machine, ISO file (reading, merging and writing directories is called by nothing) | the machine finds its settings |
| Old cidata, helpers, config, resources, generated protobuf | none | | |

How they interact: `provisionISO` calls the cache, holds the image while it
uploads it, and releases it. The steps call libvirt through the volume and VM
managers; the calls of different requests interleave at every one of them.
`createVM` and all other requests share `BridgeCount`. Each step's results go
to the machine's spec in Omni, which is all that `Deprovision` and a restarted
provider know.

What is hard here: the cleanup pass against running downloads and lock sections;
errors and time-outs shared by all callers of one download; restarts between a
call's effect and the record of it; lost replies; steps that must be repeatable;
teardown at any point of provisioning; guests that change state by themselves;
a counter shared without a lock. `PROJECT.json` lists each hazard at its line.

## Modules

| Module | Stands for |
|---|---|
| `ImageLease` | what the cache promises: a leased image is there, only an unleased one is evicted |
| `ImageCache` | `images.go` |
| `ImageCacheProofs` | theorems about `ImageCache` |
| `ImageCacheRefinement` | the proof that `ImageCache` implements `ImageLease` |
| `ImageCacheHistory` | `ImageCache` with the history variables `quiet` and `doubted`, for `NoEarlyEviction` |
| `MCImageCache`, `MCImageCacheLive` | instances: of the cache, and of it with its history and fairness |
| `MachineLifecycle` | what the provider promises for a request, with none of its steps |
| `Provisioner` | `provision.go`, `deprovision.go`, `volumes.go`, the used parts of `pool.go` and `vm.go`, and the Omni controller and libvirt as those use them; implements `MachineLifecycle` |
| `MCProvisioner` | instances |
| `ProvisionerProofs` | theorems about `Provisioner` |
| `ProvisionerRefinement` | the proof that `Provisioner` implements `MachineLifecycle` |
| `ImageUse` | `Provisioner` composed with the cache's contract `ImageLease` |
| `ImageUseProofs` | theorems about `ImageUse` |
| `MCImageUse` | an instance |
| `Process` | `main.go`, `libvirt.go`, the loop of `ImageCache.Run`; checked as it is |
| `ProcessProofs` | theorems about `Process` |
| `CloudInit` | pure: the documents of `../libvirt/cloudinit` and what `provisionCidata` makes of them |
| `DomainLayout` | pure: the names of volumes and devices in `provision.go` |
| `Documents` | `CloudInit` and `DomainLayout` as one specification: a behaviour picks one input |
| `CloudInitProofs`, `DomainLayoutProofs` | theorems about `Documents` |
| `MCDocuments` | bounded inputs |

### ImageCache and the code

A lock section of a worker is one action (`AcquireRef`, `AcquireFails`,
`Release`): nothing is called inside it. `cleanup` holds the mutex for a whole
pass, so `pass # "wait"` means that the mutex is taken (`MuFree`); the pass is
`CleanupStart` (the listing), one of `CleanupKeeps`, `CleanupNotes`,
`CleanupExpires` per entry, and `CleanupRemoves` or `CleanupRemoveFails` for the
file operation. Downloads (`LeadFlight` to `Rename`) never take the mutex and
run between these. `singleflight` is `InFlight`/`Callers`: the first caller of a
key runs the function, the others join and all get its result.

`refs[n] = 0` stands for "no map entry", `n \notin lastUsed` likewise. A file is
absent, partial or whole. Temporary files and images share one directory and so
one set of `Names`, as in `cleanup`, which tells them apart by nothing.

Time: a `Tick` is the unit in which `timeout`, `CleanupInterval` and `MaxAge` are
counted. Local system calls take no tick; a request or a copy may take up to
`Timeout` of them, after which the HTTP client ends it (`InTime`). `age` and
`spent` stop at their bounds. `os.Stat` finds the image (`StatHit`) or gives an
error (`StatMiss`): any error is a miss for `Acquire`, also one it gives with the
file there, and the image is then downloaded over itself. `doubted` has the images
this happened to while `lastUsed` had an entry for them. `TimeoutBelowMaxAge` is 120 seconds against one
hour; `LiveTempKept` needs it. A crash empties the maps and keeps the files;
`MaxCrashes` bounds how often.

### Provisioner and the code

One action is one call to libvirt or Omni, or one access to the shared counter;
`op[m]` is the call the reconcile of request `m` makes next. The recorded step
is `step`, `saved` the last step whose results are in the spec. `SaveSpec` is
followed by `Advance`: a restart between them runs the step again with its
results saved. What a step has put into the spec counts only when the step
returns without an error. `Reply` is a call that took effect, with its reply or without;
`CallFails` one that failed without effect; whether an error is retried
(`Retries`) or makes the request fail is what the step's code says
(`NewRetryError...` or not). Where the code takes an error for an answer (the
lookups before a deletion or creation), so does the model (`Purge`, `Find`).

`vol[m][k]` is what the host has of `m`'s volume of kind `k`: ISO, cidata, main
disk, additional disks, NVRAM; that no two requests share one is what
`DomainLayout` is about (`NamesApart`). `dom` is the domain's state; `paused` stands for every state
`removeDomain` does not know. `nics` has the target devices `createVM` puts into the domain's
XML, `taps` those a running domain has on the host: libvirt does not start a domain
when one of its devices is taken by another domain or named twice (`DevicesFree`).
`pools` is what the host came with, any of `HostPools`. `Fault` counts everything that goes wrong
(failing calls, lost replies, re-runs of a failed request) up to `MaxFaults`,
and `MaxCrashes` the restarts.

External, modelled from their use: the Omni controller (`Reconcile`, `SaveSpec`,
`Advance`, `Rerun`, `RequestTeardown`, `Abort`) and libvirt's answers
(`CanStart`, `PowerOn`, `GuestChanges`, `GuestPowersOff`; a volume is created
only if its pool exists and it does not; starting an active domain and destroying
an inactive one are errors). `createOrGetPool` tries to make a pool that is missing
(`MakePool`), and is always refused: the volume manager is built without a base path
(`../libvirt/libvirt.go:47`), so that the new pool's path is relative
(`../libvirt/volume/libvirt/pool.go:253`), and libvirt takes absolute ones only.

In `Provisioner` the image cache is one call that succeeds or fails; `ImageUse`
replaces that by the cache's contract.

### MachineLifecycle and the code

A request is building, ready, failed, being removed or gone; its machine is
absent, off or on; its parts on the host are complete or not there. `Lives` and
`Hosted` say what one step may do to a request: a machine is installed and
powered on only while building, and only with everything it needs; it loses
parts only while there is no machine, apart from its firmware (the NVRAM file),
which comes with running it and goes when it is removed; nothing is built again
once a request is being removed. The mapping (`Life`, `Power`, `Whole` at the end
of `Provisioner`) counts a request as "removing" from the moment no provisioning
call of it is under way: Omni may ask for a teardown in the middle of one, whose
effect still comes.

### ImageUse and the code

`ImageUse` instantiates `ImageLease`, which `ImageCache` is proved to implement,
with the requests as its workers. `Grant` is the return of `Acquire`
(`provision.go:126`), to one or to all callers of a flight; the deferred `Release`
happens in the step that makes `provisionISO` return (`Returns`), whichever of its
exits that is; a restart empties the leases and may lose no image. `Evict` may
remove any image nobody has, at any time. The history variable `hit` has the
requests one of whose own calls went wrong; only `FailsForItsOwnReason` reads it.

### Process and the code

`phase` goes through the start-up's steps in the order of `RunE`; each can fail,
and then the process exits with code 1. A signal is caught from the start
(`signal.NotifyContext`) but the context is first looked at by the goroutines, so
`Signal` does not disturb start-up. `Cancelled` is the error group's context: a
signal, or an error of the one goroutine that can return one
(`ImageCache.Run` only returns nil). The ticker's channel holds one tick
(`tick`); `select` may take either case when both are ready. `ip.Run` is the Omni
library's: it works on up to `Concurrency` requests, and when it is cancelled or
breaks it returns after the work under way. That it waits for this work, that it
does not return nil without being cancelled, and that connections come back or
time out are assumptions on that library; the first two are `ProviderReturns`.

### CloudInit, DomainLayout and the code

A document is the values of its fields. The Go structs give a field one name for
JSON and one for YAML (`Fields`): `MetaData` and `UserData` are rendered by the
first, `NetworkConfig` by the second (`Marshal`). A field with `omitempty` is left out
when it has its zero value, `Empty`; the two of `UserData` without a JSON tag are
always there, under their Go names. `Cidata` is what `provisionCidata` makes, from its
settings to the files of the ISO.

`DomainLayout` has a volume as its pool and its name there, a sequence of characters,
because that is how volumes are found and compared: names put together from
different parts may be equal. One pair is: the ISO of a request "user-data" can have
the name of the cidata of another request, and only the pools, "isos" and "config",
tell them apart. `CidataVolumeMutant` puts both into one. Device names are as the code
makes them: `fmt.Sprint` of a rune prints its number, so that the third SATA disk is
"sd99", not "sdc".

`Documents` has the inputs as constants, and says what it assumes of them. A request's
id is any sequence of characters, the class's pool any, one of the provider's own
included. A schematic's id and the digits of a number have no dash
(`RequestsAssumption`, `DecimalAssumption`: a schematic's id is a hash in
hexadecimal), and different disks of a request have different numbers. A disk's type
is "sata" or "nvme" (the enumeration in
`src/cmd/omni-infra-provider-libvirt/data/schema.json`); the list of disks for
`DevicesApart` has any. The characters include those of the code's literals
(`CharAssumption`). The values of a machine's fields are not the zero value, and
`Nil` is no document.

## Runs

| Run | Instance | Shows |
|---|---|---|
| `cache_safety` | 2 workers, 2 images, 2 temporary names, `Timeout` 1, cleanup every 2 ticks, `MaxAge` 2, 1 restart | `TypeOK`, `RefsMatchHolders`, `HeldImageWhole`, `ImagesWhole`, `LiveTempKept`, and that `ImageCache` implements `ImageLease` (`LeaseSpec`) |
| `cache_liveness` | 2 workers, 1 image, 1 temporary name, 1 restart, fair | `AcquireReturns`, `IdleImageEvicted`, `OrphanTempEvicted`; `NoEarlyEviction` |
| `cache_comment` | 2 workers, 1 image | refutes `AcquireResetsLastUsed` |
| `provision_one` | 1 request, 2 additional disks, 2 interfaces, a host with all pools or without any one of them, 5 faults, 1 restart, guests that pause or shut down, fair | `TypeOK`, `AttachedComplete`, `FinishedStepsHold`, `TeardownClean`, `LeftByOneStep`; that `Provisioner` implements `MachineLifecycle` (`LifecycleSpec`); `TeardownEndsOrIsStuck`, `ProvisioningEnds` |
| `image_use` | 2 requests with one image and one bridged interface each, a host with all pools or without "isos" or "data", 1 fault, 1 restart, guests that stay as they are | `UploadReadsImage`, `NoLeaseLeaks`, `FailsForItsOwnReason`; `AttachedComplete` and `TeardownClean` with everything two requests share |
| `process` | 5 requests at a time, as in `main.go` | `TypeOK`, `NothingCutOff`, `ExitCodeTells`, `SignalEnds`, `BreakEnds` |
| `documents` | see Bounds | `DiskDevicesApart`, `VolumeNamesApart`, `MachineGetsSettings` |
| `teardown_leak` | 1 request, 1 restart | refutes `NoVolumeLeft` |
| `restart_in_create` | 1 request, 1 restart | refutes `NeverFailed` |
| `bridge_targets` | 2 requests | refutes `TargetsUnique` |
| `teardown_paused` | 1 request, guests that pause, fair | refutes `TeardownEnds` |
| `cidata_dns` | as `documents` | refutes `MachineGetsNameservers` |

Bounds. Two workers are enough for a leader and a caller that shares its flight,
for a failing one beside a succeeding one, and for a release beside an acquire;
two images for the two of them to be independent; two temporary names so that
each worker has one. A pass can begin before, during and after a download, and
a file can age to exactly `MaxAge` and one tick less. One restart is enough
for each state to be the one it happens in. In `Provisioner` the host's volumes
of two requests are disjoint, so one request carries the faults and the restart;
two are needed for what they share, the image, the counter and the host's device
names. Five faults allow a lost reply, the failure of its repetition and re-runs of
the failed request, during provisioning and again in the teardown. Its second
interface is the bridged one, so that the loop over interfaces meets both kinds.
`image_use` leaves disks and further interfaces to `provision_one`, and guests that
change state, too: with guests that shut down it has 10.7 million states instead of
2.9, and passes as well. `documents` takes up to five additional disks of any type in
any order, and 27, 120 and 705 SATA disks, past one and two letters; every pair of
requests over ten ids that look like parts of each other's volume names, two
schematics, three lists of disks and the pools "isos" and "config"; and machines
that differ in each of their settings.

`CHECK_DEADLOCK FALSE` in the `Provisioner` runs: the model stops when all
requests are gone, or failed with no fault left to make the controller look at
them again. In `process` the process exits, in `documents` a behaviour is one
input. Symmetry is used for safety only.

### Fairness

`WorkerFairness`: goroutines run, the HTTP client's timer fires, and Go's mutex
does not starve a waiter (strong fairness of `AcquireFails`: between two passes
the mutex is free again and again). Nothing makes a download succeed, and
nothing makes a worker call `Release`. `CleanupFairness`: time passes, a tick is
handled, a pass goes on; `os.ReadDir` and `os.Remove` of one file do not fail
every time, which is the one assumption about the host. `Fairness` of
`Provisioner`: each request has a worker, a reconcile goes on, a guest that is
shutting down gets there. A failed request is not assumed to run again, a
paused guest not to resume.

`Fairness` of `Process`: the calls of start-up come back, the goroutines run, the
work of a request ends. `CacheStops` has strong fairness: when a tick and the
cancellation are both ready Go's `select` picks at random, so it takes the
cancellation in the end. Nothing makes a signal come or the ticker tick.

### What the refuted properties say

* `AcquireResetsLastUsed`: the comment at `images.go:46`; the code updates
  `lastUsed` on the last `Release` and in `cleanup`. `NoEarlyEviction` shows
  that this is harmless, but for one case (`doubted`, see below).
* `NoVolumeLeft`: `deprovision.go:42` skips the ISO with the disks when the
  pool's name is not in the spec. `TeardownClean` is what does hold.
* `NeverFailed` over a restart: `createVM` re-run on a running domain fails for
  good (`provision.go:540`); `startVM` allows for the same error.
* `TargetsUnique`: `provision.go:499-505`, the counter is read and written by
  concurrent steps. It also starts from zero in a new process while older
  domains keep their device names, and a machine with two bridged interfaces
  gives both the one number read before the loop.
* `TeardownEnds` with a paused guest: `deprovision.go:117`. By
  `TeardownEndsOrIsStuck` a teardown hangs in two ways: over a guest in a state
  `removeDomain` does not know, and on a host without the pool "nvram", where
  `RemoveNvram` is refused for ever.
* `MachineGetsNameservers`: `../libvirt/cloudinit/network.go:37`. The field's tags
  are `json:"nameservers"` and `yaml:"dns"`, and a `NetworkConfig` is rendered by the
  second; the servers `provisionCidata` sets are not where the machine looks.

Seen while modelling, not a run:

* `createOrGetPool` tries to make missing pools although `src/README.md:55` says that
  pools are not created; the path it gives them is relative, so libvirt refuses.
* An error of `os.Stat` (`images.go:90`) on a cached image, with a download that fails
  as well, takes back the reference without renewing `lastUsed`: the image may be
  evicted at the next pass although it was held a moment ago. It is downloaded again
  when it is needed.
* The device of an interface before the first bridged one, and of each interface of a
  class without one, is "omnibr0", and so is that of the first bridged one while the
  counter is zero. A domain with both does not
  start, nor does one on a host where another domain has the device. `createVM` then
  fails the request, and a re-run of it reads a higher count; `startVM` tries again for
  as long as the other domain runs. `ProvisioningEnds` is checked for a request that is
  alone on its host.
* The comment of `VM.Remove` (`../libvirt/vm/libvirt/vm.go:351`) promises a removal
  of volumes it does not do (the provider does not call it).
* Additional disks are created with their type ("nvme", "sata") as the volume's
  format (`provision.go:211`) and attached as "qcow2" (`provision.go:463`).
* The connections to libvirt are made at start-up and never again
  (`main.go:88`, `../libvirt/libvirt.go:55`).
* The local files of cidata ISOs are never removed (`../libvirt/cloudinit/iso.go:100`).
* `vm.go:333`: a domain whose XML cannot be rendered counts as created. Rendering
  these structures does not fail, and the model leaves it out.
* `lastUsed` keeps an entry for each temporary file that cleanup saw during a
  download (`images.go:192`). The model has these entries.

## Proofs

`ImageCacheProofs` proves, for all sets of workers (finite), images and temporary
names and all times with `Timeout < MaxAge`:

* `TypeCorrect`: `Spec => []TypeOK`. `TypeOK` is not inductive: a cleaner in
  state "remove" must have a target, and a downloading worker a key and a
  temporary file, or an update goes outside of the function's domain. `TypeInv`
  adds `KeyInv` and `TempInv`; `TypeInvariant` proves that it is preserved, with one
  lemma for each group of variables.
* `RefsCorrect`: `Spec => []RefsMatchHolders`. From `TypeInv`; `HolderJoins` and
  `HolderLeaves` say what one worker does to the cardinality of `Holders`.
* `HeldImagesStay` and `CachedImagesWhole`: `Spec => []HeldImageWhole`,
  `Spec => []ImagesWhole`. `FileInv` adds three facts. `TempsApart`: no two
  downloads share a temporary file. `RenameInv`: the file of a download that is
  about to be renamed is whole or gone. `RemoveInv`: the file cleanup is about
  to remove has no reference; it stays so because the mutex is held, and
  with `RefsMatchHolders` it means that nobody uses the file.
* `LiveTempsStay`: `Spec => []LiveTempKept`. `LiveTempInv`: the age cleanup has
  noted for a running download's file is at most the time the download has taken,
  or `Timeout` once it is only to be renamed, so it cannot have reached `MaxAge`
  and the file is never the one a pass is about to remove.
* `NoImageTooEarly`: `HSpec => NoEarlyEviction`, over the history variables. What it
  needs (`AgeInv`, `TargetInv`): the entry of an image nobody holds is at most as old
  as the image is quiet, or the image is in `doubted`; and nobody takes the image a
  pass is about to remove. The dangerous step is a failing `Acquire`: it takes back
  its reference without touching `lastUsed`, so that an old entry meets an image
  that has just been held. `MissInv` says when: a caller whose `os.Stat` found nothing
  while the image has an entry is one of an image in `doubted`. It rests on
  `ListedInv` (only files that are there have an entry) for the files that really were
  missing, and on `RefsMatchHolders`: no pass makes an entry while the caller waits.

`ImageCacheRefinement` proves `CacheImplementsLease`: `Spec => LeaseSpec`. Under the
invariants above each step is one of the abstract cache's or a stutter: a hit and
a rename are a `Grant` to all callers of the flight, `Release` is a `Return`,
`CleanupRemoves` of an image is an `Evict` (that nobody has it is `RemoveInv` with
`RefsMatchHolders`), `Crash` is a `Restart`.

`ProvisionerProofs` proves, for all sets of requests, disks, interfaces, pools
and guests and any bounds on faults and restarts:

* `TypeCorrect`: `Spec => []TypeOK`. The strengthening is `TypesInv`: a
  provisioning call belongs to the recorded step (`OpInv`: without it a late
  "advance" could count past the last step), a teardown's call to a request in
  teardown, and the loop over the disks stays within them (`PosInv`).
* `DomainsComplete`, `FinishedStays`, `GoneIsClean`: `AttachedComplete`,
  `FinishedStepsHold` and `TeardownClean`, from one inductive invariant, `IInv`.
  It holds per machine, because a step of one request leaves everything of the
  others but the counter alone (`OthersSame`). `HoldInv`: while a
  request is provisioned, the volumes in `Held` are whole, those of the steps
  behind the recorded one and those the present step is done with; a volume
  that is purged or re-created belongs to the present step, so never to an
  earlier one. `DomainInv`: a domain only exists from `createVM` on, with all its
  volumes, and an NVRAM file only with a domain. `RemovalInv`: the volumes are
  removed after the domain has gone, everything before the loop's position is
  removed, and a request that is gone is left alone (`GoneStays`).
* `LittleIsLeft`: `Spec => []LeftByOneStep`. `AheadInv`: the recorded step is at most
  one ahead of the saved one, and no volume of a step later than the recorded one
  has been made; with `RemovalInv` that is all a teardown can have left.

`ProvisionerRefinement` proves `ProvisionerImplementsLifecycle`: `Spec => LifecycleSpec`.
`LifeInv` adds to `IInv` that a provisioning call runs only while the stage is
"provisioning" (`StageInv`), that a domain the teardown has seen shut off is still
so when it acts (`SeenInv`: nobody but the provider starts it), and that the domain
`createVM` has defined is there for the later steps (`BuiltInv`). The abstract
specification is a contract per request, so the proof is one, too: `StepContract`
shows that a step of a request keeps `Lives` (`LivesOn`) and `Hosted` (`HostedOn`),
`AlikeContract` that the others' steps leave it alone, `CrashContract` that a
restart changes nothing a machine shows.

`ImageUseProofs` proves, for all sets of requests and images and any assignment
of one to the other:

* `UseImplementsProvisioner`: `UseSpec => Spec`. The composition does nothing the
  provisioner alone could not, so that what is proved of the host holds in it
  (`UseKeepsHost`).
* `ReadImageStays` and `LeasesEnd`: `UseSpec => []UploadReadsImage`,
  `UseSpec => []NoLeaseLeaks`, from `LeaseInv`: a lease is on the request's own image,
  belongs to the calls of `provisionISO`, and is there from the end of `Acquire` to that
  of the upload. It rests on where each call of that step leads (`IsoGoesOn`), the
  failing, retried and lost ones included, and on `ImageLease` alone for the cache;
  `CacheImplementsLease` is why the real cache may take its place.
* `FailureHasItsReason`: `UseSpec => FailsForItsOwnReason`. For a request none of whose
  calls went wrong, `Smooth` says what no other request can take from it: a volume it
  is about to make is not there, a pool is made only when it is missing, and its
  domain is the one it defined, shut off until it is started. Each answer that makes
  a step fail contradicts one of these, or is one of the two reasons the property
  names: a pool the host does not have, a device name that is taken.

TLC checked the inductive invariants (`TypesInv`, `IInv`, `AheadInv`, `LifeInv`, `LeasesInv`,
`HitsInv`, `HistoryInv`) on instances before they were proved.

`ProcessProofs` proves, for any `Concurrency` of at least 1, `TypeCorrect`,
`NothingIsCutOff` and `ExitCodeRight` (`TypeOK`, `NothingCutOff`, `ExitCodeTells`) from
`PInv`: neither goroutine runs before the start-up is over (`BeforeInv`), both
have been started when the main goroutine waits (`WaitInv`), a provider that has
come back has no request left, and has come back without an error only because
of a signal (`BackInv`), and at the exit both are back (`AfterInv`).

`CloudInitProofs` and `DomainLayoutProofs` prove the three properties of `Documents` for
every input its assumptions allow. Each is a fact about operators (`Picked` is all
the state there is):

* `SettingsAreRead`: `Spec => []MachineGetsSettings`. `Rendered`: a field that has a value
  is rendered under a name of its own, so no other field hides it.
* `DisksAreApart`. `LastLetter`: no printed letter ends in another's digits, so a suffix
  determines its last letter, and by induction (`SpelledApart`) its position.
  `CountsApart`: two disks of one type have different counts. `AddedNotFixed`: the fixed
  devices have letters, the added ones digits.
* `VolumesAreApart`. `EndsTell`: the last characters of a name tell the volume's kind, or
  the pool does. Within a kind, an end or a front of literals is cut off (`Cut`); what
  is left is the id, or an id, a dash and a word without one, which starts at the last
  dash (`DashedApart`).

The inductions are over a number, as the least counterexample of a well-founded
order (`LeastMember`), since the library's induction rules take an operator; the
recursive function of the suffix is unfolded by `SpellsExists`, which gives a
function that satisfies the equation of the definition.

Every invariant and action property the passing runs check is now the statement of
a theorem. Only model-checked:

* `AcquireReturns`, `IdleImageEvicted`, `OrphanTempEvicted`, `TeardownEndsOrIsStuck`,
  `ProvisioningEnds`, `SignalEnds`, `BreakEnds`: liveness under fairness, which needs
  `ENABLED`, out of the prover's reach.
* That the six properties the code does not have are violated: TLC's counterexample is
  the proof.

## Not modelled

* The libvirt manager's `Create` and `Remove`, the image managers, `AddFromURL`, the
  VM and volume managers' other operations, the old cidata code: nothing in the
  repository calls them, so there is no sequence of calls to check them under.
  `Manager.Create` cannot succeed as it stands: it makes the name of a file in
  the cache directory out of an absolute path (`../libvirt/manager.go:37`).
* Of cloud-init: reading documents from directories, merging, writing them, the default
  configuration and `NewNetworkConfig`, which nothing in the repository calls.
* Generated protobuf code; declarations without behaviour.
* Rendering of XML, YAML and URLs; the bytes of ISO files; MAC addresses and
  serial numbers (random); `Config.String`, which is `ISO` as one text.
* The HTTP exchange beyond "no answer, bad status, body, error in the body";
  removal of files in the cache directory by others.

## Plan

Done: all modules, and the proofs of all safety properties, of `NoEarlyEviction` and
`FailsForItsOwnReason`, and of both refinements (`ImageLease`, `MachineLifecycle`).
Left, in this order:

1. The safety half of the liveness properties: that a call under way never waits for
   nothing. For the cache, a waiting caller has a flight whose leader is at work; for
   the provisioner, a call under way always has an action for its answer, and a
   teardown that waits has a domain that is shutting down or paused.
2. Bounds: the number of references, of leases, of domains' devices.
