# TETRATOSH: formal model

TETRATOSH is a boot loader and a set of build scripts that assemble an
OpenCore installation for the hardware they find. This directory holds TLA+
modules of the parts of it that keep state and decide something, the TLC
configurations that check them on small instances, and proofs checked by
TLAPS that hold for every instance. Paths below are relative to the
repository.

## The system

Most of the repository is vendored (OpenCore, kexts, ACPI samples) or data.
Its own program is small; of what is vendored as source, four parts keep state
and decide something. The last four rows are these.

| Part | State | Operations | Interacts with |
|---|---|---|---|
| Kext selector, `bootloader/src/kext_selector.c` | the kext table (compiled in), the caller's `KEXT_LIST` | `SelectKexts`, `FindKextForDevice` | called by the boot loader with `gSystemInfo` and `gSelectedKexts` |
| Patch selector, same file | the patch table, the caller's `PATCH_LIST` | `SelectPatches`, `CalculatePatchCount`, `PatchAppliesToCPU` | exported, called by nothing yet |
| Boot loader, `bootloader/src/main.c` | `gSystemInfo`, `gConfig`, `gSelectedKexts`; the EFI partition | `UefiMain`, the six phases of `TetratoshMain` | calls `SelectKexts`, and five functions the repository declares but does not contain |
| ISO build, `scripts/build_iso.sh` | `build/`, the loop mount, `dist/tetratosh.iso` | the steps of `main` | reads what the other scripts and the user put there; root `make clean` |
| CPU detection, `bootloader/src/cpu_detect.c` | `CPU_INFO` | `DetectCPU` and helpers | called by nothing yet |
| Boot menu, `bootloader/src/boot_menu.c` | selection, `Key`, `gBootOptions` | `ShowBootMenu`, the functions of versions | called by nothing yet; takes a `CPU_INFO` |
| Downloaders, `scripts/download_all_kexts.py`, `download_kexts.py`, `download_acpi.py` | `kexts/`, `acpi/`; the lists they report | look-up and transfer, per archive | run by `build_all.sh` and by hand |
| Master build, `scripts/build_all.sh` | `output/` | the four steps | runs two downloaders |
| EDK2 setup and build, `scripts/setup_edk2.sh`, `build_tetratosh.sh` | `/tmp/edk2`, `build/bootloader/` | the commands | run by hand, before `build_iso.sh` |
| EDK2 application, `bootloader/Main.c` | none | prints a banner | what the EDK2 build files build |
| Lilu's containers, `kexts/essential/Lilu.kext/.../kern_util.hpp` | a ring under a lock; slots claimed by compare-and-exchange | `push`, `pop`; `set`, `get`, `erase` | threads of the kexts that include the header |
| NVRAM hook, `OpenCore/Utilities/LogoutHook/Launchd.command` | files on the EFI partition, `boot-node` and a flag in NVRAM | daemon, agent, logout hook, install, uninstall | launchd; OpenCore, which reads the files |
| Vault, `OpenCore/Utilities/CreateVault/` | `vault.plist`, `vault.sig`, the key in `OpenCore.efi` | `sign.command`, `create_vault.sh` | the first runs the second |
| Macrecovery, `OpenCore/Utilities/macrecovery/macrecovery.py` | a chunklist and an image | `download`, `selfcheck`, `verify` | Apple's servers |

What is hard in it:

* **Arrays without bounds.** No writer of a `KEXT_LIST` or `PATCH_LIST`
  compares `Count` with the array's size, and no scan of `TargetCPU[8]` stops
  at eight. Two rows of the shipped patch table fill the array and lose their
  `NULL`. That nothing goes wrong is a consequence of the tables, the sizes in
  `SYSTEM_INFO`, the duplicate search and the quota together.
* **Order.** Which patches a processor gets depends on four passes over one
  table under one quota; which kext a device gets depends on the order of rows.
* **Stale state.** The lists belong to the caller; the partition and `build/`
  keep what earlier runs left, on other hardware or from other sources.
* **Failure half way.** Power may fail between two phases of the boot loader,
  and every command of the build scripts may fail, with nothing undone. A
  download truncates the archive it replaces; NVRAM is written over in place at
  the moment the machine is being switched off; `abort` in the middle of a
  shell pipeline ends less than it seems to.
* **Concurrency.** Lilu's containers are shared by threads, one of them without
  a lock. The hook's daemon and agent are processes that meet in NVRAM
  variables and signals while launchd starts and stops them.
* **Answers that do not come, or are ignored.** Two of the three downloaders
  wait for files without a timeout; the menu ignores the status of
  `ReadKeyStroke`; `macrecovery.py` does not compare what it got with
  `Content-Length`.
* **Registers.** CPUID's fields are packed in an order and in widths that
  `cpu_detect.c` does not always follow.

## Modules

| Module | Models |
|---|---|
| `KextDatabase` | the tables `gKextDatabase` and `gEssentialKexts` |
| `KextSelection` | abstract: what a kext selection promises its caller |
| `KextSelector` | `SelectKexts`, one step per loop iteration |
| `PatchDatabase` | the tables `gPatchDatabase`, `gLegacyCPUs`, `gAMDs` |
| `PatchSelection` | abstract: what a patch selection promises its caller |
| `PatchSelector` | `SelectPatches`, one step per loop iteration |
| `Bootloader` | `UefiMain` and `TetratoshMain`; EXTENDS `KextSelector`, whose steps are those of its second phase |
| `BuildIso` | `build_iso.sh`, one step per command |
| `CpuDetect` | `cpu_detect.c`, as operators |
| `BootMenu` | `boot_menu.c`, one step per round of the key loop; EXTENDS `CpuDetect` |
| `Downloaders` | the three Python scripts, one step per look-up or transfer |
| `BuildAll` | `build_all.sh`; EXTENDS `Downloaders`, whose steps are those of its first two |
| `Edk2Setup` | `setup_edk2.sh` and `build_tetratosh.sh`, one step per command |
| `BoundedQueue` | abstract: a first-in first-out queue of a fixed capacity |
| `CircularBuffer` | Lilu's ring, one step per assignment inside the lock |
| `ThreadLocal` | Lilu's thread-local slots, one step per atomic access |
| `NvramHook` | `Launchd.command` as installed: daemon, agent and hook with launchd and the power |
| `Vault` | `sign.command` and `create_vault.sh`, one step per command |
| `Macrecovery` | `macrecovery.py`: `download`, `selfcheck`, `verify` |
| `KextSelectorProofs`, `PatchSelectorProofs`, `BootloaderProofs`, `BuildIsoProofs`, `BootMenuProofs`, `ScriptsProofs` | the theorems about them |
| `LiluProofs` | the theorems about `CircularBuffer` and `ThreadLocal` |
| `OpenCoreProofs` | the theorems about `NvramHook`, `Vault` and `Macrecovery` |
| `MCKextSelector`, `MCPatchSelector`, `MCPatchTables`, `MCBootloader`, `MCBuildIso`, `MCScripts`, `MCBootMenu`, `MCVendored` | instances for TLC |
| `MCTetratosh` | `MCBootloader`, `MCBootMenu`, `MCBuildIso`, `MCScripts` and `Edk2Setup`, one of which runs |

`PROJECT.json` maps each definition to the lines it translates.

### KextSelector

`kexts` is `Kexts[0 .. Count-1]`, `loop` the loop `SelectKexts` is in and `i`
its index. `Enter(info)` is the call: it sets `Count` to zero and nothing
else, so that a forgotten reset would show. `EssentialStep`, `GPUStep`,
`NetworkStep`, `AudioStep` and `StorageStep` are one iteration each, with the
lookup, the search for an earlier entry of the same name and the append;
`EndLoop` leaves a loop. The empty loop over USB controllers is left out.
`FindKextForDevice` has both searches of the code; that the second never finds
anything is not assumed, it is a theorem (`ClassNeverMatters`). Rows of the table that
agree in everything but the device are grouped into one row with a set of
devices, in the order of the source, so that the first match stays the first.

`Path`, `BundleID` and `Enabled` of an entry are left out: the first two are
never assigned and the last is always `TRUE`. Entries beyond `Count` cannot be
reached by a reader.

### PatchSelector

`pass` names the pass, `i` the rows it has seen. `PatchAppliesToCPU` returns
the *set* of things the C function may do: for a row whose array is full and
which does not name the processor it reads beyond the array, so it may
match, not match, or fault. `QuotaUsedAhead` says what a table must be like
for that never to happen; it is a condition on constants, which TLC evaluates
for the shipped table (`ShippedTableAssumption`) and two theorems assume.
`Promise` reads the state as one of `PatchSelection`: the three classes of
patches are what the rows of the first three passes name, and the fourth pass
is left with nothing to choose. `StoredTargets` keeps the entries the array has
room for. A fault ends the model (`pass = "fault"`).

`PatchCount` and `Count` are always equal, so both are `Len(patches)`. The
parameter `MacOSVersion` is read by nothing.

### Bootloader

`phase` is the function `TetratoshMain` is in. Memory is the state of
`KextSelector` and is lost by `PowerOff`, which may happen at any step;
`config` and `tree` are the two things a run puts on the EFI partition, reduced
to what a reader of them relies on, the list of kexts. `DetectHardware`,
`GenerateConfig`, `BuildEFI`, `VerifyEFI` and `LaunchOpenCore` are declared in
`bootloader/include/` and called by `main.c`, but have no body in the
repository. They are modelled by that use: each returns success or failure,
success means it did what its name says, and the two that write to disk may be
caught half way (`Torn`). `VerifyEFI`'s result is ignored, as in the code.
`ChangeHardware` may act while the machine is off.

### BuildIso

A tree is the set of *parts* completely copied into it. `build/iso`, the
image, the directory the image is mounted on, the number of file systems
stacked on that directory and the ISO persist from run to run. Each command
succeeds or fails; a failure stops the script (`set -e`) except where the code
ends it in `|| true`. The initial state is a checkout, in which `build/iso`
already holds OpenCore and `build/efi_mount` holds files. Between runs the user
may add or remove sources, `make clean`, and unmount. A `cp` into an image on
which an earlier failed run is still mounted is taken to work; the run fails
at `rmdir` in any case, and the next one formats the image again.

### CpuDetect and BootMenu

`CpuDetect` has no state: a record of CPUID registers goes in, the fields of
`CPU_INFO` that anything reads come out. Four bytes of text are one string, so
that the order in which `GetCPUVendor` puts the vendor's name together is the
order of three strings. Of the two `case` labels of one value the first
counts. The file does not compile as it is (`Eb`, `Ec`, `Ed` are not declared,
the constants `CPU_GEN_*` and `CPU_FLAG_*` neither): the registers of that
name are taken, and a generation and a flag of one name are taken to be one.

`BootMenu` composes it with the menu. `ShowBootMenu` is one round of the key
loop: `ReadKeyStroke` returns the key somebody pressed, or fails and leaves
`Key` as it was or cleared; at the start `Key` is uninitialised and so any key.
`Count - 1` wraps at zero as `UINTN` does (`MaxUINTN`). What the caller does
with the result does not exist in the repository; `Configure` calls the three
functions of the file that are there for it. Drawing is left out, except that
`SelectedInRange` is about the row the menu draws.

### Downloaders and BuildAll

`archives` is what is on disk, `dlDone` and `dlFailed` what the run reports,
`dlDirs` the directories there are. `Lookup` asks for the latest release,
searches it and opens the archive, which truncates it; `Fetch` is the
transfer. Either may fail for an archive in `Unreliable` (`Mishap`), and a run
may be killed there (`Die`). The three scripts differ in what they create at
start, in whether they create a category's directory on demand, in their
options, timeouts and exit status, and in nothing else the model sees. The
tables of kexts (`KEXTS_DATABASE`, a function from categories to sequences of
kexts) are those of the sources, with repositories and patterns left out. `BuildAll` runs two of them with `-v`; between its runs the user runs
any of the three by hand.

### Edk2Setup

`edk2` tells a complete checkout from one whose submodules are missing or
older; `reply` is the answer to the script's question; `baseTools` and `efi`
tell what was built from what is there now from what is left of earlier runs.
With the answer `n` the script goes straight to `make`, which takes whatever an
earlier run has left: after a pull without its submodules it may come to "Setup
concluído!" with old ones. `SetupTellsTheTruth` therefore promises complete
submodules only of a run that was not told to leave them. `build_tetratosh.sh` shares the status of a
script with `setup_edk2.sh` and nothing else. The conflict markers in the boot
loader's Makefile make its `make clean` fail; that somebody removes them is
possible in the model.

### CircularBuffer and ThreadLocal

`CircularBuffer`: `lock` is the thread inside, `step` the assignment it is at.
That threads wait for each other is what the lock does; that other threads see
nothing of the steps inside is not assumed but follows from the refinement of
`BoundedQueue`. There the element leaves the queue when it is loaded, before
the count says so. Any of the three allocations of `withCapacity` may fail;
`deleter` frees a ring whatever is in it, and both leave the indexes and the
count at zero.

`ThreadLocal`: a thread's call goes through the slots one atomic access per
step; the search for its own slot is one step with the call, because no other
thread can write its identifier or remove it. Atomic accesses are taken to be
sequentially consistent: they are acquire and release, and a value is read and
written only by the thread whose slot it is in.

### NvramHook

`saver` is where the daemon is, or the logout hook, or the installer, of which
one runs at a time; `agent` is where the agent is. A file on the EFI partition
is absent, torn, or whole and of this session or an earlier one. Each write in
place is two steps with a torn file in between, and power may fail at every
step; a command followed by `|| abort` may fail (`Aborts`). `Boot` ages the
files and may turn `nvram.plist` into `nvram.used`, which OpenCore does with
the one it has read (external). Left out are the dump into `/tmp`, logs, and
the search for a `diskutil` that works.

### Vault

`contents` are versions of files, and a hash is the version hashed. `abort`
within the `while` loop of `create_vault.sh` ends a subshell only
(`AbortHashing`): the script goes on with the footer. Nobody looks at the
status of `find` and `sort`, whose output the loop reads: it may end before the
last file (`EndOfFiles`), and what is listed by then is signed. A signal runs the trap of
`sign.command`, which removes the key and does not exit (`Signal`).

### Macrecovery

A file is a sequence of chunks of a release, one of which may be damaged;
`Saved` lists what `save_image` may leave. The chunklist is `signed` if its
signature is the release's. `verify_image` stands for the comparison of every
chunk, the signature and the end of the image. For `selfcheck` and `verify` a
server is a function from the questions asked to the product it answers with.

## Runs

| Run | Instance | Properties |
|---|---|---|
| `kext_selector` | shipped tables; 176 machines with up to three devices per list, among them a device no row names, the device two rows name and the end marker's own key; any number of calls | `TypeOK`, `FitsInList`, `NoDuplicates`, `ListServesMachine`, `ImplementsPromise` |
| `patch_shipped` | shipped table, 24 processor names, every processor the code names and two it does not | `NoDuplicatePatches`, `NoOverRead`, `CallReturns`, `ImplementsSelection` |
| `patch_tables` | ten rows with few critical ones, so that every pass runs; `TargetCPU[2]`, which a row overruns; five processors, one for each quota | `TypeOK`, `FitsInList`, `MissingOnlyForQuota`, `LegacyPassAddsNothing` |
| `tetratosh` | one of five programs, which share nothing (`part`) | `TypesOK` and the following |
| - boot loader | shipped kext table, three machines, two of which differ only in the order of their devices | `LaunchedOnMatchingEFI`, `RunEnds` |
| - menu | the shipped versions; seven processors, among them Intel and AMD ones of several families and one of neither | `SelectedInRange`, `OnlyTheLastKeyActs`, `EnterLeavesMenu` |
| - ISO build | parts that fit the image; sources that come and go; up to two stacked mounts | `PartitionMatchesTree`, `LeftoversBlockISO`, `Recovers` |
| - master build | the shipped tables of kexts; three `-c` options (all, one category twice, an unknown one); failures and kills at two archives that differ in who writes them | `DoneMeansWhole`, `DownloadsEnd` |
| - EDK2 setup | any answer, any failure | `SetupTellsTheTruth` |
| `vendored` | two threads at a ring of two; up to four threads at three slots; the hook with up to two saves cut off in a row; a vault of three files; images of two chunks; every server with three products | `OwnValueKept`, `EveryThreadFindsASlot`, `OneWholeCopy`, `VaultListsWhatIsThere`, `SuccessMeansVerified`, `SelfcheckMeansVerifiable`, `ImplementsQueue` |
| `kext_priority` | as `kext_selector` | `SortedByPriority`, violated |
| `patch_legacy` | as `patch_shipped` | `LegacyCPUsGetLegacyPatches`, violated |
| `iso_bootloader` | as the ISO build of `tetratosh` | `IsoHasBootloader`, violated |
| `iso_shipped` | the sizes of the parts in the repository | `Recovers`, violated |
| `categories` | as the master build of `tetratosh` | `EveryCategoryArrives`, violated |
| `build_all` | the same | `BuildAllDownloadsKexts`, violated |
| `menu_amd` | as the menu of `tetratosh` | `AMDGetsItsSMBIOS`, violated |

What they show, in short: `SelectKexts` lists nothing that the table does not
have for the hardware of this call, and a kext for every device the table has a
row for (`ListServesMachine`, which reads the table without
`FindKextForDevice`), each once, in spite of four copies of the duplicate
search and no bounds check. It does not show that a device without an exact row
gets a kext: it gets none, the search by class being dead
(`ClassNeverMatters`). `SelectPatches` respects its quota, misses a patch only
because of it, and never reads beyond `TargetCPU`, but only just: for an old
processor the patches ahead of the overfull rows are as many as its quota of
ten, so that one more would let the scan out of the array. OpenCore is never
launched on a partition that does not fit the machine, and `build_iso.sh`
protects the ISO from leftovers by failing.

The downloaders never report an archive they have not got, but leave torn ones
on disk. The menu stays in range however keys repeat; a key that fails to be
read repeats the last one and no other. The shipped containers are what their
comments say. One save that is cut off leaves a whole copy of NVRAM, two in a
row may not. A vault that `sign.command` reports signed lists files as they are
then, with nothing left of an earlier list; that it lists *all* of them is not
so, since a hash that fails or a `find` that stops early ends the list and not
the script.

The seven violations are disagreements between the code and what is written
about it:

* kexts are not sorted by priority (`docs/ARCHITECTURE.md:400`);
* old processors do not get the patches for old processors
  (`kext_selector.c:9`);
* an ISO may lack the boot loader (`docs/ARCHITECTURE.md:585`,
  `scripts/build_iso.sh:4`);
* with the parts the repository ships the image overflows
  (`scripts/build_iso.sh:124`), and a user who retries and cleans may never get
  an ISO. A run can end only when a copy that may fail unnoticed (`|| true`)
  has, and OpenCore is never on the ISO then (`OversizedPartsAreLost`);
* `download_kexts.py` does not download all kexts (line 4): six categories have
  a dash where their directory has a slash;
* `build_all.sh` does not download all required files (line 4): its first
  downloader does not know the option it is started with;
* an AMD processor is not supported (`cpu_detect.c:4`): the vendor's name is
  put together in another order than CPUID's. `CPUMakesNoDifference` and
  `AMDIsK8` prove how far that goes, the second that the family would be the
  next thing wrong.

### Bounds

* `KextCapacity` is 10 in `kext_selector` and 7 in `tetratosh`, not 64: the
  least `CapacityAssumption` allows for the device lists of the run. The
  longest list `kext_selector` reaches has 8 entries, as devices share kexts;
  the theorem `KextListFits` covers the rest. With the real sizes (2 + 8 +
  8 + 1 + 8 = 27 of 64) the assumption holds with room to spare.
* Two devices per list are enough for a kext wanted twice in a list, and one
  list has a third so that another kext may come in between. More devices add
  iterations, no new kind of step; the proofs cover any number.
* `PatchCapacity` in `patch_tables` is 10, the number of rows and the largest
  quota.
* `MaxMounts` = 2: one mount left by a failed run and one on top of it.
* `MaxMishaps` = 2: one failure may leave an archive torn and another strike
  the run that repairs it. `Unreliable` has one archive that two scripts write
  and one run fetches twice, and one of the ACPI script's; the others are
  fetched in the same way. Two databases: one copied before the one that fails.
* `MaxUINTN` is the largest integer TLC has: it is only reached if the table
  of versions is empty, which `VersionsAssumption` excludes.
* `Size` = 2 with two threads: full, empty, half full, and indexes that wrap
  in every state. `N` = 3 slots and up to four users: a slot for each, or one
  too few. The proofs cover any number.
* `MaxCuts` = 2: the first save that is cut off must leave a copy, the second
  need not.
* Three files, three keys, two chunks, three products: enough for all, some
  and none of the files, for a key of this run, one in the image and one in
  the signature, for a file that is cut short in every way, and for every
  pattern of equal and different answers `verify` tells apart.
* `tetratosh` and `vendored` look at parts that share nothing one at a time
  (`part`): their product would show nothing more.
* Calls and runs are not bounded.
* `patch_tables` does not check for deadlock, because a scan that faults
  stops the program; every other passing run does. In `tetratosh` the menu has
  a last step (`MenuIsOver`) that changes nothing, because the caller is done
  when it has its configuration.

### Fairness

* `FairSpec` of `PatchSelector`: weak fairness of the loop steps. A call is
  sequential code that waits for nothing. `KextSelector` states safety only;
  that its loops end is `CallsAreBounded` and, within a run of the boot loader,
  `RunEnds`.
* `FairBootSpec`: weak fairness of `TetratoshMain`. The functions it calls are
  taken to return; power failures stay possible at every step.
* `IsoFairSpec`: weak fairness of the script's steps. `Recovers`
  has a hypothesis of its own: somebody keeps starting the script and, between
  runs, keeps unmounting and cleaning (strong fairness, as both are possible
  only between runs), and commands that could succeed eventually do. A copy
  that does not fit is not among these.
* `MenuSpec`: weak fairness of reading a key that has been pressed, since
  `WaitForEvent` returns for it, and of the caller. Keys need not be pressed.
* `DlFairness`: weak fairness of the summary, and of a look-up or transfer
  only where the call has a timeout, so that it returns in success or failure.
  `BaFairness` adds the commands of `build_all.sh` itself. A call without a
  timeout may wait for ever in the model, as it does in the code:
  `DownloadsEnd` speaks of the others only.
* `AllSpec` of `MCTetratosh` is the conjunction of these for its parts.
* `NvramHook`, `Vault`, `Macrecovery`, `CircularBuffer`, `ThreadLocal` and
  `Edk2Setup` state safety only, and no fairness.

## Proofs

The proofs assume only the named assumptions on constants, which TLC evaluates
for each instance. Two theorems of `PatchSelectorProofs`, `ScansStayInside`
and `Refinement`, have a hypothesis of their own about the table, which TLC
evaluates too.

**KextSelectorProofs.** The inductive invariant is `TypeOK`, `SelectionExact`
and `NoDuplicates` strengthened by what the invariant of a loop has to say:
which part of the hardware has been processed (every kext wanted by the loops
already left, and by the first `i` devices of the current one, is listed), and
that while the essentials are being added the list is exactly the first `i` of
them. `FitsInList` needs one more conjunct, `RoomLeft`: at most one entry per
essential kext, per GPU, network and storage device processed so far, and one
for audio whatever the number of codecs. `SelectionExact` compares with what
`FindKextForDevice` returns and so says nothing of that function; `MachineServed`
adds what it returns for which rows (`RequestedIsFor`). `Refinement` follows from the invariant: a step that appends is a
`Choose` of the abstract specification, leaving the last loop is a `Finish`,
every other step a stutter. `ClassNeverMatters` needs no induction: the two
conditions of the second search contradict each other. `CallsAreBounded` is a
variant: `StepsLeft`, the entries of the lists not yet reached and the ends of
the loops not yet left, goes down by one with every step of a call.

**PatchSelectorProofs.** The inductive invariant says of each pass which rows
have been dealt with and why a row is missing, that entries are distinct, and
that only critical patches pass the quota. The invariant is stated for any
table that satisfies `TerminatedAssumption` (rows of the first and last kind
have room for their `NULL`) and `CriticalNamesAssumption` (one critical row per
name and processor, the property of the two `CpuTscSync` rows that the code
relies on). `LegacyPassIsDead` is an action property: what the fourth pass
may add was a candidate of the third, which ended only with the table or the
quota.

`ScansStayInside` counts. When a pass after the first looks at a row, the
invariant has it that every patch that is for the processor for certain and
whose row comes earlier (`Ahead`: the critical rows, the recommended ones or
those before it, and so on) is listed or the quota is used up. If
those are as many names as the quota, and a list has at most as many names as
entries (`NamesBounded`), the pass would have ended. The hypothesis
`QuotaUsedAhead` is stated of the table, of every row that a scan would leave
and every processor it does not name; without it the property is false, as the
table of `patch_tables` shows, where scans do leave the array.

`Refinement` maps an iteration that adds a patch to a `Choose` of
`PatchSelection` and the end of the last pass to its `Finish`; all other steps
stutter, those of the fourth pass because of `LegacyUnchanged`. That nothing of
an earlier class is missing when a patch is chosen is `ClassesDone`, which
collects what the invariant says of rows into classes of names. The hypothesis
is needed here as well: a scan that leaves its array may match and add a patch
the processor has no use for. `QuotaKept`, which holds for every table, says
what remains true then.
`CallsAreBounded` is the variant of the four passes: every step leaves fewer
to come, of at most four for every row and four more.

**BootloaderProofs.** EXTENDS the proofs of `KextSelector`: its inductive
invariant is reused for the phase that runs it, and extended by how memory and
partition relate in each phase. The step lemma has one case per function.

**BuildIsoProofs.** `PartitionCorrect` needs that from `umount` on the image
holds what `build/iso` holds, and that it fits; `LeftoversBlock` that nothing is
mounted and the directory is gone when `create_iso` starts.
`OversizedPartsAreLost` goes beyond what `iso_shipped` checks: two of the
copies may fail unnoticed, so that a run may well succeed with what the
repository ships, but never with a part larger than the image on the ISO, and
the shipped OpenCore (24 MB, for an image of 16) is one. It needs that a sum
is at least each of its terms, which is a fact about a recursive fold: that the
fold exists and what it bounds is shown for sets of one more part at a time
(`OneMorePart`, `SumBounds`), up to the four there are.

**BootMenuProofs.** The inductive invariant is `MenuTypeOK`, that the index is
below `Count`, that `Key` holds the last key read or none once one has been
read, that there is a configuration when the caller is done (`ConfiguredOnce`)
and that it is that of the choice. `Entries` derives from
`VersionsAssumption` that there is at least one version before the end mark,
so that `Count - 1` does not wrap. `CPUMakesNoDifference` rests on
`NobodyIsKnown`: no processor's name, read in the code's order, is one of the
two the code compares with. `CPUsAssumption` is what CPUID's names must not be
for that.

**LiluProofs.** For the ring the inductive invariant, `RingInv`, is `CbTypeOK`,
`IndexesAgree` (the write index is the read index and the length, modulo the
capacity) and `StepsAgree` (what the thread in the lock is about to do is
possible, and what it has stored is at the end of the queue). `RingIsQueue`
maps each step: the last assignment of a `push` is a `Push` of the abstract
queue, loading the element is its `Pop`, a refusal is a refusal, and the other
steps are stutters. The arithmetic of the wrap is in the lemmas `Remainder` and
`DistinctPlaces`.

For the slots it is `SlotInv`. `OwnValueIsKept` needs that a thread that is looking for
a slot has none, and that one at a slot owns it. `SlotForEveryone` needs a
count: slots are freed and taken behind a thread that goes through them, so
that it is not enough that one was free. `FewFrom(k)` says that the users with
a slot from `k` on, or looking for one there, and `k` together are at most the
users: whoever passes a slot leaves its owner behind, and an owner that gives
it up and comes again starts at slot 0.

**ScriptsProofs.** The invariant of a downloader (`DlInv`) says that its plan is
that of the script for some categories (`PlanOK`), that `download_kexts.py` has
reported every archive it is past, as downloaded or as failed (`ReportOK`),
that what is reported as downloaded is whole, and that archives are opened only
in directories that exist, none of which is that of a category with a dash in
its name (`DirsOK`). The theorems about the downloaders and `build_all.sh` are
theorems of `BaSpec`, `SetupIsTruthful` is one of `EdSpec`; its invariant
(`EdPathOK`) says by which way `make` is come to. `SlashCategoriesStayEmpty` follows from the
last one, `BuildAllOpensNoKexts` from the options with which `build_all.sh`
starts its first downloader. The plan is a `FlattenSeq` of sequences, and what
a recursive function computes for *every* input is proved without an induction
theorem: by the smallest counterexample (`Smallest`, from the
well-foundedness of the naturals), which `JoinedOneMore` then refutes. The
categories a user asks for are any sequence of strings, and what is unreliable
and how often it fails is arbitrary.

**OpenCoreProofs.** `CopiesOK` says where the copy is: with no save cut off, in
`nvram.used` or in the file that is not being written; with one, in any of the
three. `ListOK` says that a list is made, from nothing, of files as they are, and
that no file changes before it is signed; how far the list gets is open.
`DownloadIsVerified` needs the lemma `SavedImage`: of what a transfer may
leave, only the whole image has the right length and the right chunks.

Model-checked only: the liveness properties (`CallReturns` of `PatchSelector`,
`RunEnds`, `Recovers`, `DownloadsEnd`, `EnterLeavesMenu`). Fairness speaks of
what is enabled, which is out of the prover's reach. Of `CallReturns` the part
that is about the code's loops, that no call can run for ever, is proved as
`CallsAreBounded`. `TypesOK` is proved part by part, for `Edk2Setup` as a
conjunct of the invariant behind `SetupIsTruthful`. Every other property of a
passing run is a theorem.

## Not modelled

* `action_guess` of `macrecovery.py`: it only reads, and cannot print what it
  finds, since it indexes the dictionary with pairs of that dictionary (line
  463).
* Of `kern_util.hpp`, `evector_base` and `Buffer`: sequential containers whose
  correctness is that of the allocator and of element destructors. The rest of
  that header, the other headers of Lilu and VirtualSMC and those of capstone
  declare functions whose bodies are in binaries, or list constants. They are
  the larger part of the source lines of the repository, and there is nothing
  in them to model: the share of the repository's lines that the modules
  translate stays small for that reason.
* `BootInstallBase.sh`, `QemuBuild.command`, `vBiosInsert.sh`, `kpdescribe.sh`,
  `shim-make.tool`: linear scripts that run external programs on files the user
  names and keep nothing that a second run would read.
* `bootloader/Main.c`, which is what the EDK2 build files build, prints and
  waits for a key; the Makefiles, of which the boot loader's holds conflict
  markers.
* The JSON databases, which no program in the repository reads, and the
  pseudocode in `docs/`, `efi_builder/` and `hardware_detector/`, which
  describes functions that do not exist.
* OpenCore and the kexts themselves.
* The use of one part's output by another where no code does it: the archives
  of the downloaders are not unpacked by any script, so that nothing they do
  reaches `BuildIso` except through the user (`ChangeSources`).

## Plan

What could be added: variants for the boot loader and the build scripts; and,
when the repository gets the functions its boot loader calls, modules of those
in place of the external actions of `Bootloader`.
