# Formal models of XboxDoomBIOS

XboxDoomBIOS replaces the BIOS of an original Xbox by one program: a 2BL stage
that unpacks it, FreeRTOS, a TinyUSB host, drivers for the chipset, file-system
glue and Doom. This directory models the parts of it whose correctness depends
on *when* things happen: which task is inside a driver, which interrupt comes
between two statements, what is left behind when one of several steps fails.

All paths below are relative to the repository's root, called `src/` here, so
`src/src/fileio.c` is the repository's `src/fileio.c`.

1. [The system](#1-the-system)
2. [The modules and the code](#2-the-modules-and-the-code)
3. [The runs](#3-the-runs)
4. [Disagreements found](#4-disagreements-found)
5. [The proofs](#5-the-proofs)
6. [What is not modelled](#6-what-is-not-modelled)
7. [Plan](#7-plan)

## 1. The system

`main()` (`src/src/main.c`) sets the hardware up and starts FreeRTOS with the
boot task `freertos_entry`. That task starts the USB host task, registers drive
C and drive E, and creates Doom's task. While it does so the USB host task may
already report sticks, each of which gets a mount task that registers a drive of
its own. Doom's task creates the sound task. All tasks have one priority; the
scheduler is preemptive and slices time (`config_freertos/FreeRTOSConfig.h`).

```
   freertos_entry --registers C, E--+                 +--> FATX glue --> libfatx
                                    v                 |         \
   USB host task --> mount tasks --> fileio registry -+--> FAT glue --> FatFs
                                    ^                 |         \
   Doom task ---- open/read/... ----+                 +--> sector devices:
      |   ^                                                 ATA, USB stick
      |   +-- vertical blank interrupt --- video driver
      +-- logic mutex -- sound task -- AC97 driver <-- AC97 interrupt
   EEPROM, SMC, LED, video encoders --> SMBus master
```

### Components

**Drive registry and file calls** (`src/src/fileio.c`).
*State*: a linked list of heap blocks, each a volume with a letter, a mutex and
the handles of its file system and its sector device; the descriptors callers
hold, which point at their volume. *Operations*: register, unregister, find, and
the newlib calls open, close, read, write, lseek, opendir, readdir, closedir.
*Hard*: only the walk of the list is done with the scheduler suspended. A
registration appends first, mounts then, and on failure unlinks with a
predecessor it remembered before mounting; a removal waits for the mutex once
and frees. `write()` takes no mutex. *Correct when*: no freed block is used, a
drive that was registered stays findable under its letter, locked calls on one
volume exclude each other, every call returns.

**Boot sequence and USB mass storage** (`src/src/main.c`,
`src/src/fs_io/usb_ll.c`). *State*: how far boot has come; a table of two
sticks with their letters; where each mount task is. *Operations*: mount and
unmount callbacks, the mount task (FAT first, then FATX), the sector device's
init. *Hard*: mount tasks, boot and Doom use the registry concurrently;
sticks come and go; the slot is read again after the callback has returned.
*Correct when*: Doom finds the drive its paths name, a slot belongs to one
stick, a stick's letter reads the stick.

**SMBus master** (`src/lib/pc/smbus.c`, `src/lib/pc/lock.h`). *State*: a
spinlock and the controller's registers. *Operations*: byte, word and block
transfers. *Hard*: half a dozen port writes make one transfer, the driver yields
while it waits, collisions give the lock up and start over. *Correct when*: the
calls are atomic for their callers.

**AC97 driver and sound task** (`src/lib/xbox/audio.c`, `src/src/doom_audio.c`).
*State*: two DMA engines (analog and digital) that play the same two buffers,
one count and one "drained" flag for each, the counting semaphore the interrupt
handler gives, the logic mutex. *Operations*: provide samples, play, the
handler, one round of the sound task, one frame of the game loop. *Hard*: the
handler runs between any two statements; a callback must come once per buffer,
when the later of the two engines has finished it; an engine that runs dry
reports its last buffer again. *Correct when*: a buffer is filled only when no
engine still has to play it, each played buffer is asked for once, and sound
goes on.

**Doom's platform layer** (`src/src/doom.c`). *State*: two frame buffers, the
vertical blank semaphore. *Operations*: file callbacks, a frame. *Hard*: a frame
that gives up waiting leaves a token for a later one.

**FATX glue and sector cache** (`src/src/fs_io/fatx.c`). *State*: position and
one-sector cache per volume, descriptors with attributes read at open.
*Hard*: device errors, the cache beside whole-sector transfers, padding past the
end. *Correct when*: it is a flat byte disk, and a descriptor a flat file.

**libfatx** (`src/lib/libfatx/`). *State*: FAT page cache, the allocator's
index, cluster chains, directory entries. *Hard*: the order of the disk writes
when power goes, a write that fails in between, a full volume. *Correct when*:
no cluster is lost or in two chains, files hold what was
written, and what was closed survives a power loss.

**ATA/ATAPI driver** (`src/lib/pc/ata.c`). *State*: command registers, PRD
table, bus master, all shared by the drives on the disk. *Hard*: alignment and
64 KB limits of the table, commands that fail, transfers that are given up and
end later, the flush. *Correct when*: a transfer that is reported done is done,
and the hardware writes nowhere else.

**FAT glue** (`src/src/fs_io/fat.c`): work areas that FatFs keeps pointers to.

**Game pad input** (`src/src/doom_input.c`, `src/src/usb.c`, and the event ring
of PureDOOM). *State*: the previous report, from which key presses and releases
are derived; the ring's array and two indices; the keys Doom takes to be down.
*Hard*: the USB host task posts inside a critical section, Doom's task posts and
takes without one; two pads share the previous report; several controls share
keys. *Correct when*: no event is lost, and no key stays down that is not held.

**EEPROM and SMC clients** (`src/lib/xbox/eeprom.c`, `smc.c`, `led.c`): a cached
copy of the EEPROM; multi-transfer conversations with the SMC.

**Console** (`src/src/debug.c`, `display.c`): the text cursor and a mutex that is
created on first use.

**The rest**: video modes and encoders, interrupts and timers, PCI, NIC, serial
port and 2BL, vendored code, build scripts; see section 6.

The hazards that come with these components are listed, line by line, in
`PROJECT.json`.

## 2. The modules and the code

| module | models | builds on |
|---|---|---|
| `FileIO` | `src/src/fileio.c` | |
| `Mounts` | `freertos_entry`, `usb_ll.c`, Doom's use of files | extends `FileIO` |
| `SMBusAtomic` | what callers of `smbus.c` rely on (abstract) | |
| `SMBus` | `smbus_io` and the spinlock | implements `SMBusAtomic` |
| `Sound` | `audio.c`, `doom_audio.c`, the logic mutex of `doom.c` | |
| `FatxDev` | the device layer of `src/src/fs_io/fatx.c`: sector cache and device errors | |
| `Fatx` | libfatx and the file calls of `src/src/fs_io/fatx.c`, with power loss | |
| `ATA` | the DMA transfers of `src/lib/pc/ata.c` | |
| `DoomInput` | `doom_input.c`, PureDOOM's event ring, Doom's task at both ends of it | |
| `FileIOProofs`, `MountsProofs`, `SMBusProofs`, `SoundProofs`, `DoomInputProofs`, `FatxDevProofs`, `ATAProofs`, `FatxProofs` | theorems | the module each is named for, TLAPS; `MountsProofs` also extends `FileIOProofs` |
| `MCFileIO`, `MCMounts`, `MCSMBus`, `MCSound`, `MCFatxDev`, `MCFatx`, `MCATA`, `MCDoomInput` | the instances TLC runs | |

Operators called `X_Something` with a comment that starts with *Fault* are
variants of `X` with a plausible bug. No specification uses them; they show that
the properties notice such bugs.

**FileIO.** One action is one stretch of code up to the next statement that
touches state another task can see. `Register` is the allocation and the append
under `vTaskSuspendAll`; `RegisterLLInit`, `RegisterFsInit` and `RegisterUnlink`
are what follows it, with `FreeDriver` before the unlink, as in the code.
`OpenFind` or `CallOnFile`, `TakeMutex`, `FsReturn`, `GiveMutex` are one call of
the newlib interface; `"access"` stands for read, lseek and readdir, which do the
same around different io functions. `Unregister...` is one action per statement
of `fileio_unregister_driver`. `Derefs(t)` says which blocks the next statement
of `t` reads or writes through a pointer; a task whose next dereference is
undefined stops in the model, since nothing is promised past it. `setup`, which
never changes, says who calls what: the library does not restrict its callers,
the system does. Names, file contents and what the file systems return are
free.

**Mounts.** Each action is one of FileIO's together with the statement of its
caller: `BootStep` and `BootInit` are `freertos_entry`, `DoomStep` is Doom's
calls on E, `tuh_msc_mount_cb` and `tuh_msc_umount_cb` the TinyUSB callbacks,
`MountStep` the mount task. `usb_disk_init` looks for the slot by letter, as the
code does. What mounts is a scenario: which partitions the disk has, which
sticks are FAT; FATX on a stick never mounts because the glue knows no partition
called `0` or `1`. When sticks come and go is a scenario too: during boot or
after it (`early`), never, between mounts or at any moment (`unplug`), a new one
only while none is being mounted or not (`settled`). The unmount callback has no
condition of its own, and does not unregister the drive, in the code or in the
model. A mount task that finds its slot cleared goes on as the code does: its
driver has no letter, `usb_disk_init` takes an empty slot, and FatFs, whose path
then has no digit, mounts volume 0. What FatFs reads while it mounts comes
through `fileio_find_driver` (`FatLetter`, `FatWalk`): the first drive of the
letter, which may be one an earlier stick left behind. A block is allocated
first, so a registration that finds none left changes nothing and the caller
goes on (`BootStep`, `MountFailed`).

**SMBus.** Every port write and every poll is a step. The controller
(`Complete`, `Answer`) is external: a transfer takes as long as it likes and
ends with data, an error, or a collision. A datum is one value whatever its
width, a block has a count chosen by the device beside it. The refinement of
`SMBusAtomic` fixes the moment a call takes effect: when its transfer ends
otherwise than with a collision. `Outcome(t)` is then already determined by the
controller's registers, although the driver has yet to read them.

**Sound.** `XAudioProvideSamples` is split where the interrupt may bite: set the
descriptor, load the counter, store the counter, for analog and then digital.
`aci_handler` is one step and comes before any task's next step, because nothing
masks interrupts and interrupts do not nest. `BufferEnds` is the hardware:
an engine ends a buffer the other has ended or is playing. `owed` is history:
per engine, buffers ended minus callbacks made. `haltBits` covers what the
status register of a halted engine reads, which the code's early return
depends on: both answers are explored.

**FatxDev.** A request of libfatx is `Request` (seek and call), the steps of
`fatx_dev_read` or `fatx_dev_write`, one per call of the device, and `Finish`.
`"first"`, `"middle"` and `"last"` are the three blocks of the two functions. The
device is external: a read that fails may or may not have filled the buffer, a
write that fails may have written some of its sectors, each one whole. That the
read function never looks at a result, and that the middle block of the write
function never looks at the cache, is in the model as in the code. The position
after a call is left out: libfatx seeks before every request.

**Fatx.** A call of `open`, `read`, `write`, `lseek` or `close` on a FATX volume
is a walk through labels (`pc`), one step per access to the FAT page or to the
disk; a function inside a function leaves the label to come back to in
`call.ret`. `page` is the one page of the FAT in memory. A step that wants an
index the page does not have (`Wanted`) is preceded by `FlushPage` and
`LoadPage`, as in `fatx_read_fat`. `fat` and `data` are the disk: at every state
they are what a power loss would leave, so no crash action is needed, and
`Listed`, `ChainOf` and `Contents` say what a mount would then find. `files` is
what callers were told, `safe` the contents of the files that were closed since
they were written. A unit of space is a directory entry; a directory and a file
are made of the same clusters. `i` is the allocator's static index, which
allocations on other volumes (`OtherVolume`) move. `OpenCreate` and what follows
is `fatx_mknod`, `Pad` and `Padded` the loop of `fatx_fs_lseek`. Left out: paths
(one directory), `O_APPEND` (with which the code refuses every read and
write), `O_EXCL`, attributes, exhausted memory, and errors of the device, which
`FatxDev` has. A result of -1 stands for -2 (not found) too. `FlushPage` writes
the page in one change of the disk; `fatx_dev_write` may split it into up to
three writes of the device. The states in between differ only in entries the
page changed since it was last written, and the entries of a closed file are
not among them: a close is told only after a flush has ended.

**ATA.** Two tasks, one on drive C and one on E, call `ide_dma_io` for the one
hard disk. Each action is one access to the hardware: `SendCommand`,
`CommandStatus`, `Program` (PRD table, direction, old status bits), `Start`,
`Poll`, `Stop`, `TransferStatus`, `Flush`, `FlushStatus`. `PrdTable` is the
table that the loop of `busmaster_dma_transfer` builds, entry for entry;
`Addresses` is how a bus master reads it, which ignores the bits below the
alignment and wraps at 64 KB. The drive and the bus master are external:
`Ready`, `Transfer` (all of it, or a part and an error), `Abort`, `Flushed`.
`Copy` moves the data byte by byte, so that a property can ask where it went.
A written sector is `unsynced` until a flush ends. A drive that gets a command
while it is at another may take it or ignore it; with `timeouts` the driver may
give up on a drive that is still at work.

**DoomInput.** `Report` is `tuh_xinput_report_received_cb` and
`dooom_new_input` up to `vPortEnterCritical`, `PostKey` one `D_PostEvent` of the
USB task, `Remember` the assignments at the end and `vPortExitCritical`. Doom's
task does `MouseMove` (the write of the slot), `MousePosted` (the move of the
index, from a copy read before or after; the increment and the mask are two
statements in the code, and a report between them is one of the `raced` cases
either way), then `Tic` or `NoTic`, and
`ProcessEvent`, which also hands the event to `G_Responder` (`Respond`). While
`critical` holds Doom's task does not run. Sticks and triggers are given as
digitised. `queue`, `raced` and `unsteady` are history: what was posted and not
processed, whether a report came into the middle of Doom's own post, and whether
a report came that the code does not handle (below).

## 3. The runs

| run | instance | states | shows |
|---|---|---|---|
| `fileio` | `MCFileIO.cfg` | 49,693 | FileIO is safe and live for setups in which drivers are not freed under their users |
| `mounts_calm` | `MCMounts.cfg` | 375,316 | boot, Doom and sticks get along, in every order, also when a stick is pulled out before or while it is mounted, and when the memory is used up |
| `mounts_hasty` | `MCMountsHasty.cfg` | | a stick without a volume, plugged in during boot, can lose drive E |
| `smbus` | `MCSMBus.cfg` | 251,801 | SMBus calls are atomic and the bus is never left locked |
| `sound` | `MCSound.cfg` | 5,416 | no buffer is overwritten; with engines that never run dry every buffer is asked for once and sound goes on |
| `sound_underrun` | `MCSoundUnderrun.cfg` | | after both engines ran dry a buffer is never asked for |
| `fatx_dev` | `MCFatxDev.cfg` | 182,572 | the device layer sees and changes exactly the bytes of a request, and reports no success for a write that failed |
| `fatx_stale` | `MCFatxDevStale.cfg` | | after a whole-sector write a partial read returns old bytes |
| `fatx` | `MCFatx.cfg` | 183,783 | files hold what was written, no cluster is lost, no call touches another file, closed files survive a power loss, calls end |
| `fatx_seek` | `MCFatxSeek.cfg` | | a seek behind the size at open overwrites what was written since |
| `ata` | `MCATA.cfg` | 390,886 | transfers reported done are done and flushed; late and failed ones do no harm |
| `input` | `MCDoomInput.cfg` | 197,517 | no event is lost, no key sticks |

**fileio.** Two tasks, three heap blocks, one descriptor per task, letters `C`,
`c`, `E` and one character that is not alphanumeric. Two setups: *Serial*, one
task that makes every call in every order, with volumes that fail to mount and
removals of volumes nobody uses; *Shared*, two tasks that register and use each
other's volumes, two of them under one letter, which all mount. `TypeOK`; `NoUseAfterFree`; `LockedSerial` (locked
calls exclude each other, only `write()` may overlap); `RegistrationDurable` (a
registered drive stays on the list); `LetterStable` (a letter keeps its volume);
`CallsReturn` (every call ends). Three blocks are the smallest number with a
head, a middle and a tail, so that every case of unlinking occurs, and with two
drives of one letter beside another; two tasks are
the smallest with contention, and a third waits like the second does. What the setups leave
out is what the code does not survive: a removal under a user, and a failed
mount beside another registration. Those are in `mounts_hasty` and in the
hazard list, not hidden.

**mounts_calm.** The tasks of the BIOS: boot, Doom, two mount tasks; four
blocks (C, E and two sticks), two sticks for the two slots. Scenarios: two FAT
sticks that arrive at any moment, boot included, and stay; or one stick, FAT or
not, that comes and goes after boot between mounts, again and again until the
blocks are used up (drives of removed sticks are never freed), with every
combination of disk partitions when it is FAT; or one FAT stick that does so during
boot as well, so that boot may find no block for C or E and starts Doom all the same;
or two FAT sticks, or one that is
not FAT, after boot beside drive E, which leave at any moment, before their mount
task has read its letter or in the middle of its registrations, and come back when
no mount task is left. `NoTaskUsesFreed` is `NoUseAfterFree` for the tasks that
call or are about to; `DoomFindsE`: when the disk has E, Doom's letter names a
mounted volume from the moment Doom exists, unless there was no memory for it;
`SticksMounted`: when no mount task works on a slot any more, its letter
names a mounted drive that reads this slot, also after re-plugging, where the
stale drive of the previous stick comes first in the list, with the same exception.
`NoMemoryFor` holds only when every block is taken and none by a drive of
the letter. `SlotsConsistent`: every attached stick has one slot, while there are slots. A read of a stick that has gone fails; a read that
never returns (`usb_ll.c:117`) is a mount task that takes no further step, which
the invariants allow for. That a stick is not plugged in while another is still being
mounted is needed: the failing registration of the one that was pulled out would
cut off, or leave a pointer into, the new one's, as in `mounts_hasty`. The symmetry sets are sound: heap blocks and mount
tasks are interchangeable, and the run checks invariants only.

**smbus.** Two tasks and six calls: a poke, byte reads of a device that is there
and of one that is not, a byte write, a block read and a block write with a
buffer of four bytes; devices announce blocks of three and of five, below and
above the buffer; a transfer of the boot ROM may be running at the start. Two
tasks suffice for the interleavings: while one is inside the lock all others
are at the acquire. `QuietWhileBusy`: no register is written while a transfer runs.
`LockReleased`: the bus does not stay locked. `AtomicCalls`: refinement of
`SMBusAtomic`.

**sound.** No bound is needed: two buffers, two tokens, two engines are what the
code has. No buffer ends inside `XAudioProvideSamples` (`amid` is false; section
4 says what happens if one does). `NoOverwrite` then holds even with underruns;
`AskedWhenTimely` and `SoundGoesOn` are about engines that never run dry, and
`sound_underrun` shows that this is needed.

**fatx_dev.** Three sectors of two bytes, two byte values, requests at every
position with every length: with three sectors all three blocks of the functions
occur in one request, with two bytes a piece is the left or the right part of a
sector. A write brings one value throughout, which is enough to tell old
from new. Two scenarios: writes may fail; or anything may fail and cached sectors
may be overwritten whole. `WrittenWhenReported` holds in both.
`CacheCoherent`, `ReadsTheDiskWhenCalm` and `OnlyTheRequest` hold in the
first; `fatx_stale` shows the one condition to be needed, and a failed read,
whose result the code ignores, breaks them in the same way.

**fatx.** Clusters of three units, a FAT page of two entries, three or four
good clusters, so that every chain of two crosses a page, a volume fills up
within a call, and the directory's only cluster holds three entries. Requests of
three and four units end at and after a cluster's end. Volumes: empty; with a
file whose two clusters are in falling order and a deleted entry; with a full
directory and one or two free clusters. Four or five calls by two descriptors on
two files; or on one file with seeks to one and four units, within
`CalmSeek`; or three calls that meet the full directory.
`FilesAsPromised`: between calls a mount that sees the page's changes finds
exactly the files and contents the callers were told, and a read returns them.
`ClustersAccounted`: between calls the clusters in use are those of the
directory's and the files' chains, which are disjoint and end. `OthersUntouched`, of
every step: the entry of a file that the call does not name stays, and so do the FAT
entries and the contents of its chain. `ClosedOnDisk`: at every step the disk has the
directory as the calls see it and the whole chain of every closed file.
`ClosedSurvives`: whatever step the power goes at, the disk alone holds every closed
file. `CallsEnd`: every call returns, on a full volume too. All but `CallsEnd` are stated
for `Calm` scenarios, in which the directory does not fill its cluster; section 4
says what happens otherwise. Five calls are enough to write through one
descriptor, truncate or fill the volume through another, and close either.
`Calm` also asks for a directory of one cluster, which every volume of the runs has.
Sizes are bounded by `MaxSize`. `Indices` keeps the index that other volumes leave
inside this volume's FAT.

**ata.** A sector is two bytes, 64 KB are eight and the alignment is two, so that
a request of two sectors crosses the boundary in the middle of its buffer, and one
of nine is refused. The two tasks' requests share a sector. Errors at any point,
with and without time-outs. `TransferredWhenReported`: when a call reports
success, disk and buffer agree. `SyncedWhenReported`: and what it wrote is on the
medium. Both are stated for drives that are not given up: after a time-out the
late end of the old command can be taken for the next one's, which no register
tells apart. `DmaConfined` holds with time-outs: the bus master writes memory
only in the buffer of a read that waits, because it is stopped before the lock
is released and programmed before it is started. `LockFreed`: no error path keeps
the lock. Larger tables add entries of the same kind: requests are either shorter
than 64 KB, as all of the system are (a cluster is 16 KB), or longer than the
table can take. One in between would get a first entry of 0xFFFF bytes and a
second at an odd address.

**input.** A ring of four events, so that it wraps all the time, and scenarios
with two or three controls that share a key or a variable: the left stick and
the right one; the stick and the D-pad on the arrow keys; trigger, stick click
and shoulder on the run key; two pads with a weapon cycle. More controls would
be more of the same code. That the ring (of 4096 events) is never full is assumed
(`Room`): it would take more reports in a tic than a pad sends. `NoKeyStuck` and
`RestReleases` leave out what the code does not handle (`unsteady`): a stick that
goes from one end to the other in one report, and a click of the left stick with
the shoulder held, each of which leaves a key down; and `raced`. `NoKeyStuck`
compares with the pad that sent the last report, since all pads share one
previous report; `RestReleases` says that all keys come up once that report
shows nothing held. Unplugging a pad posts nothing, so keys held then stay
down until another report.

### Fairness

The tasks run at `THREAD_PRIORITY_NORMAL` with preemption and time slicing on,
so a task that can run does run: weak fairness of the tasks' steps. A task
blocked on a FreeRTOS mutex is queued and woken when it is given: strong fairness
of the takes (`FileIO`'s `Wait`, `Sound`'s `SoundLock` and `DoomTurn`). The
SMBus spinlock has no queue, so acquiring it is given no fairness at all; that the
lock is released does not need any. The controller ends the transfers it
started, the engines play while they have buffers, and the processor takes an
interrupt that is raised: weak fairness of `Controller`, `BufferEnds`,
`aci_handler`. `Fatx` has weak fairness of `Step` as a whole: a call that was
made goes on (its device's transfers end). `ATA` has it for each task's steps,
but a task that finds the spinlock taken again and again may wait for ever, and
for the hardware unless it is one that may be too slow. In `DoomInput` the two
tasks go on, and `Tic` is strongly fair: the tic counter advances with the timer,
so frames without a tic do not go on for ever. Reports are not fair: players do what
they like. A file-system call ends (`FsStep`): this is an assumption about
FatFs, libfatx and the devices, and the hazard list names a line where it does not
hold (a stick pulled out in the middle of a read).

### Deadlock

TLC's deadlock detection is on in every passing run but `fatx`, which stops when
its bounded number of calls is made; there `CallsEnd` says that no call is
stuck. In `mounts_calm` Doom keeps opening and closing; in the others there is always a call to make.

## 4. Disagreements found

**A failed mount can make another drive disappear** (`mounts_hasty`;
`src/src/fileio.c:203`). The failed registration unlinks itself with
`prev->next = NULL`. Between its append and this line another task can have
appended its own driver behind it, which is cut off too. With a stick that has
no FAT volume plugged in at power-up, that driver can be E, the drive of
`doom1.wad`: Doom starts and does not find its WAD, though README.md:11 says
"Place at `E:/doom/doom1.wad`." and nothing in it asks to leave the USB ports
empty.

**A buffer that is never asked for** (`sound_underrun`;
`src/lib/xbox/audio.c:56`). When an engine has reported its last valid buffer,
the drained flag makes the handler ignore the next one it reports. That one is real
when the driver has been given new buffers since. When both engines ran dry and
are served together, a buffer is consumed by both and no callback follows:
the sound task has one buffer in rotation from then on. The comment at
`src/lib/xbox/audio.c:84`: "If a buffer was consumed by analog and digital output,
we ask for a DPC".

**A read of old bytes** (`fatx_stale`; `src/src/fs_io/fatx.c:430`). Whole sectors
are written past the sector cache, which is not invalidated. Write ten bytes to
a file, then its first sector whole, then read ten bytes: the first ones come
back. README.md:39 promises FATX files "using standard c library calls".

**A seek that erases** (`fatx_seek`; `src/src/fs_io/fatx.c:201`). `lseek` takes
the file's end from the attributes read at open, which writes do not update.
After `n` bytes were written to a new file, a seek to a position up to `n`, and
so `ftell` as well, "pads" from the old end on: the bytes just written become
zeroes. The comment at `src/src/fs_io/fatx.c:200`: "Pad out the file with zeroes
if seek past end".

The following were met on the way and are excluded by a named condition of the
passing runs instead of having a run of their own.

- *A buffer that ends inside `XAudioProvideSamples`* (`src/lib/xbox/audio.c:214`;
  `amid`). The driver counts the new buffer for analog and then for digital. When
  the interrupt comes in between, the handler takes a buffer that only analog has
  finished for one both have, and asks for one too early; the sound task then
  writes a buffer that is being played.
- *Padding by whole chunks* (`src/src/fs_io/fatx.c:211`; `CalmSeek`). A gap of
  more than 512 bytes that is not a multiple of 512 is overshot, `bytes_to_write`
  wraps below zero and the loop goes on until the volume is full; there, -1 is
  taken for a count.
- *A directory that fills its cluster* (`src/lib/libfatx/fatx_dir.c:354`;
  `Calm`). For the last slot of a cluster the end mark goes to the first slot of
  the cluster that follows on the disk, whosever it is; when the directory has
  grown, the new entry goes there too ("We should have one entry in the old
  cluster, so use it", line 381, which is not so), and the grown directory's
  chain never has it.
- *Two allocators' indices* (`src/lib/libfatx/fatx_fat.c:431`; `Indices`). The index
  is shared by all volumes. When another volume has left it at or beyond this
  one's last cluster and this one is full, the search never comes back to where
  it began and does not end.
- *An unaligned DMA buffer* (`src/src/fs_io/fatx.c:358`; the alignment in
  `ATAAssumption`). A request that starts inside a sector passes the rest of its
  buffer on for the whole sectors; at a position that is no multiple of four the
  assertion at `src/lib/pc/ata.c:604` fails.
- *Doom's own post* (`src/lib/PureDOOM/PureDOOM.h:9229`; `raced`).
  `doom_mouse_move` posts without a critical section. A report that comes between
  the write of the slot and the move of the index overwrites the slot, or has
  its events skipped or processed again.

## 5. The proofs

TLAPS proves the following for all values of the constants that satisfy the
named assumptions, which TLC evaluates in the runs:

| assumption | what it says |
|---|---|
| `FileIOAssumption` | types of the inputs, `None` outside every set, `Upper` idempotent |
| `MountsAssumption` | Boot, Doom and the mount tasks are different tasks; finitely many sticks and slots, the first of them 0; a slot has a letter of its own, not C or E; Doom opens files on E and registers nothing |
| `SMBusAssumption` | types of the inputs, `None` outside every set |
| `SoundAssumption` | types of the inputs |
| `InputAssumption` | types of the inputs, `None` outside every set; the ring has more than one slot |
| `FatxDevAssumption` | requests are not empty and end on the device |
| `FatxAssumption` | types of the inputs; finitely many names; other volumes leave the allocator's index above 1 |
| `ValuesAssumption` | the marks of a slot, names, directory entries and `None` are different values |
| `VolumesAssumption` | the volumes before the first call are FATX volumes with the files the callers expect: used clusters are accounted for, the directory has entries, each once, and deleted ones before its end mark |
| `ATAAssumption` | buffers are aligned, lie in memory and those of different tasks do not overlap; the driver's limit is two boundaries (64 KB) at least; a request is smaller than one, or beyond the limit and refused |

**FileIO** (`FileIOProofs`).

- `TypeCorrect`: `Spec => []TypeOK`, for every setup. `TypeOK` is not inductive
  alone, since a task stores through `drv`; `TypeInv` adds that a task inside a
  call has a driver.
- `NoUseAfterFreeHolds`, `LockedSerialHolds`: `Spec => [](Reliable => ...)`,
  where `Reliable` means that every volume mounts and none is removed. The
  inductive invariant is `SafeInv == TypeInv /\ (Reliable => Safe)`: the head and
  every next pointer lead to allocated blocks (`Connected`), and every task's
  driver and open files are allocated and the task inside a locked call is the
  one its driver's mutex names (`TaskSafe`). `Connected` is needed because the
  blocks a walk passes are the least set closed under `next`: `live` is
  closed, so the walk stays in it (`WalkLive`). Without `Reliable` the
  property is false: `mounts_hasty`'s counterexample starts from the same lines.
- `RegistrationDurableHolds`: `Spec => [](Reliable => RegistrationDurable)`, and
  `LetterStableHolds`: `Spec /\ Reliable => LetterStable`. The invariant is
  strengthened by `Chain`: every allocated block is on the list, and each leads to
  its only end, so that the predecessor `Register` finds is that end
  (`AppendedNext`) and every walk grows by exactly the new block
  (`AppendedWalk`). A volume appended with a letter already on the list is
  therefore behind every match, and `FirstMatch` chooses among the same
  candidates (`RegisterKeepsFirst`).

**Mounts** (`MountsProofs`), for every number of blocks, mount tasks, slots and sticks.
A step of `Mounts` is one of `FileIO`'s and a statement of its caller (`Access`), so
the lemmas of `FileIOProofs` about types apply to the registry's part of it.

- `MTypeCorrect`: `MSpec => []MTypeOK`.
- `SlotsStayConsistent`: `MSpec => []SlotsConsistent`. That a stick is left without a slot
  only when there are more sticks than slots is not inductive: `SlotsInv` says that taken
  slots hold different attached sticks (`SlotsApart`), so that when none is free, as many
  sticks as slots are seated and the next one makes more (a pigeonhole argument over
  `FiniteSetTheorems`). It needs no condition on the scenario.
- `NoTaskUsesFreedHolds`, `DoomFindsEHolds`, `SticksMountedHolds`: `MSpec /\ []BootHasRoom
  => [](Orderly => ...)`, the last one while the heap has a block left (`live # Drivers`).
  `BootHasRoom`: the heap has a block when boot registers a
  drive. `FileIO`'s theorems assume that every volume mounts; here volumes may fail to,
  and a driver is freed before it is unlinked, as in the code. `Orderly` says when that is
  harmless: no stick leaves while one is being mounted, and all volumes mount; or the
  sticks come after boot and either all of them are
  FAT, or there is only one and the disk has its E. A registration that fails is
  then never under way beside another. `mounts_hasty` shows that it must not be; that sticks
  may also leave in the middle of a mount, if the next comes after it, is
  model-checked (`mounts_calm`). The invariant
  `Calm` says where each caller is and what it holds (`CallersInv`, `DoomInv`), that E is
  registered once and by the time Doom runs (`EInv`), and, in `ListInv`, that the
  list consists of the allocated blocks and those still being unlinked (`Held`), and that a
  driver whose registration may fail stays at the list's end, behind the `prev` that its
  task remembers, until it is mounted or off the list: this is what makes the unlink,
  which writes through `prev`, remove the right block. `SticksInv` relates the drivers'
  letters to the slots, and with them what FatFs reads a stick through (`StickReads`).

**SMBus** (`SMBusProofs`). The inductive invariant `IInv` is `STypeOK`,
`LockExclusive`, `Owned` (a running transfer belongs to a task that polls, or to
the boot ROM), and for each task `Programmed` (the registers hold what the task
has written so far) and `Stage` (whether the controller is busy, and whether it
has a status to report, at each point of the code).

- `SMBusTypeCorrect`, `LockExclusiveHolds`: its first two parts. `STypeOK`
  contains the bound on the number of bytes a block read stores.
  `LockExclusive` is a lemma of the other proofs and no run lists it: `QuietWhileBusy`,
  which the run checks, is violated as soon as the lock fails.
- `QuietWhileBusyHolds`: `SSpec => [][...]_svars`; the tasks that could write a
  register are past `WaitReady`, where `Stage` says the controller is idle.
- `AtomicCallsHold`: `SSpec => AtomicCalls`, the refinement. A step of the code
  maps to a stutter except `Invoke`, the end of a transfer (`Succeed` or `Fail`
  of the task that polls, which `Programmed` says the controller works for) and
  `Return`.

**Sound** (`SoundProofs`), for every set of scenarios. The invariant `SndInv` is a
balance. A buffer that the task has taken a token for, or primes, is counted as its own
(`ToQueue`, `ToCount`) until it reaches the descriptors, and the counters, of an engine.
`Balance` says that with those, no engine has more queued than counted (`Queued`,
`Pending`, `Due`), and that the larger count and the tokens make two. When an engine
runs dry the handler takes its count down by less than it played; counts stay too high and a
token is lost, but none is made twice. `Alternate` says that the buffers in each
queue alternate up to the one the task filled last.

- `NoOverwriteHolds`: `SndSpec => []NoOverwrite`; by `Balance` an engine has at most one buffer
  queued while the task mixes, and by `Alternate` it is the other one.
- `AskedWhenTimelyHolds`: `SndSpec => []AskedWhenTimely`; while no engine runs dry the
  inequalities of `Balance` are equations (`Exact`), which gives the counts of the
  property, and one engine has no buffer owed.
- `SndTypeCorrect`: `SndSpec => [](~scenario.amid => SndTypeOK)`. The limits of two are
  results of the balance. When a buffer ends amid `XAudioProvideSamples` they do not
  hold (section 4): an engine may have three queued.

**DoomInput** (`DoomInputProofs`), for every length of the ring, every set of pads
and everything they send.

- `InputTypeCorrect`: `ISpec => []InputTypeOK`. `TypeInv` adds that what the USB task
  has still to post is a sequence of key events, which `PostsType` shows of every
  pair of reports.
- `RingIsQueueHolds`: `ISpec => []RingIsQueue`. `RingInv` says in addition what holds
  amid a post: events are left to post in the critical section only; while Doom's
  task is amid its own post, and no report has raced with it, the head is where it
  was read and the queue is one event ahead of the indices; and what is queued and
  still to post fits the ring. `PostIndex` and `ProcessIndex` are the arithmetic: the
  distance of the indices grows and shrinks by one, also across the end of the
  array. That the ring has room for what a report brings is the guard `Room` of
  `Report` (section 4), not a result: PureDOOM does not look.
- `NoKeyStuckHolds`: `ISpec => []NoKeyStuck`. `KeyInv` looks ahead: of the events that
  are queued or still to post, `Released` says that a key not held in the report they
  lead up to is up now or named by one of them, and that each press of it is followed by
  another event for it. So the whole sequence need not be summed up. What a report posts
  is put together from ten or so parts; `Deals` is what each part does for a key, and
  `DealsBoth` that it carries over to the concatenation.

**FatxDev** (`FatxDevProofs`), for every sector size, every device and every set of
requests that end on it. A property of one call needs to know where in its sectors the
call is, so the invariant `DInv` has three parts:

- `TypeInv`: `FTypeOK` and `Stage`, which says at each point of the code what part of
  the request is left (less than a sector at the end, at least one in the middle) and
  whether the next byte starts a sector. `ChunkEnds` and `FullEnds` are the arithmetic of
  `chunk_size` and of the whole sectors. `DevTypeCorrect` follows.
- `Transferred`: the bytes done so far are the same on the disk and in the buffer. It is
  preserved because a step changes only bytes behind them (`EarlierKept`), and it gives
  `WrittenWhenReportedHolds` and `ReadsTheDiskHolds`, since a call that returns with
  success has done all of `req.size`.
- `Cached`: when calm, the cache has its sector at every step, and is not one the current
  write overwrites whole. The second half is why `Calm` excludes such writes: without it
  the invariant is lost in `WriteWhole`, which is what `fatx_stale` shows. It gives
  `CacheCoherentHolds`, and with `WritePartialBytes` and `WriteWholeBytes`
  `OnlyTheRequestHolds`: the bytes of a sector written back that are not the request's are
  those the disk already has.

**ATA** (`ATAProofs`), for every size of memory and disk, every boundary and every set of
requests the assumption admits. A request that is not refused is smaller than the boundary, so
its table has at most two entries: `TableOf` unfolds the recursive function in
`PrdTable` to a closed form, `AddressesOf` that in `Addresses`, and
`TableCoversBuffer` shows that the entries name the bytes of the buffer, in order.

- `TypesCorrect`, `DmaStaysConfined`: `ASpec => []ATypeOK` and `ASpec =>
  DmaConfined`, with time-outs. `UseInv` says that the holder of the spinlock is
  the one task inside a command, that START is set only while it polls, and that the table
  is its request's.
- `TransfersReported`, `SyncsReported`: `ASpec => []TransferredWhenReported`, `ASpec =>
  []SyncedWhenReported`. The properties except the scenarios with time-outs,
  since a drive that was given up completes the old command under the next one. Without them `Calm`
  says at each statement of the call what state the drive is in and for
  which command, what the status bits are, and that past the poll the buffer is copied
  or an error is noted; a drive nobody uses is idle or has an error to report.

**Fatx** (`FatxProofs`), for every size of volume, cluster, page and request, and every
volume.

- `XTypeCorrect`: `XSpec => []XTypeOK`. That a cluster number is one of the volume's
  depends on where the call is, and where a call goes next on the labels it was left
  with. `TypeInv` adds the types of all the locals and `StackInv`: every label on the
  stack is one the routine behind it may return to (`Returns`) and one the running
  call comes to (`OpsAt`). `GoType`, `BackType`, `SubType` and `SubTwoType`
  are about the four ways a step moves on; each action is then a short proof about the
  fields it sets. `PageSteps` says that loading and writing the page changes nothing of
  the FAT as the driver sees it (`View`). The page may be loaded at any index.
- `NothingLeaked`: `XSpec => []ClustersAccounted`. `ClustersAccounted` looks at the
  FAT between calls only, when every chain is whole. The invariant `StructInv` says, for
  `Calm` volumes, what holds at every step (`Tidy`). `Forest(w, H)`: in the FAT `w` the
  clusters in use are exactly those the chains from `H` lead to, no cluster is led to by
  two, none of `H` by any. `H` is the directory, the first cluster of every entry
  (`Heads`) and what nothing leads to at the moment (`Loose`): a cluster that is allocated
  and not attached yet, or the rest of a chain being freed. Between the first cluster
  freed and the new end mark a truncated chain still leads to clusters that are free;
  `Remaining` is the FAT with that mark, and `Forest` holds of it, not of the FAT.
  `DirectoryInv` says that names and first clusters of entries differ, `WhereInv`
  where each call is: that its cluster is one of a file's chain, that a new one is
  neither reached nor the end of the chain it is for, that a name about to be
  created is not there. `TakenForest`, `AttachedForest`, `CutForest` and `FreedForest`
  are the four changes of the FAT. A chain is what closed sets contain (`Reached`) in
  the invariant, and what a walk of at most `NumClusters` steps visits in the property
  (`Nth`): `ChainsAreAll` and `ChainEnds` lead from one to the other by the pigeonhole
  principle, and `AccountedForest` back, for the volumes before the first call.
  That `Calm` has fewer files than slots is used once: it leaves room for the end mark
  (`Room`).
- `FilesApart`: `XSpec => OthersUntouched`. `OwnInv` adds to `StructInv` that the cluster a
  call reads, writes, cuts or frees is in the chain of the file it has looked up (`Own`).
  A step changes that cluster, the directory, free clusters and those of `Loose`, and
  no other (`Mine`, `OnlyMine`). Since the chains of a `Forest` do not meet, none of them but
  the directory is in another file's chain (`ChainsOfOthers`), and `SameChain` keeps a
  chain whose clusters keep their entries.
- `ClosedStored`: `XSpec => []ClosedOnDisk`. `StoredInv` is stronger between the statements
  of a call: a call that changes a file (`Modifying`), and a descriptor open for
  writing, is on one that is not closed, and when the flush of `fatx_fs_close` is done,
  before the file counts as closed, the disk's FAT is `View` (`Stored`). Steps that load or write the page move the disk towards `View`, which a closed
  file's chain shares already (`FatKept`); all others change what `FilesApart` says.
- `SurvivesIfPromised`: `XSpec /\ []FilesAsPromised => []ClosedSurvives`. It is conditional:
  that a file holds what was written is `FilesAsPromised`, which is model-checked. What it
  proves is that nothing more is needed for a power loss at any step: a closed
  file held its contents when its flush ended (`FlushingHolds`), its clusters hold them
  still, and the disk has its chain (`Survives`).

**Only model-checked**: `CallsReturn`, `LockReleased`, `SoundGoesOn`, `LockFreed` and
`RestReleases`, because liveness under fairness and `ENABLED` are beyond the prover;
of `Fatx`, `FilesAsPromised`, and `ClosedSurvives` except that it follows from it; the properties of `FileIO` when drivers are freed while nobody uses them
(`quiet`); those of `Mounts` when sticks leave in the middle of a mount. In the scenarios of `mounts_hasty` the theorems of `Mounts` are false. What
a recursive definition computes for all inputs would need induction theorems the
installed provers cannot instantiate. `FileIO` therefore defines the walk of the list
as a least closed set, `MountsProofs` takes a least slot from the well-foundedness of
the naturals (`LeastMember`), and `ATAProofs` unfolds its two functions as
often as a request needs.

## 6. What is not modelled

- The FAT glue, the vertical blank and the page flip, the console: planned,
  section 7. The results of the file systems are free in `FileIO` and inputs of
  `Mounts`.
- Of libfatx, `unlink`, `mkdir`, `rmdir`, `rename` and `utime`: nothing in `src/src`
  calls them (newlib's `unlink` and `rename` are not connected). Of the ATA driver,
  identification at boot, ATAPI (drive D is compiled out) and LBA48 (C and E lie
  within LBA28).
- The EEPROM and SMC clients: the boot task and the LED use them alone, and their
  transfers are calls of `SMBusAtomic`.
- Exhausted memory, except that `Mounts` runs out of heap blocks: the code checks
  some allocations and not others, and a model of the heap would be a model of
  FreeRTOS.
- The sample arithmetic of the sound task, video modes and encoder tables, the
  set-up of PCI, NIC, interrupts, PIC, IDT and timers: data and straight-line
  port writes without a state of their own. The 2BL stage and the ROM layout run
  once, before there is anything to interleave with.
- ISO 9660: its registration is compiled out (`src/src/main.c:122`).
- Vendored code (PureDOOM, FatFs, TinyUSB, FreeRTOS, LZ4, MIDI, font, the ia32
  headers): taken as it is; what the modelled code relies on is in the models'
  external actions, and PureDOOM's event ring, which two tasks share, is in
  `DoomInput`. It is more than nine tenths of the tree's lines, which is why the
  share of all lines that the models cover is small: the program's own code with
  state of its own is a few thousand lines.

## 7. Plan

In order of importance. Each step has its abstract specification or its
reference definition first.

1. `Frame`: vertical blank token, time-out and page flip.
2. `FlatDisk`, a flat array of bytes that `FatxDev` implements when calm, and
   `Fatx` on it with writes that fail.
3. `Console`: the mutex created on first use and the cursor.
4. `FatGlue`: the work areas FatFs keeps pointers to after a failed mount.
5. `Eeprom`: the cached EEPROM and the SMC conversations over `SMBusAtomic`, once
   more than one task uses them.

Proofs to add: what a file of `Fatx` holds (`FilesAsPromised`), for scenarios within
`CalmSeek`, on the chains of `StructInv` and `OthersUntouched`: where in its chain a read or
write is, and what of the request is done. `ClosedSurvives` then follows without a hypothesis.
