# CQEXT_cineraria: a TLA+ model of the WAV player

`src/qsf` is an FPGA system for the CQEXT_cineraria board: a Nios II processor
with peripherals of its own (SD card interface, PCM output, VGA scan-out) and a
program, `cineraria_wavplay`, that plays the WAV files of an SD card and draws
their waveform.  This directory holds TLA+ modules for the parts of it that are
hard to get right, TLC configurations that check them on small instances, and
TLAPS proofs of what holds for every instance.

## 1. The system

| part | source (under `src/qsf`) | state | operations | talks to |
|---|---|---|---|---|
| playback core | `software/cineraria_wavplay/{wav_player,playwav,getfilename}.c` | `g_wavsize`, `g_playsize`, `g_fsobj`, `g_datbuff`, `fatfs_dir` | main loop, `play_wav`, `play_stop`, `play_status`, `isr_handle_pcmfifofill`, `open_wavdir`, `get_wavfilename` | FatFs (calls), PCM (registers, interrupt) |
| PCM peripheral | `ip/pcm_component/` | STATUS, volume, 1024 word dual-clock FIFO | register writes, interrupt below 768 words, one word per 48 kHz sample | bridge, DAC |
| clock crossing bridge | `cineraria_core.qsys` | 4 posted commands, pending reads | accept, deliver | processor, every slow peripheral |
| HAL dispatcher | `software/cineraria_wavplay_bsp/HAL/src/` | ipending, handler table | exception entry, `alt_irq_handler` | handlers |
| FatFs R0.09 (vendored) | `.../mmcfs/fatfs/ff.c` | mount (`fs_type`, `id`), sector window, free count, open objects with a sector each | the `f_...` calls | disk I/O |
| disk I/O | `.../mmcfs/fatfs/mmcbb.c` | `Stat`, `CardType` | `disk_status`, `disk_initialize`, `disk_read`, `disk_write`, `disk_ioctl` | SD driver |
| SD driver | `.../mmcfs/mmc_spi.c` | transfer clock, chip select, timer | byte send and receive, DMA receive, card detect | SD controller |
| SD controller | `ip/mmcdma/` | byte shifter, DMA state, flags, timeout | register access, byte exchange, 512 byte block DMA | card, bridge |
| mmcfs | `.../mmcfs/mmcfs.c` | pool of 16 open files | HAL `open`, `close`, `read`, `write`, `lseek`, `fstat` | FatFs |
| VGA | `ip/vga_component/` | one line buffer, scan counters, status | a burst per line, syncs, overrun flag, vertical-sync flag | SDRAM, `nd_egl.c` |
| HAL descriptors | `software/cineraria_wavplay_bsp/HAL/src/alt_{open,close,fcntl,fd_lock,...}.c` | `alt_fd_list`, `alt_max_fd` | `open`, `close`, `read`, `write`, `lseek`, `fcntl`, `ioctl` | mmcfs, console |
| drawing | `.../nd_lib/nd_egl.c`, `drawwave.c`, `disp7seg.c`, `loadbmp.c` | frame buffer | lines, boxes, waves, digits | frame buffer |
| pixelsimd | `ip/custom_intsr_pixel/` | none | saturating pixel arithmetic | nobody |

How they interact.  The main loop walks the directory, hands each `.wav` file to
`play_wav`, and polls `play_status` until the track is over.  `play_wav` opens
the file, checks its header and calls the interrupt handler itself for the first
burst; from then on the PCM interrupt calls it whenever the FIFO has fallen below
its threshold, and the handler reads 256 words from the card and sends them.
`KEY0` makes the main loop call `play_stop`.  So two contexts use FatFs, which
has no lock (`_FS_REENTRANT` is 0), and share four variables, with only the
peripheral's interrupt-enable bit to keep them apart; and that bit lies behind a
bridge that takes a write before the peripheral has seen it.

What is hard here:

* concurrency: the handler against the main loop, the posted writes against the
  interrupt line, the SD controller against the driver's polling, the scan-out
  against the drawing;
* failure: the card can be pulled out or fail in every call, a mount makes every
  open object stale, a file can be shorter than its header says;
* ordering: reset, mask, data and unmask all travel through the bridge; `PLAY` is
  polled right after words are written;
* boundaries: the FIFO's fill level is never read, the threshold alone leaves
  room for a burst; the length of a burst comes from an unsigned difference that
  wraps after `play_stop`.

What makes each part correct:

* playback core: the DAC is given each track in order, once, to its end or until
  it is stopped; nothing of a track survives into the next; the handler never
  meets the main context inside FatFs; `play_stop` and every track end;
* PCM and bridge: no word is lost; the order of the writes is kept;
* dispatcher: it finds the interrupt it was entered for;
* SD controller and driver: a flag the driver believes belongs to the transfer it
  has started; a block reported read is the one asked for; a failure is reported
  only when there was one; no byte is written to an engine that is not listening;
  a block that comes after the timeout is not taken for another one;
* disk functions: what is reported read or written is what was asked for, on one
  card;
* FatFs: files are sequences of bytes whatever caches and clusters lie between;
  no cluster belongs to two files, after a power loss either; a listing is complete;
* mmcfs: an open file has a slot of its own, and none is given out twice;
* VGA: a row on the screen is the row of the frame buffer, and a late one is
  reported;
* drawing: a call changes the points of its figure and nothing else; the wallpaper
  survives the level display.

## 2. The modules

```
PcmPort            the PCM peripheral and the bridge in front of it
  WavPlayer        player, handler, dispatcher, file validity; the properties
    WavPlayerInv   the inductive invariant
      MCWavPlayer        instances for TLC
      WavPlayerProofs    TLAPS proofs, of the refinement of Playback too
Playback           what the listener is promised; WavPlayer implements it

Loop               a loop of the program as one value
  LoopProofs       TLAPS proof: what each round keeps holds behind the loop

FatVolume          sector window, FAT, cluster chains, the disk that may fail
  FatDir           directories, long names, paths
    FatFile        every call of ff.c as an operator
      FatFs        a program that uses them in any order; power loss
        FatFsInv   the inductive invariant
          MCFatFs      instances for TLC
          FatFsProofs  TLAPS proofs
FileStore          what a file system promises; FatFs implements it

DiskIo             mmcbb.c's disk functions over a card's commands
  MCDiskIo         instances for TLC
  DiskIoInv        the inductive invariant
    DiskIoProofs     TLAPS proofs

MmcDma             the SD controller, one step for each bus clock
  MmcSpi           the driver that polls it, the card; the properties
    MmcSpiInv      the inductive invariant
      MCMmcSpi         instances for TLC
      MmcSpiProofs     TLAPS proofs

MmcFs              the HAL's descriptors and mmcfs's slots
  MCMmcFs          an instance for TLC
  MmcFsProofs      TLAPS proofs

Egl                the drawing library
  Screen           wallpaper, level display, vertical sync
    MCScreen       an instance for TLC
    ScreenInv      the inductive invariant
      ScreenProofs     TLAPS proofs

VgaScan            sync generator, burst reader and readout under three clocks
  VgaScanInv       the inductive invariant
    VgaScanProofs    TLAPS proofs
```

The families meet in the success or failure of a call.  What `MmcSpi` promises of
a block is what `DiskIo` takes a packet for; what `DiskIo` promises of a sector is
a disk access of `FatVolume`; that `f_read` brings the file's bytes or fails is
what `WavPlayer` and `Screen` take for granted; `MmcFs` stands on the same calls.

**PcmPort.**  `bridge` is the sequence of posted writes, `irqena` and `fiforst`
are the bits of STATUS, `fifo` is the play FIFO and `dac` what the DAC was given
last.  `Post` is an `IOWR` (it waits while the bridge is full), `Flushed` is the
condition under which an `IORD` completes, `Deliver` lets one write land and
`Tick` is one sample period.  `Irq` and `PLAY` are read directly from the
registers: the interrupt line does not pass through the bridge.

**WavPlayer.**  `pc` is where the main context is, `rt[c]` where context `c` is in
the handler (the main context runs the handler's body too, from `play_wav`).  A
call into FatFs has a label of its own, so that an interrupt can come while it
lasts.  The handler is `IsrMask` (mask, choose the burst), `IsrRead` or
`IsrReadError` (`f_read`), `IsrSend` (one `IOWR` per word), `IsrUnmask` or
`IsrSent` and `IsrClose`.  The dispatcher is `HalTake` (exception), `HalTest` (the
entry code reads `ipending`), `HalFind` (the handler looks for the bit) and
`HalAgain` (the loop's second look).  The main context is the directory walk
(`NoName`, `GetName`, `OpenDir`), `play_wav` (`Open`, `ReadHeader`,
`CloseHeader`, `Load`), the loop (`Poll`, `Key`, `Release`) and `play_stop`
(`StopMask`, `StopTest`, `StopEnter`, `StopClose`, `StopClear`, `StopWait`).

Of FatFs the model keeps what decides whether a call succeeds: `ready` (the
volume is mounted and `Stat` lacks `STA_NOINIT`), `g_fsobj.open` (the object is of
the present mount), and the fact that any exchange with the card may fail.
`disk_status` copies `Stat` and writes the copy back at the end; when an
interrupt comes between, the handler's verdict is overwritten, which is what
`stat` and `torn` are for.  A sample is `<<file, index>>`, so a sample from the
wrong file or the wrong place is seen as such; sizes stay in bytes because the
code confuses bytes and words.

**Playback** is the abstract specification: a track begins, its samples come out
in order, silence may come between.  `WavPlayer!PlaysTheFile` is the refinement,
with the DAC's last sample as the output and the history variable `due` as the
number of samples heard.

**MCWavPlayer** gives four files: one longer than the FIFO, with trailing data and
a length that is no whole number of words, one of exactly one burst, one of less,
one that `play_wav` refuses.

**MmcDma.**  `Clock(o)` is one edge of the bus clock while the processor presents
`o` (nothing, a read or a write of one register).  It is the conjunction of the
code's processes: `Engine` and `Timer` are the process of `avalonif_mmc.vhd`,
`Start` the register of the start bit, `Dma` the state machine (`Idle`, `Set`,
`Wait`, `Response`, `BlockByte`, one for each arm of its `case`), `Bus` the
registered read data and the registered address of the buffer's memory.  All of
them read the old values, as signals do, so every cycle of delay between the
start bit, the done flag, the zero flag of the timer and the data of the bus is
in the model.  While the DMA is not done, `ToEngine` gives the engine to it and
the processor's writes are lost, as at `avalonif_mmcdma.vhd:297`.  Abstracted:
the eight bits of an exchange are a number of cycles (`ByteCycles`), a byte is
one of `FF`, `FE`, an error, a CRC byte or byte `k` of block `t`.

The card is what it has yet to say (`card`): a number of `FF`, then nothing, or a
refusal, or the token, the block and two bytes of CRC.  It speaks only when asked
for a block and only while selected; a card that is clocked while deselected
forgets what it had to say.  The last is an assumption about cards that the
driver relies on when it abandons a read with `deselect`; `LateBlockGone` stands
and falls with it.

**MmcSpi.**  `pc` is the access the driver is at.  A write is one cycle; a read is
held for `ReadWait` + 1 cycles and takes the data of the last one (`_hw.tcl`:
`readWaitStates` 2, no wait for a write); between two accesses any number of
cycles may pass (`Gap`).  `Sendbyte`, `Recvbyte`, `Select`, `TimerWait` and
`DmaRecv` are the functions of `mmc_spi.c`, access by access.  The callers of
`mmcbb.c` are modelled by the orders in which they may call: any byte, select
change or wait after any other (`Call`), a block read when the card is selected
and has just answered (`AskBlock`, from `disk_read`), two bytes of CRC behind a
block (`DiscardCrc`), `deselect` behind a failure.  `waited` is a history
variable: the cycles since the timer was set for this read.

**FatVolume, FatDir, FatFile, FatFs.**  A call into FatFs is one step of the
program: `_FS_REENTRANT` is 0 and nothing runs beside it.  Inside, every operator
is a function of the code and passes a record `m` along in the code's order: the
disk, the window (`win`, `winsect`, `wflag`), `last` and `free` of FSInfo, the
file object `fp` and the directory object `dj` of the call.  `fuse` counts disk
accesses down; the access at which it reaches 0 fails, and with `dead` every
later one, which is a power loss in the middle of the call: afterwards `disk` is
all that is left and the volume is mounted anew.  A loop of the code is
`While(Body, x, n)` of `Loop`: `x` holds its variables, `Body` is one round
(`FreeOne`, `FindOne`, `ReadSome`, ...), and `n` rounds are more than it can take on a
sound volume; one that has still not ended (a chain that is a ring, on which the
code would go on for ever) returns `FR_INT_ERR`.  A sector of a directory is `SS`
entries of 32 bytes, and a byte of a file stands for as many: then a directory's
cluster and a file's are alike.  Names are members of a set; a name has a number of
entries (`Slots`) and a short form with a number when it is long (`Stem`), which is
what `dir_register` and `dir_find` tell apart.  `tree` and `files` are what the disk
holds after the call, computed once for the properties.

**FileStore** is the abstract file system: files are sequences of bytes, handles
are positions.  `StoresFiles` is the refinement.  A power loss is allowed to leave the
call undone, done, or, for `f_rename`, done half (the code says so at `ff.c:3445`).
Of a file that is open for writing when the power goes nothing is promised, not even
what `f_sync` has written: the two `Kept` of `FileStore` leave such files out.

**DiskIo.**  One step is one command or one data packet.  `card` is the card's own
state (native, idle, ready; what transfer it is in; busy), `media` what is stored
on each card, `slot` which one is in the socket.  `Swap` exchanges it at any
moment, also within a call, and `disk_status` notices only when it is called.
Assumed of cards: in the middle of a transfer a card answers only the command that
ends it; a block it accepted is stored (the driver sends no CMD13); a card that is
pulled out while busy has the sector.  How long waits last is left open.

**MmcFs.**  `alt_fd_list` is the HAL's table, `table` the FIL objects, `stack` the
pool of free slots (`dev_mmcfs_fd`).  `At(fd).flags` is `fd_flags`: the open mode
until `mmcfs_open` returns, the slot's number from then on, as in the code.
`owner` and `asked` of a FIL are history: which descriptor it was opened for and
with which mode.  Every FatFs call may fail.

**Egl, Screen.**  Every drawing call is an operator that gives the points it
plots; `Called` puts them into the frame buffer one by one through `nd_GsEglPset`.
One colour channel is modelled: the three are handled alike.  `Screen` is main's
order: grey window, `loadbmp`, `drawwave_init`, then `drawwave` behind each
`nd_GsVgaWaitVsync`; or a program that only uses the library.  A bitmap has a
size, a depth, a length in bytes (it may be cut off) and pixels; `loadbmp` reads
a row in a step, and where the card fails is left open.  Memory never written is `Junk`.

**VgaScan.**  One action for an edge of each clock.  `VideoEdge` is the process of
`vga_syncgen.vhd` and the readout of `vga_avm.vhd`, `BusEdge` the synchronizers and
the burst reader, `PeriEdge` the overrun flag and the register accesses of
`nd_GsVgaInit`, `nd_GsVgaSetBuffer`, `nd_GsVgaScanOn` and `nd_GsVgaScanOff`, each
read-modify-write in two steps.  How many bus and peripheral edges fall between
two video edges is a set of numbers, because the video clock has a PLL and a
reference of its own.  The memory answers when it likes.  `pixelcount` samples
`datacount` across the clocks without a synchronizer: every bit may be the old or
the new one.  `late` is history.

## 3. The runs

| run | instance | result |
|---|---|---|
| `play_and_stop` | FIFO 4, threshold 3, bridge 2, burst 2; keys and faults; fairness | the invariant of the proofs, all safety properties, the refinement of `Playback`, `play_stop` returns or the dispatcher has hung, every track is played through, ends and comes again |
| `spurious_interrupt` | the same without faults | violated: the dispatcher can miss its interrupt |
| `truncated_file` | FIFO 8, threshold 6, bridge 3; one file cut off; no keys, no faults | violated: stale words are sent |
| `fat_data` | FAT16, two handles on two files, 2 writes or seeks, 3 calls with a path; power loss at any of 12 accesses | chains are sound, FAT copies and free count agree (`FatConsistent`), the refinement of `FileStore` holds |
| `fat_dirs` | FAT32, a short and a long name, a folder with the same long name; 4 calls with a path; power loss at any of 20 accesses; the root is listed meanwhile | the same, with the inductive invariant `FatInv` in place of `FatConsistent`, which follows from it; and listings are complete |
| `fat_disk_error` | FAT32, one file, the first, second or third access of a call fails | violated: the rest of a file is cut off, and the call reports success |
| `disk_swap` | a card of each SD kind, one write-protected; 5 calls, 2 exchanges, 1 fault | what is reported read or written is right |
| `mmc_start` | an MMC that answers every command | violated: it is never initialized |
| `sd_block_read` | 2 words of 2 bytes, 3 cycles a byte, 2 wait states, timeout 12, latency 2; fairness | the invariant of the proofs, all safety properties of the driver, and that every block read ends |
| `descriptors` | 5 descriptors, 6 slots | an open file has its own slot, keeps its mode; a lock is granted beside the highest descriptor at most, and nobody joins it |
| `screen` | window 6 by 11, six bitmaps, three sounds; fairness | figures are right, the wallpaper is kept, the light goes out |
| `vga_scan` | lines of 14 with 8 pixels, frames of 4 with 2 rows; 1 or 2 bus edges for a video edge; fairness | rows in time are shown right; a readout that falls behind raises the overrun flag, though the flag may be taken back in the same line |

Bounds.  *Player.*  The source's 1024 words, threshold 768, burst 256 and bridge
depth 4 are constants.  The small values keep what matters: threshold + burst <=
depth + 1 with equality, a bridge as large as a burst (larger in `truncated_file`),
a file of several bursts, one of exactly one burst, one of less.  `UintMod` = 64
stands for 2^32; it is larger than a burst in bytes, as 2^32 is, and every wrap of
`g_wavsize - g_playsize` happens in the runs (`play_stop` clears `g_wavsize` under a
handler that is about to compute a burst).  The model has no counter without bound:
`due` is bounded by the track.

*SD driver.*  A byte takes 3 cycles and the timeout is 12, so with 0 to 2 bytes of
latency the token comes at once, in the last exchange before the timeout, in the
one in which the timer runs out, or after it; the gaps between the driver's
accesses move the start of the transfer against the timer by any number of cycles.
Two words of two bytes tell the first, a middle and the last byte, and the first
word from the last.  Block numbers are modulo 2: that is enough to tell the block
asked for from the one before it.  `waited` stops at the timeout.

*FatFs.*  `MaxMoves` and `MaxPaths` bound the calls, `Fuses` the access that fails:
it reaches past the longest call of the instance.  Clusters of one sector and of
two, files that end in the middle of a sector, at its end and in a second
cluster, a disk with fewer clusters than the files ask for, a directory that
outgrows its cluster all happen.  `FileLimit` (source: 4 GB) is 12 bytes in `fat_data`,
so that writes are refused for it, and the source's own value in the other two.  After a power loss the program goes on, and a
second loss is not tried.

*Cards.*  `MaxCalls` 5, `MaxSwaps` 2 (out, and another one in) and `MaxFaults` 1
are enough for an initialization, a read or write, an exchange within it and one
more call on the new card.  A sector has 2 bytes, so a byte address is told from a
block address.

*Descriptors.*  Three descriptors are the console's, so two are for the program;
6 slots are one more than descriptors, so that closes that fail can use up slots
before descriptors run out (source: 32 of each).  A file has at most one byte.

*Screen.*  The band of the level display is 1 + 8 + 1 rows in place of 8 + 160 + 8
(`Edge`, `Half`), the height of a sample and its light are scaled (`RowDiv`,
`Glow`) so that full scale is two rows from the middle and -32768 again gives 256.
At most two frames have sound (`MaxLoud`), the card fails before the first row or
behind the third (`Broken`).  The library is called once behind a change of the pen.

*Scan-out.*  Four words of a line (8 pixels), two rows of a frame, one page besides
the reset value; the bus has 1 or 2 edges in a video period (source: 5 or 6) and the
peripheral clock 1 (source: 1 or 2, and one is the hardest for the flag).  Eight
pixels are enough for the flag to rise, for a read-modify-write begun before to take
it back, and for the readout to be late again, all within the active part of a line.
The program sets a buffer, scans, stops scanning and ends.  Within a
video period the bus edges come first: only the frame buffer's address passes
between the two clocks, and the program sets it in any period.

`CHECK_DEADLOCK` is off where a bound on the calls ends a behaviour (FatFs, DiskIo,
Screen).  Elsewhere a clock always ticks, so a hung program would not be a deadlock;
what hangs is found by the liveness properties.

Fairness.  *Player*: the processor executes (weak fairness of the main context and
of the interrupt context), the bridge delivers, the audio clock runs.  Which way a
failing card answers, and whether a key is pressed, is left open; `EveryTrack`
speaks of behaviours in which the card at some time stops failing, `PlayedThrough`
of those in which from some time on no poll of the keys finds one pressed either
(`Pressed`; the polls themselves go on).  *SD driver*: a function that has begun
does its next access; the gaps may be of any length but end, and the card owes
nothing: `DmaRecvReturns` holds for a card that never answers because the
controller's timer ends the wait.  *Screen*: weak fairness of main's steps and of
the vertical sync; strong fairness of the wait for the flag, because the flag
stays turned for 16 ms and a poll takes less than a microsecond: weak fairness
would let every poll miss it by two turns.  *Scan-out*: each clock runs.

## 4. What the runs found

* **An interrupt can vanish under the dispatcher** (`spurious_interrupt`).
  `play_stop` masks the interrupt by a posted write (`playwav.c:135`) and does not
  mask it at the processor.  When the FIFO falls below its threshold just then,
  the exception is taken, the write lands, and the dispatcher finds nothing
  pending: `alt_irq_entry.S` takes the exception for an unknown instruction
  exception and breaks or loops, or `alt_irq_handler` searches for a bit that is
  not there.  The HAL's own comment names the case.  `HungOnlyInStop` (checked and
  proved) says that it can happen nowhere else.
* **A truncated file plays old samples** (`truncated_file`).  `readsize < n` at
  `playwav.c:56` compares bytes with words.

* **A disk error cuts off a file** (`fat_disk_error`).  `create_chain`
  (`ff.c:991`) compares the answer of `get_fat` with 2 and with `n_fatent` only, so
  `0xFFFFFFFF`, the disk error its own header names, passes for the end of the
  chain.  A free cluster is linked in place of the rest of the file.
* **An MMC is never initialized** (`mmc_start`).  The code chooses CMD1 for a card
  that refuses ACMD41 and then sends ACMD41 all the same (`mmcbb.c:447`).

The model of the player has no clock.  It lets the masking write of `play_stop` stay
in the bridge for as long as it likes, and then the handler can run inside the
`f_close` of `play_stop`.  On the board the write lands within a few bus cycles,
sooner than the exception entry has saved its registers, so this second race is not
counted as a finding; `ReentryOnlyInStop` shows that it is the only place, and
`PlaysTheFile` that even there nothing wrong is played.

Seen while modelling, and left out of a property with the reason given:

* `DrawsShape` leaves out a line at an exact right-to-left diagonal
  (`nd_egl.c:364` swaps the ends by the sign of a sum that is 0), a box whose
  corners are not given from top to bottom (`nd_egl.c:294`) and the number
  -2^31 (`nd_egl.c:584`): the code draws something else.  For the line that is
  against its header, which promises a line from (x1,y1) to (x2,y2)
  (`nd_egl.c:355`); of the other two the repository says nothing.
* `Load` takes a header that was read in full; `loadbmp.c:45` goes on with sizes
  it never set when the file is shorter than one (`Garbage`), and `PictureKept`
  says nothing of that picture.
* `f_truncate` (`ff.c:3142`) keeps a dirty sector of the part it cuts off, which a
  later flush writes to a cluster that is free or another file's by then.  The
  program does not call it, and the model of FatFs leaves it out.
* `OwnFile` holds as long as `fcntl(F_SETFL)` is not used on a file: it rewrites
  bits of the slot number (`alt_fcntl.c:89`).  The program does not use it.
* `alt_fd_lock` grants a lock although another descriptor has the device open.
  Its comment (`alt_fd_lock.c:43-45`) grants one only when there is no other; the loop
  (`alt_fd_lock.c:61`) ends one before `alt_max_fd`, which is the index of the highest
  descriptor ever open and not a count.  With the device open as 3 and as 4, the
  lock is granted to 3.  `LockKept` bounds this: at the grant one other user at most,
  and only that descriptor; from then on none that comes later.  The program of this
  repository takes no lock.
* An overrun is reported a word late (`vga_avm.vhd:207`, `<` where `<=` would tell
  that the word being read has not come), and a last word that is late is not
  reported, though the next line is then lost and the lines below it shift.
* The overrun flag is set by the edge of `overrun` only, and a write to the control
  register with its bit clear takes it back (`vga_component.vhd:264`).  A
  read-modify-write that was under way when the flag rose clears it while the readout is
  still behind, and there is no second edge in that line: what is late after it in the
  line is not reported.
  `LateReported` therefore speaks of the moment the readout falls behind
  (`FallsBehind`) and not of every late word.  The comment at the port
  (`vga_avm.vhd:51`) says the signal falls at the frame's start; the code lets it
  fall outside the active part of every line.

## 5. What is proved

`WavPlayerProofs` proves, for every depth, threshold, burst, bridge depth,
directory and set of files that `PortAssumption` and `PlayerAssumption` admit,
with card failures and keys:

* `Invariance`: `Spec => []IInv`;
* from it `TypeCorrect`, `NoSampleIsLost`, `StartsClean`, `ReentersOnlyInStop`,
  `ArmedMeansWork`, `BurstsWithinClaim` and `HangsOnlyInStop`.

The assumptions: the threshold leaves room for a burst (`Threshold + Burst <=
Depth + 1`; 768 + 256 <= 1025 in the source), a burst in bytes is less than
2^32, lengths are below 2^32, and samples are samples.

The invariant (`WavPlayerInv`) says who may run where (`ControlInv`), what may be
in the bridge (`BridgeInv`: no word behind a write that enables the interrupt;
room in the FIFO for every word under way), that the FIFO has left reset before
a word is sent (`ResetInv`), what the handler may count on (`HandlerInv`,
`BurstInv`), which file is behind `g_wavsize` (`FileInv`), and what the state
looks like between tracks (`QuietInv`), while one is heard (`LoudInv`), while one
plays (`PlayInv`) and under `play_stop` (`StopInv`).  `NoSampleLost` alone is not
inductive: that a burst fits follows from the fill level when the handler began,
which follows from the interrupt having been on, which must not be on while
words are under way.  `PlayInv` is needed for the end of a track: when the main
loop sees `PLAY` fall with the bridge empty, the interrupt cannot be on, because
an empty FIFO with the interrupt on would have been served first; so the file has
been closed and the next track finds everything at rest.

The proof has one lemma for each kind of step on the port (`StatusPosted`,
`WordPosted`, `Landed`, `Sampled`, `PortKept`) and one for each action or group of
actions of the player.

The second part of the module goes on to what the listener hears, for the same constants
and every directory with `WholeFiles`, in which no header claims more bytes than
its file holds:

* `Stream`: `WholeFiles /\ Spec => []RInv`;
* from it `BurstsWereRead` (`SendsOnlyWhatWasRead`) and `Refinement`
  (`PlaysTheFile`): every step of the player is a step of `Playback` or a stutter.

`WholeFiles` is needed: `truncated_file` violates `SendsOnlyWhatWasRead` without it.
`StreamInv` lays the words heard, in the FIFO, in the bridge and still to be sent
end to end and says that they are consecutive words of the one file, with no status
write among those in the bridge.  `ProgressInv` ties `g_playsize` to its length:
they agree outside of a burst, inside one they differ by what is left of it.
`ReadInv` says that `g_datbuff` holds the words that `f_read` was asked for, which
is where `WholeFiles` enters.  The step of the DAC then takes the next word of the
track, and `IInv` gives the rest: no track begins before the last one is silent.

Only model-checked: `StopReturns`, `TrackEnds`, `PlayedThrough`, `EveryTrack`.
Liveness under fairness is out of the prover's reach.

`MmcSpiProofs` proves, for every block length, word width, length of an exchange,
number of wait states from 2 on, timeout and latency that `DmaAssumption` and
`SpiAssumption` admit:

* `Invariant`: `Spec => []IInv`, with the invariant of `MmcSpiInv`;
* from it `TypeCorrect`, `HandshakeCorrect` (`DoneIsOurs`), `NoByteLost`
  (`NoByteIgnored`), `BlockCorrect` (`BlockIntact`), `FailureCorrect`
  (`FailsForAReason`), `ReceiveCorrect` (`ReceivedByteIsFresh`),
  `LateBlockCorrect` (`LateBlockGone`) and, as an action property,
  `SelectCorrect` (`SelectedAsAsked`).

`ReadWait >= 2` is not for convenience.  The done flag falls one edge
after the start bit is taken, and the bus shows it one edge after that; a read with
a single wait state could take a flag that is still that of rest.  The mutant of
`DoneIsOurs` takes the data one cycle early and fails.

The invariant follows one read.  `HandshakeInv` gives its phases (asked for, taken
up, running, at rest) and bounds how far a read may have come in each, which is
what makes the driver's first look at the flag safe.  `TimerInv` ties the timer to
`waited` and says that the zero flag of an earlier wait has gone by the time the
first byte is in.  `BeforeBlock`, `InBlock` and `AfterBlock` say where the card is
in its speech for each state of the DMA: as many bytes stored as said.  `CopyInv`
follows the registered address and data through the copy, `CrcInv` and
`SilentInv` the card through the CRC and after a failure.  The proof has one lemma
for what an operation presents (`Operations`), one for each kind of cycle outside
and inside a read (`QuietOutside`, `QuietInside`), one for each phase of the
transfer, and one for each function of the driver.

`FatFsProofs` proves, for every geometry that `VolumeAssumption` admits (FAT16 and
FAT32, one FAT or two, every size of sector, cluster, FAT and root), every set of names,
files, folders, handles and arguments (`NamesAssumption`, `CallsAssumption`: a path is
not empty, a name takes at least one entry, lengths are natural numbers) and calls in any order:

* `FatInvariance`: `Spec => []FatInv`, with the invariant of `FatFsInv`;
* from it `FatCorrect` (`FatConsistent`).

Both start from a freshly formatted volume and assume `Dead \subseteq {TRUE}`: an access to
the disk fails only when the power is gone, at any access of any call.  The hypothesis
cannot go: when the write of the second FAT fails and the program lives on, `move_window`
says nothing of it (`Reflect`) and the copies differ; `fat_disk_error` shows another loss.
Behind a power loss `FatConsistent` claims nothing (the code repairs nothing at a
mount), so neither do the theorems; that no cluster belongs to two files then is
`ChainsSound`, which TLC checks.

`FatConsistent` speaks of the count and of the copies only, and neither is kept by itself.
`create_chain` counts down because the cluster it found is free, and counts once because it
links that one and no other.  `remove_chain` counts up for each entry it clears, and none
was clear before; all this holds only if what is in the window is the sector of the FAT it is
labelled as.  Other writes meet the same window and the same disk: an entry of a
directory marked through the window, a file's buffer flushed to `dsect` behind the
window's back, the clusters that `dir_next` and `f_mkdir` clear with the label moved
from sector to sector.  So the invariant has to say where each of them may write:
the window is on a sector of the FAT or of a table, never on a second FAT, and dirty
only there (`WinOk`); the FAT holds links and the tables entries (`DiskOk`); a clean
window on the FAT is what the disk has, and the copies differ at most in the
dirty sector (`CopiesOk`); a directory object points to the sector of its index
(`Points`, in `list` between two `f_readdir`); a file object's pointer is in its file,
in a cluster of the data area, its buffer belongs to a table or data sector, and its
entry is in one (`FileOk`).

The proof goes through the calls bottom up.  For each operator there is a lemma
that says from which records it may start and what it leaves (`MoveRuns`, `CreateOk`,
`RemoveRuns` up to `OpenOk`, `RenameOk`, `ReaddirOk`), for each loop an invariant
(`FreeInv`, `TryInv`, `CountInv`, `Looking`, `ReadInv`, `WriteInv`, `SeekInv`, `DotsInv`, ...)
and an instance of `WhileKeeps`.  That theorem holds for every body and every
invariant; `SetInduction`, proved from the library's well-founded
induction, is the hypothesis an instance needs.  `DotsInv` is about the one
place where the window may hold, for a while, what does not belong to its label: `f_mkdir`
prepares the dots in the window before it says which sector it is on.  `ClearInv` says
that freeing a file's chain leaves alone what the tables hold, so that `f_open`, which
clears the chain with the file's entry still in the window, comes back to it.  One lemma for each action of `FatFs`
(`OpenKeeps`, ... `ReaddirKeeps`) puts them together.

`DiskIoProofs` proves `DiskInvariance` (`Spec => []DInv`), for every number of cards,
sectors and calls, and from it `TypeCorrect`, `ReadCorrect` (`ReadRight`), `SyncCorrect`
(`SyncSettles`) and `WriteCorrect` (`WriteRight`).

`MmcFsProofs` proves, for any number of descriptors and slots, `TypeCorrect`,
`OwnFileCorrect` (`OwnFile`), `ModeCorrect` (`ModeKept`) and `LockCorrect` (`LockKept`).
`LockInv` is what the last needs: a descriptor above the highest ever open is free, so
what the loop of `alt_fd_lock` leaves out is one descriptor and no more.

`ScreenProofs` proves `ScreenInvariance`, `TypeCorrect` and `PictureCorrect`
(`PictureKept`), for every window, bitmap and sound; `VgaScanProofs` proves
`VgaInvariance`, `TypeCorrect` and `PictureCorrect` (`PictureRight`), for every geometry
whose sync and porch are long enough for the synchronizer (`VgaAssumption`).

Only model-checked: `DmaRecvReturns`, `LateReported` and `FadesOut`, which are liveness;
`DrawsShape`, because what Bresenham's error term and Michener's octants have drawn after
`n` steps is an induction over `n`; and of `FatFs` `ChainsSound`, `StoresFiles` and
`ListsAll`.  `ChainsSound` and `StoresFiles` hold behind a power loss too, so their invariants
would be ones of every access inside a call, and they speak of whole chains, of the tree
of directories and of the bytes of files, which are recursive functions of the disk.
`ListsAll` relates a listing to every entry made or removed meanwhile.

A by-product: `StopInv` says `after = "release"`.  The call of `play_stop` inside
`play_wav` (`playwav.c:198`) is never reached from this main loop, which has
always waited for the track to end.

## 6. What is not modelled, and the plan

Abstracted in the modules above: the volume register; the lag of the play FIFO's
counters across the clock domains (a few cycles; it makes a sample period come
later); in FatFs the parsing of a boot sector (`chk_mounted` finds or does not find
a volume), FAT12 (its entries of twelve bits may lie in two sectors, so that `get_fat`
and `put_fat` move the window twice and either move can fail, `ff.c:832`, `ff.c:878`, and
`f_getfree` counts through `get_fat`, `ff.c:3099`), the characters of names, time stamps, `f_truncate` and
`f_utime`; in the SD family the bits of a byte, the
clock divider, `mmc_spi_InitSocket`, the interrupt outputs (never enabled), reads by
DMA of less than a block, the ioctl codes that only read registers of the card
(where `rcvr_datablock` at `mmcbb.c:258` would ask `DmaRecv` for twice the bytes) and
the voltage check.

Not modelled, and why:

* `option/cc932.c`: a table of 3700 lines; it translates characters, which the
  models do not look at;
* `system.h`, `cineraria_core/`, PLLs, `alt_sys_init.c`: generated; the bridge is the
  only part with behaviour that matters to the program, and it is in `PcmPort`;
* the HAL's drivers (EPCQ flash, JTAG UART, timer), alarms, `alt_log`, start-up
  code: vendored, and not on any path of the program's logic;
* `usbhost_component` and `pixelsimd`: no source of the program uses them;
* `disp7seg.c`: a callback of the timer's interrupt, 32 times a second, which reads
  `play_status()` and puts digits into a port.  It changes nothing the player looks
  at.  The time it shows is negative for a track of 2 GiB and more (`playwav.c:102`,
  `disp7seg.c:55`), which indexes its table of digits from below;
* the DVI transmitter.

More than a half of the repository's lines of C and HDL are of these kinds, which
is why the modules stand for less than a third of all lines.

What is left of the plan, in order: the `f_truncate` family; `disp7seg` and the digits it
shows.
