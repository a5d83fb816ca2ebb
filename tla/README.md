# Models of the CSCI 3753 programs

This directory holds TLA+ models, TLC configurations and TLAPS proofs for the
operating-systems coursework in this repository (`CSCI3753/`).  The repository
is a set of independent programs; the ones with logic of their own are the
threaded DNS resolver of PA3, the paging simulator of PA4 with its pagers, the
encrypted file system of PA5 with the example it was made from, and the
readers-writers programs.

Paths below are relative to `src/CSCI3753/`.  `tlc -config X.cfg M` runs a
configuration and `tlapm M.tla` checks the proofs of a module.

## Inventory

| Component | Source | State | Operations | Interaction | Modelled by |
|---|---|---|---|---|---|
| Bounded queue | `PA3/PA3-files/queue.c` | array of payloads, `front`, `rear` | init, is_empty, is_full, push, pop, cleanup | called by multi-lookup, and by queueTest alone | `QueueRing`, `Queue`, `Fifo` |
| Queue test | `PA3/PA3-files/queueTest.c` | the step it is at | pushes, pops and asks the queue, and reports what is not as expected | the only client of its queue | `QueueTest` |
| multi-lookup | `PA3/PA3-files/multi-lookup.c` | `reader_count`, three mutexes, the queue, thread locals, output file | reader, writer and main threads | shared memory; two polls of the queue without its lock | `MultiLookup` |
| dnslookup | `PA3/PA3-files/util.c` | none | host name to address | called by writers; fills a buffer or leaves it alone | `Lookup` in `MultiLookup` |
| Paging simulator | `PA4/simulator.c` | process queue, a process per slot with program counter, branch counts and page states, free-frame counter | allstep, allage, callyou; pagein and pageout for the pager | one thread: a step of every slot, aging, then the pager, in every tick | `Simulator`, `Frames` |
| Branch engine, programs | `PA4/simulator.c`, `PA4/programs.c` | a count and a limit per branch | decide whether a branch is taken | inside process_step | `BranchesAt`, `MayTake`, `MaySkip` in `Simulator` |
| Pagers | `PA4/pager-basic.c`, `pager-lru.c`, `pager-predict.c` | none; timestamps; transition counts | pageit | calls pagein and pageout | `PagerBasic`, `PagerLRU`, `PagerPredict` |
| API test | `PA4/api-test.c` | two flags, a count | pageit | as above; ends the program | `PagerApiTest` |
| Pager draft | `PA4/justincase.c` | - | pageit | not built | not modelled |
| Encrypted file system | `PA5/pa5-encfs.c`, `PA5/aes-crypt.c` | files, their attribute, one temporary file | FUSE callbacks | concurrent FUSE requests share `./tempfile.c` | `FileText`, `PlainFiles`, `EncFS`; requests on names in `Mirror` |
| FUSE example | `PA5/fusexmp.c` | none; the names and files of the host | FUSE callbacks | libfuse keeps a path per handle and hides open files | `Directory`, `Mirror` |
| Attribute utility | `PA5/xattr-util.c` | none | list, set, get, remove | two calls on the file for what it prints; other programs in between | `XattrUtil` |
| Readers-writers, semaphores | `SynchronizationCode/Synchronization/ThreadReadersWritersSemaphores.c` | a file buffer with a pointer, three semaphores, a reader count | writer and reader threads that go on for ever | semaphores | `FileBuffer`, `ReadersWriters` |
| Readers-writers, monitor | `.../ThreadReadersWritersMonitor.java` | the same buffer inside a monitor | read and write, synchronized | monitor | `FileMonitor` |
| Readers-writers, mutex | `.../ThreadReadersWritersSimple.c` | the same buffer, a mutex | read and write, locked inside | mutex | `ReadersWritersSimple` |
| Readers-writers, none | `.../ThreadReadersWritersNoSync.c`, `.java` | the same buffer | read and write | data races | `ReadersWritersSimple` |
| Character driver | `PA2/modules/simple_char_driver.c` | a static buffer | open, read, write, close | kernel calls | not modelled |
| System calls, hello module, fusehello, aes-crypt-util, logs and plots | PA1, PA2, PA5, `PA4/see.R` | - | - | - | not modelled: no state, or text only |

The directories `Kelsey_Dowd_PA3`, `Kelsey_Dowd_PA4` and `Dowd_Kelsey_PA5` are
handed-in copies of the files above.

What makes each component correct, and what is hard about it:

- *Queue.* The elements come out in the order in which they went in; no call
  sequence confuses a full ring with an empty one (both have `front = rear`).
- *multi-lookup.* Every hostname is looked up and written once, its memory has
  one owner until it is freed, and all threads end.  Hard: `queue_is_full` and
  `queue_is_empty` are called without the lock and race with the two halves of a
  push or pop; the number of readers is counted by main without the lock the
  readers use; writers wait in a loop that does not look at that count.
- *Simulator.* The free-frame counter agrees with the pages however processes
  exit with pages on their way and whatever a pager calls; pages follow the cycle
  out, coming, in, going; the process queue is served once.
- *Readers-writers.* A write is alone with the file, a read sees the file as it is
  at one time, and nobody waits for ever for his turn once he is next; nothing is
  written behind the end of the file.  Hard: the
  semaphore that the first reader takes is given back by the last, another thread
  perhaps, while new readers come and go.
- *Encrypted file system.* After a write and a read the application sees what a
  plain file would show, and the disk holds no plain text.  Hard: every operation
  decrypts the file into one shared temporary file, and puts it back in several
  steps, each of which can fail.
- *Mirrored directories.* To its users a mount of fusexmp is a directory, and a file
  that is open stays the same file.  Hard: every read and write opens the path of
  its handle anew, and the file may have been renamed, replaced or unlinked since;
  some handlers of pa5-encfs forget the prefix of the mirrored directory.
- *Attribute utility.* It prints what is there, although it asks for the length
  first and the attribute may change before it asks for the value.
- *Pagers.* Processes that compete for frames all get to their ends; the page in
  use is not paged out under a running process.

## Modules

    Fifo            abstract bounded queue
    QueueRing       the ring buffer and the half-steps of its operations
      Queue         one thread; implements Fifo
        QueueTest     the same, called by queueTest.c
      MultiLookup   reader, writer and main threads; implements Fifo
      RingProofs    lemmas about a push and a pop on a ring of any size
        QueueProofs theorems about Queue and QueueTest
        MultiLookupProofs  theorems about MultiLookup
    Frames          abstract pool of physical pages
    SimulatorState  what simulator.c keeps, and what its state says of a slot
      Simulator     the simulator with an arbitrary pager; implements Frames
        PagerBasic, PagerLRU, PagerPredict, PagerApiTest   its pagers
      PagerPromises what the repository says of the pagers
        Pagers      the simulator linked with one of them
      SimulatorProofs  theorems about Simulator and Pagers
    ProgramTable    the programs of programs.c
    FileBuffer      the file of the readers-writers programs
      FileMonitor     abstract: read and write as single steps
      ReadersWriters  the program with semaphores; implements FileMonitor
        ReadersWritersProofs  theorems about ReadersWriters
      ReadersWritersSimple  the programs with a mutex and with nothing
        ReadersWritersSimpleProofs  theorems about them
    FileText        the contents of files and the calls that change them
      PlainFiles      abstract: a directory of plain files
      EncFS           the encrypted file system; implements PlainFiles
        EncFSProofs   theorems about EncFS
    Directory       abstract: names, and files that stay while they are open
    Mirror          requests on names of fusexmp.c and pa5-encfs.c; implements Directory
      XattrUtil       users of xattr-util.c on a mount
        MirrorProofs  theorems about Mirror and XattrUtil
    MC*             the instances TLC runs

**QueueRing, Queue.**  `array`, `front` and `rear` are the fields of the `queue`
struct (a slot is its payload).  `queue_push` and `queue_pop` are built from
their halves, `StorePayload`/`AdvanceRear` and `ClearFront`/`AdvanceFront`,
because a polling thread can see the ring in between.  `ret` records which operation was
called and what it returned, with a tag that every call flips: two calls in a row that
return the same are two steps all the same.  `QueueTest` has two clients of the queue, one of which is chosen at the
start: one that makes any calls, and `main` of `queueTest.c`, phase by phase, with
what it prints to `stderr` as its reports.  Its check of a push on a full queue
(line 102) compares `!queue_push(...)` with `QUEUE_FAILURE` and can not report; it
is modelled as it is.

**MultiLookup.**  `pc[t]` is the next step of thread `t`.  The Makefile builds
without optimisation, so a step is one access to shared memory: a poll of the
queue loads `front`, `rear` and the slot in three steps (`PollFull`,
`PollEmpty`), `reader_count` changes by a load and a store (`LeaveCount` under
Globallock, `CountReader` without it).  Inside Qlock a push and a pop are two
steps each.  Three reductions keep the model small and lose nothing: the loads of
a half-operation that only its own thread can change are merged with its store;
thread-local work is merged with the step before or after it; and the writers
are created in one step, since a thread that is not created yet behaves like one
that has not run yet.  The mutexes make the accesses inside the critical sections
sequentially consistent; the polls outside are plain loads of words that are read
whole.  A hostname is a pair of its reader and its position in the file, hence
unique: the properties tell hostnames apart by where they came from.  `outfile`
is the set of lines with the position each writer gave them.  `dropped` is no variable of
the program: it collects the hostnames whose push failed, which nothing refers to any
more and nobody frees, and those that are freed at cleanup without a line.  A dropped
hostname has no owner, and `OneOwnerUnlessDropped` says just that of it.

**Simulator.**  `pages[i][j]` is the integer the code keeps per page: 0 in,
positive coming, negative going, `-PAGEWAIT-1` out.  `phase` and `cursor` are the
position in the main loop: `allstep` moves one slot at a time, `allage` is one
step, and between callyou and its return the pager makes any `pagein` and
`pageout` calls, with arguments out of range as well.  A Process record is used
in one slot only, so its fields are kept per slot.  Branch decisions are those
`bcontext_init` and `bcontext_decide` allow for some random numbers: a FOR branch
is taken at least `min` and fewer than `max` times in a row (at least once where
`max` is not above `min`), an IF branch goes either way.  A GOTO is always taken:
its limit of 2^31 - 1 is out of reach.  NFOR is used by no program.  The compute
and block counters, blocked flags and sysclock only feed the logs.  The variables are in
`SimulatorState`, so that `PagerPromises` can speak of them without saying how many frames
there are.  `ProgramTable` has the programs of `programs.c` themselves: they are too long
to be run, but `MCSimulator` evaluates that each of them is as `SimulatorAssumption` asks
(`ActualPrograms`), and that the bisection of `process_step`, which the model replaces by
looking for a branch at the program counter, finds just that branch, at every program
counter of each (`BisectionFinds`).

**Pagers.**  Each replaces the arbitrary calls by its own.  The Pentry array is
a copy of the state at the call, and a pager's calls for one slot change that
slot only, so the model reads the state itself.  `PagerLRU` keeps the order of
the timestamps instead of their values (`recent`): the code only compares two
timestamps of one slot, and those of one tick are for different slots.  When no
page is in, `lrupage` is uninitialised: whatever it holds, no page goes, and any
timestamp may be reset (`EvictsNothing`).  `PagerPredict` keeps `freqArray` flat,
as it lies in memory, because a count is used as a page number and
`pastAccessed` is -1 at first: such a subscript falls on a row of another slot,
or on memory outside the table (`Beyond`).  `calls` holds the calls that
pageit still has to make for a slot: the pages that go out, in their order, and then those that
come in.  `PagerApiTest` sends page 0 of slot 0
in and out; its calls that change nothing, made to print the answer, are
part of the same step.  `Pagers` links the simulator with one of the four, which is
chosen at the start, and gives each the number of frames that makes it difficult.

**FileBuffer, FileMonitor, ReadersWriters.**  A file is its characters and the
pointer to the next one; `Put` is one round of the loop of `WriteFile`, and of
`write` in the Java monitor.  `ReadersWriters` has a step for every semaphore call,
for every change of `_nReadCount`, for the `strlen` of `ReadFile`, and for every
character, since there is a pause (`usleep`) before each.  `sem_wait` is an action
that is possible only while the semaphore is positive; any thread that waits may
be the next to get it.  `_szFileBuffer` has a NUL behind its end that no write
reaches, so `Length` looks at the file only.  main waits for a key and then ends the
process with its threads wherever they are; the model is of the time until then.
In `FileMonitor`, the monitor of the Java program, a write is one step and so is a
read; `Rest(w)[n]` is what the last `n` rounds of the loop in `write` make of a file.
A write of the C program is seen by that specification as done when its writer enters
`WriteFile`, a read when its reader leaves `ReadFile`.

**ReadersWritersSimple.**  One of three programs runs: with the mutex, without it
in C, or without it in Java.  All share the loops of `WriteFile` and `ReadFile`; the
wrap of the pointer, the store of the character, the store of the mark and the
advance of the pointer are steps of their own, and a writer goes on with the pointer
in its register or loads it again, as the compiler likes.  In Java a subscript behind
the end throws, and the thread is gone.

**FileText, PlainFiles, EncFS.**  A file on disk is a text and the number of times
it is encrypted (`layers`); `do_crypt` adds or takes one, and of what is not encrypted
decryption makes nothing, or a text that nobody can tell (`Unknown`).  A text is a short
sequence of bytes: a write is one byte at an offset, with a hole before it if the file is
shorter; a read is of the whole file.  `en_crypt` and `de_crypt` are six steps each: both
files opened and the output made (`Crypt`), `tempfile.c` written when its stream is closed
(`CloseTemp`), the file emptied when it is opened again (`Reopen`), `tempfile.c` read
(`Copy`), removed (`UnlinkTemp`), and the file written when its stream is closed in turn
(`Close`), which is after the removal.  The C library writes at `fclose` because the files
are shorter than its buffer.  A stream is to the file that was called `tempfile.c` when it
was opened: `own` tells whether that is still the one of that name.  `xmp_read` and
`xmp_write` of a file without the attribute set it to False and then read or write twice,
as the code does.

Any of these calls may fail (`mayFail`), and `en_crypt` and `de_crypt` look at few of their
answers: after a `do_crypt` that stopped, an `fread` that was cut short or an `fclose` that
did not write, the text of the file is `Unknown` and the request goes on; after an `fopen`
that failed the process ends, with a null stream; an `unlink` that fails leaves `tempfile.c`.
A `getxattr` that fails is taken for a file without the attribute, which is then set to
False; after a `setxattr` that fails the program exits; after an `open` that fails between
`de_crypt` and `en_crypt` the request returns and the file stays decrypted.  The process may
also be killed at any step (`Killed`).  Whatever ends it, the disk is left as it is at that
moment, and the directory can be mounted again (`Restart`).  `wrong` is a history: the files
that a failing call, the end of the process between the two forms (`Midway`), or a truncation
of an encrypted file to a size other than 0 has left otherwise than they should be, until
they are emptied or removed.  `PlainFiles` says of these that their text may be any (`fail`,
`truncate`), and of no other.  Calls fail where one thread serves: with several, what `exit`
writes from the streams of the others would have to be modelled as well.  The size that
`xmp_getattr` reports is that of the encrypted file; it is not modelled, so neither
is what a program does with it.

**Directory, Mirror.**  `fusexmp.c` mounts the root of the host and `pa5-encfs.c` a
directory of it; `Prefixed` is the directory that a handler's path leads to, `Raw`
the one of the handlers that pass the path on as it is (`rename`, `link` and
`symlink` of `pa5-encfs.c`).  `entry` has the file of each path in both.  What
libfuse does is external and modelled from what the handlers rely on: it keeps a path
for each handle (`at`), moves it along with a rename, renames an open file to a hidden
name instead of unlinking it, and unlinks the hidden file (`Release`) before it calls
`xmp_release` for its last handle.  `xmp_release` itself is an empty stub in both programs,
and does nothing here.  The kernel looks a name up before it sends a request, so that a request for
a missing name does not arrive.  The contents of files are those of `EncFS`; here
`reply` tells which file a request got at.  `xmp_setxattr` of `pa5-encfs.c` copies the
path to a null pointer: the program is gone, and with it the mount.

**XattrUtil.**  Each command of `xattr-util.c` is one step per call on the file: a set
or a remove one, a get or a list two, the first for the length, the second for what is
printed.  Every call goes through the handler of the mounted program, while
other users and other programs change the attribute and rename or remove the file.

## What is checked

Runs that must pass:

| Run | Instance | Shows |
|---|---|---|
| `queue` | 3 slots (the default size, reached with size 0), 3 payloads; any caller, or queueTest | every call sequence: the ring has no hole, implements `Fifo`, every call tells what it has done, also when it returns the same as the call before, and queueTest has nothing to report |
| `lookup_threads` | 2 readers, 2 writers, 1 hostname each, 1 slot | no hostname is referred to twice or used after it was freed, under all interleavings; full and empty both occur, both polls race, pushes fail, and the hostnames they drop are forgotten |
| `lookup_one_reader` | 1 reader with up to 3 hostnames, 2 writers, 2 slots, fair | the ring wraps around without a hole and implements `Fifo`, file order per writer, no failed push, writers outlast the reader, no address of the other writer's in a line, the reader finishes, hostnames settle |
| `simulator` | 2 slots, 2 pages, 3 frames, wait 2, 3 processes | types, frames conserved, queue served once, implements `Frames`, no page turned round, for an arbitrary pager; the programs of `programs.c` are as assumed |
| `pagers` | 2 slots, 4 pages, 4 processes, wait 3; frames 3 (basic), 3 (LRU), 6 (predict), 1 (test, up to 5 changes); fair | pager-basic serves one slot at a time; the API test counts as changes only the calls that change something; the page in use stays in; when all processes are blocked it is for want of frames; all processes end |
| `readers_writers` | 2 readers, 2 writers, texts of 2 characters, a file of 3, fair | exclusion, whole reads, one mark; implements `FileMonitor`; who holds `semRead` gets to the file |
| `rw_simple` | 2 writers with texts of 2 and 1 characters, 1 reader, a file of 2, `MaxOverrun` 1, fair | with the mutex a read is of one moment although its length was taken before, nothing is written behind the file, and the lock comes free again and again |
| `encfs` | 2 files, 1 thread, 2 bytes, texts up to 1, truncation to 0 and 1, any call failing, the process ending at any step and started again | for every sequence of requests users see plain files (`PlainFiles`); between requests and after the end of the process the attribute tells how a file is stored, and no `tempfile.c` is left: all with the exceptions `wrong` |
| `mirror` | 3 names, 2 handles, 2 hidden names, 2 files, a fifo, a directory, a symbolic link; 2 users of xattr-util with 2 attributes of up to 2 characters | fusexmp implements `Directory`; pa5-encfs gets at nothing outside the mirrored directory; what xattr-util prints is what is there |

Runs that must find a violation, each of one sentence of the repository:

| Run | Property | What happens |
|---|---|---|
| `lookup_ends` | `MainEnds` | a writer enters its loop while a reader is still counted and then waits for a queue that stays empty |
| `pager_lru_victim` | `VictimIsPagedIn` | a waiting process gives up a page every tick until none is left, and `lrupage` is used unset |
| `encfs_tempfile` | `GoesBackToOriginal` | two threads share `tempfile.c`, and a file gets what the other request has put there, or nothing |

`MultiLookup` states five more expectations that the code does not meet:
`CounterTellsPushed` (two readers see the same free slot, the second push fails and
is counted all the same), `CounterTellsHostnames` (a writer counts lines of a null hostname),
`CountReturnsToZero` (an update of `reader_count` is lost),
`WriterLeavesEmptyQueue` (a writer leaves between the last push and its look at
`reader_count`) and `AddressOfItsHostname` (a failed lookup prints an old
address).  TLC finds each violated on instances of one or two threads of each
kind; they are not listed as runs of their own.  Neither is `SecondPageIsAnother` of
`PagerPredict` (`pager-predict.c:76`): the search for the second prediction starts
from a count used as a page number, and when that is the first prediction and no
other page has been more frequent, both predictions are the same page.

Other things the models show that no run lists:

- In the Java program without synchronisation each writer may throw at a subscript
  behind the end of the file and be gone, until no writer is left; in the C program
  without it the pointer passes the end further with every overlap of writers
  (`MaxOverrun` bounds how far the model follows it).
- pager-basic with two frames and a program of four pages does not end:
  `pageout` of the first page that is already out succeeds and changes nothing, every
  tick.  The simulator has 100 frames and at most 20 pages.
- `rename`, `link` and `symlink` of pa5-encfs act on the root directory, not on the
  mirrored one (`pa5-encfs.c:276` to 307), and `setxattr` ends the program (677).
- `xattr-util -g` and `-l` of an attribute or list that was empty when it was measured
  ask for the value with a buffer of size 0, which means "tell me the length": if it
  has grown since, they print what lies behind their buffer (`Garbage`).
- Line 102 of `queueTest.c` can not report.
- A file of pa5-encfs whose attribute is True need not be encrypted, against the comment at
  line 456: after an `open` that fails behind `de_crypt` (464, 557) it stays decrypted, the
  next request decrypts plain text, and what comes of it is stored; and an encrypted file
  that is truncated to a size other than 0 (351) is cut as it lies on disk, and nothing
  decrypts it again.  A `setxattr` that fails after `en_crypt` (624), or a `getxattr` that
  fails, has the opposite effect: an encrypted file is taken for a plain one.
- A process of pa5-encfs that ends between the emptying of a file and its closing loses the
  file, and may leave its plain text in `tempfile.c`; there is nothing to recover it with.

**Bounds.**  Every bound is a constant.  `PerFile` bounds a file, `Size` and
`QUEUEMAXSIZE` the ring, and the simulator is finite as it is.  One slot with two
hostnames is enough for a ring to be full and empty in turn; two slots and more
hostnames make it wrap around; two threads of a kind make every check-then-act
race possible; three need the same pairs.  A file of three characters and texts of two make
every write begin elsewhere and every second one wrap around; with two readers the
first in and the last out are different threads in some rounds, and a reader and a
writer wait together for a second writer.  One thread serves the requests in `encfs`, one
after the other as a program that waits for each makes them; with two threads
nothing of this is left, which `encfs_tempfile` shows.  Two files are enough to confuse them; they
are interchangeable, and `FileSymmetry` says so.  Texts are of one byte at most: the steps of
`en_crypt` and `de_crypt` treat a text as a whole, so that what matters is whether it is
empty, which of two bytes it has, and whether a truncation keeps it, empties it or adds
zeros to nothing; offsets and holes are the same operators on both sides of the refinement, and
the theorem is for texts of any length.  One thread never
encrypts a file that is encrypted, so that `MaxLayers` is no limit there; for two threads it
is 2.  Truncation to 0 works although `de_crypt` fails on an empty file: the failure is only
reported, and the result is empty as well.
For the pagers the frames are fewer
than the pages of one process (basic), than what two processes want (LRU), and
just what the predictions want (predict).  The real values are 20 processes with
20 pages of 128 statements and 100 frames: 100 frames are at least 20, so a
process alone always fits, and with three frames a process 60 suffice.

The pagers' programs have the shapes of pgm1 and pgm4 on four pages, with a loop that needs
all of them; `MAXITERATIONS` is 5 as in the code, and the queue has 4 processes for its 40.
`rw_simple` has a file of two characters, which the first text fills and the second
begins to write over.  `mirror` needs three names to rename an open file over another one that is open, two
handles so that one of them is the last, and two hidden names for two files that
are open; a file is a fifo, a directory or a symbolic link once each, for what
depends on the kind.  Its instance for attributes (`usage`) has one file, since a
rename to the name of another file is to the utility as if the attribute had been set,
and values up to 2, so that they can be empty, grow and shrink.  There the names change
only by rename and unlink.

**Fairness.**  `FairSpec` of `MultiLookup` asks for weak fairness of each thread:
the scheduler runs every thread that can run.  That suffices although threads
contend for mutexes, because a run takes each lock finitely often.  `FairSpec` of
`ReadersWriters` asks for the same, and for nothing about the order in which a
semaphore lets threads in, which POSIX leaves open.  So a thread may wait for ever
at `semRead`; `TurnComes` says that one that is past it gets to the file.  The pagers
ask for weak fairness of the whole next-state relation: the simulator is one
thread that runs until main returns.  `rw_simple` asks for weak fairness of each
thread: `LockComesFree` is that no thread that has the mutex stops.  The other runs assume no fairness.

**Deadlock** is checked in every run but `mirror`, where `setxattr` may end the
program and nothing can happen any more; `Terminated`, `Ended` and `Freed` let a finished
program stutter.

## What is proved

Every safety property and every refinement that a passing run checks on an instance, but for
`CountsChanges` of the API test, is a theorem for all values of the constants, from the
assumptions named in the modules; two of `EncFS` are for one thread, as there.

`RingProofs` proves for every ring size what a push and a pop do: no hole
appears, the count changes by one, and the contents are appended to or lose their
first element (`PushRing`, `PopRing`).

`QueueProofs`, for every size, default size and set of payloads that excludes
NULL: the invariant `TypeOK /\ RingShape` is inductive; `TypeOK` alone is not,
since a stray payload would make `queue_is_full` lie.  From it follow
`TypeCorrect`, `ShapeKept`, `Refinement` (`Spec => ImplementsFifo`) and
`ResultsRight`, which is about every single call, told from the one before by its tag.
`TestMakesCalls` (`TestSpec => Spec`) hands all this on to queueTest, and
`TestSucceeds` adds that its seven comparisons never report: `Stages` says after each of
its loops how many slots are filled, with which payloads.

`SimulatorProofs`, for every number of slots, pages and frames, every waiting
time and all programs that satisfy `SimulatorAssumption` (the last address is the
exit, branches lead inside the program), and for an arbitrary pager: the
invariant `TypeOK /\ PcInside /\ FramesConserved /\ QueueServedOnce` is
inductive.  `PcInside` is needed because the comparison `pc > size` in
`process_step` alone would let the counter reach `size`; only the exit at
`size - 1` prevents it.  The steps that change the counter of free frames are a
set-cardinality argument each: an exit removes the pages of one slot
(`UnloadKeeps`), aging removes those that leave (`allageKeeps`), pagein adds one
page (`PageinKeeps`).  The theorems are `TypeCorrect`, `FramesAreConserved`,
`QueueIsServedOnce`, `FramesRefinement` (`Spec => ImplementsFrames`) and
`PagesDoNotTurnBack`.

The same module on the pagers themselves: by the lemma `StepIsPager` each step of one of
the four is one that `Simulator` allows a pager, so that its invariant holds under them.  `OneSlotAtATime`, `UsedPagesStay` and
`BlockedOnlyForFrames` are about `PagerRuns`, the simulator linked with one pager, with
the number of frames `Frames[pager]` that `Pagers` gives to that one.  What the repository
promises of a pager holds when `pageit` has returned, while the model takes its calls one at a time;
so `PagersInv` says of each pager how far it is: of pager-basic that pages are held by the
first active slot alone and that this one is served once its page has been asked for (`BasicInv`), of
pager-lru that all slots before `next` are (`LRUInv`), of pager-predict the same, and that
the needed page of the slot it is at is not among those going out, and is the first to
come in (`PredictInv`).  A slot is `Served` when its needed page is in or on its way, or no
frame is free.  These hold of any programs; that pager-basic serves its slot
does not need the number of frames to suffice.

`MultiLookupProofs`, for any number of readers, writers, hostnames and slots: the
invariant `TypeOK /\ ThreadsOK /\ RingShape` is inductive.  `ThreadsOK` says which
mutex a thread holds at each step, so that one thread at most is between the
halves of a push or a pop, and the ring it is in has the shape of the half it has
done; the lemmas of `RingProofs` then give each half.  From it follow
`TypeCorrect`, `ShapeKept`, `OneInQueue` and `FifoRefinement`
(`Spec => ImplementsFifo`).  `OneOwnerUnlessDropped` is inductive together with `HandsFree`, once it is said by the places
a hostname can be in (`OnePlace`: at most one, and none if it was dropped): a
thread that is about to get a hostname has none, so that none is forgotten by the
assignment.  The theorem is `NoHostnameHasTwoOwners`; that a hostname is never dropped holds
for one reader only.  `AddressesAreOwn` rests on what a
writer's address buffer can hold (`BufferOK`): nothing, the address of the line that is
about to be written, or that of a line the same writer has written.

`SoleReaderDropsNothing` and `WritersStay` are about one reader, and hold of others for
want of one.  The reader looks for room without a lock and pushes later: `RoomOK` says
that what it found is there still, because only it fills slots; `CountOK` that
`reader_count`, which main and the reader change without a lock, is what main made of it as long as
the reader is not done.  `OrderOfFiles`, for any number of readers and writers: a line
is compared with lines only, so the induction needs the order in all the places a hostname passes
through (`OrderInv`): the last one scanned, the queue, those taken out of it, and
what a writer holds behind what it has written.

`ReadersWritersProofs`, for any number of readers and writers, every size of the
file and any texts that do not hold the mark: the invariant conjoins `TypeOK` with
who holds which semaphore (`SemOK`: `semRead` and `semMutex` are held by one thread,
`semWrite` by a writer or by all readers that are in), what `_nReadCount` counts
(`CountOK`), that the loops end inside the file (`LoopsOK`) and `ReadsHold`, which
needs the exclusion to survive a write.  From it follow `TypeCorrect`,
`WritersAreAlone`, `ReadsAreStable` and, with the pointer, `MarkIsAtPointer`.
`MonitorRefinement` (`Spec => ImplementsMonitor`) maps a file into which a writer is
writing to the one it leaves (`Rest`), so that the first character written is the monitor's
write and the others are nothing.  `RestUnfolds` derives the recursion
of `Rest` from its definition, with the existence of such a function shown by a least counterexample.
A read of the monitor is of the whole buffer and the program's of `strlen`
characters: `NulsLast` (the NULs of a file are behind the first round of writing) and
`Cleared` (what a reader has not read is NUL in its own buffer) make them the same.

`ReadersWritersSimpleProofs`, for any number of threads, any texts and size of the file, of the
program with the mutex: `FileIsNotLeft` and `ReadsAreOfOneMoment`.  (`TypeCorrect` of this
module holds of all three programs, but its limit on the pointer is `MaxOverrun`, a bound of the
model: it says nothing of where the programs without the mutex write.)  A reader measures the file before it has the mutex; the
invariant says who is inside it, that the register of that writer is the pointer, and that what was measured is
there still (`MeasureHolds`), because the length only grows.

`MirrorProofs`, for any names, hidden names, files and handles, told apart as
`MirrorAssumption` says: the invariant is `TypeOK`, that no file is in the root directory and in the
mirrored one (`Apart`), that an open handle's path leads to a regular file (`HandlesLead`) and
that a hidden name is there just as long as a handle is at it (`HiddenGoesAway`, which is
libfuse's doing).  The theorems are `TypeCorrect`, `DirectoryRefinement`
(fusexmp implements `Directory`) and `RootIsLeftAlone` (pa5-encfs), for any user as well as for
those of `XattrUtil`; of these also `UsersMakeRequests` (a command does nothing that a request
does not) and `PrintedIsThere`.

`EncFSProofs`: `TypeCorrect` for any number of threads (its limit on layers is `MaxLayers`, a
bound of the model); `AttributeTells` and `PlainFilesRefinement` (`Spec =>
ImplementsPlainFiles`), for any files, texts and sizes of truncation, with failing calls, ends and
restarts, under `Serial(t)`: there is one thread.  With two the code does not do what they
say (`encfs_tempfile`).  Both except the files in `wrong`; how a file gets there is in the
actions of `EncFS`, at the line of the code that leaves it so.  The invariant `Underway`
follows the contents through the steps of a request: on disk in one form, in `tempfile.c`
in the other, and back, unless the file is wrong.  `EndsKeeps` shows that the end of the process
leaves at most the file that was on its way, and `FailIsSeen` and `EndIsSeen` that users see
no more of a failing call or an end than `PlainFiles` allows.

Only model-checked: the liveness properties `ReaderFinishes`, `HostnamesSettle`, `AllEnds`,
`LockComesFree` and `TurnComes`, which speak of fairness and so of ENABLED, out of the prover's
reach; and the two assumptions on the programs of `programs.c`, which TLC evaluates.  The
library's induction theorems take an operator as a parameter, which the provers cannot
instantiate; where an induction over numbers was needed it is made by a least
counterexample (`LeastNumber`).

## Not modelled

- `lookup.c`, a sequential loop without shared state, and `pthread-hello.c`.
- `justincase.c`, which nothing builds, and the handed-in copies.
- `fusehello.c`, `aes-crypt-util.c`, the system call of PA1, the hello module: no state.
- The character driver: its one buffer is overrun when the texts written are
  longer than it, and what is behind it is the kernel's.
- Failing calls elsewhere than in `EncFS`: `malloc`, `pthread_create` and `fopen` end the
  other programs, and the handlers of fusexmp pass a failing system call on to the user.
- In pa5-encfs, a second `getxattr` that fails or finds another value than the first, since
  another request has changed the attribute in between; failing calls while several threads
  serve.

## Plan

1. The liveness properties have safety halves that can be proved, for instance that a
   thread waiting at `semRead` or for the mutex always finds a holder that can run.
2. That a page in the table of `Simulator` is always one its process can use
   (`PagerPredict` brings in pages by count, which may be of no use), with the state of the
   predictor in the invariant.
3. `EncFS` under `Mirror`: one composition in which a handle of a path is a file that is stored
   encrypted.
4. `AddressOfItsHostname` and the other expectations that `MultiLookup` does not meet: the
   weakest change of the program under which each is a theorem.
