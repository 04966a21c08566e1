# A verification project for the Rutgers CS416 systems code

The repository holds two course systems written in C:

* `scheduler+virtualMemoryManager/` - a user-level thread library (a multi-level
  feedback scheduler driven by a timer signal) on top of a paging allocator
  that swaps pages between an 8 MB "memory" and a 16 MB "swap file";
* `filesystemFUSE/` - a small inode file system on a disk file, served by FUSE.

Both exist in several versions. The ones in the `submission/` directories are
the final ones and are modelled first; the older version of the thread library, which the
benchmark programs beside it were built with, is modelled too.

## 1. Inventory

| part | state | operations | interacts with |
|---|---|---|---|
| thread library, `submission/my_pthread.c` | `myScheduler` (current thread, run queues, `inScheduler`, `maintenanceCycle`), the control blocks (`state`, `priority`, `timeRun`, `retval`, `next`), mutexes (`flag`, `waitQueue`), the one-shot interval timer | create, yield, exit, join, lock, unlock, `timer_handler`, `schedule`, `maintenance`, `enqueue`/`dequeue` | the signal handler runs `schedule` on the stack of the thread it interrupts; `schedule` calls `mprotect_setter`; create and `schedule` call the allocator |
| paging, `submission/paging.c` | `page_table` (owner, page number, in use), protection bits, free-page counters, contents of pages | `requestPage`, `getHead`, `swapPage` from the SIGSEGV handler, `mprotect_setter` at a switch | called by the allocator, the scheduler and the fault handler |
| allocator, `submission/myallocate.c` | the list of blocks in each thread's pages | `myallocate`, `mydeallocate` | draws pages from paging; clients reach it through the `malloc` and `free` macros |
| clients (`mcounter`, `mtsort`, `mmatrix`; `msimple` shares nothing) | a counter; a list, its mutexes and `quitting`; a matrix | create threads, lock, compute, join | call the library |
| older thread library, the "calendar" scheduler, `my_pthread.c` one directory up | queues that count their threads (three levels, the ended ones, one for each mutex), the nodes' `status` and `level`, the timer | create, yield, exit, join, lock, unlock, `signal_handler`, `reschedule`, `maintain` | every switch goes through `my_pthread_yield` or `my_pthread_exit`; the signal handler calls the former |
| older allocator and paging, `myallocate.c` and `paging.c` one directory up | as in the submission | as in the submission | as in the submission |
| `karl/` | a copy of the submitted thread library | | |
| block layer, `bitmap.c`, `block.c` | the disk file; the inode and block bitmaps on it | `findFirstFree`, `findFreeBlock`, block read and write | used by everything below |
| inodes and paths, `inode.c` | the inode table on disk | create, remove, find by path, update | directory entries hold its numbers |
| directory entries, `dirent.c` | entries in the data blocks of a directory; a global cursor `entry` | initialise, add | reads and writes the parent's inode |
| FUSE handlers, `sfs.c` | globals `blockBuffer`, `readResult` | init (format), getattr, create, unlink, mkdir, rmdir, read, write, readdir | `fuse_main` calls them from several threads; nothing is locked |
| older tree `filesystemFUSE/src`, stubs, build files | | | not in the final program |

What is hard in it:

* **the signal.** `timer_handler` may run between any two statements of the
  library. Signals are never masked; the only protection is `inScheduler`,
  which covers `schedule()` alone. Queue operations, the mutex and exit are all
  open to it;
* **one link field.** A control block has one `next`, shared by whichever queue
  it is in, so a mistake in one queue destroys another;
* **spinning.** join and the mutex re-test in a loop around `schedule()`; nothing
  but `maintenance()` keeps the lower levels from starving;
* **moving pages.** The page a thread's address means is decided by the page
  table and the protection bits together, and faults repair it;
* **what moves behind a request.** A request for memory takes pages one by one,
  with a switch possible in between, and each page taken moves others;
* **disk updates.** Each handler is a sequence of whole-block reads and writes,
  with no lock, no journal and copies of the same block held at once.

What makes each part correct:

* thread library: a thread is on exactly the list its state names; the mutex
  excludes; no wake-up is lost; a join returns, once, with the value passed to
  exit; the timer is always running; every runnable thread runs; the last
  thread to exit is the last;
* paging and allocator: each (thread, page number) pair has one page; a thread
  sees its own contents at its own addresses, whatever moved; live blocks do not
  overlap; what is freed can be used again;
* file system: an inode or a block has one owner; entries refer to used inodes;
  a create that returns success can be found; a crash while formatting leaves a
  disk that is either formatted or not; a read returns what was written;
* clients: no deadlock, the right result, an end.

`PROJECT.json` lists every component with its status and every hazard at its line.

## 2. Plan

In the order of what matters most, and done in that order:

1. **Scheduler**: `Scheduler`, its abstract specification `ThreadContract`, the mapping
   `SchedulerRefinement`, the theorems in `SchedulerProofs` (every window open) and
   `SchedulerQueues` (the queues, and the mapping to the contract).
2. **File system, names**: `FileSystem` (bitmaps, inode table, directories,
   formatting, crashes), its abstract specification `NameTree`, the mapping in
   `FileSystemRefinement`, the theorems in `FileSystemProofs`.
3. **Paging and allocator**: `Paging` (the functions of `paging.c` on a page table and
   on frames), `Allocator` over it (requests, frees, faults and switches); lemmas about the page table and
   about headers in `PagingProofs`, the theorems in `AllocatorProofs`.
4. **File contents**: `FileData` (sfs_write and sfs_read on inodes and blocks), the
   theorems in `FileDataProofs`.
5. **The older library**: `Calendar` and `OlderAllocator`, the latter over `Paging` again, with theorems in
   `OlderAllocatorProofs`.
6. **Clients**: `Clients`, the benchmark programs composed with `ThreadContract`, so that
   what `Scheduler` is shown to implement is what they run on; theorems in `ClientsProofs`.

What could still be added, in this order: proofs about the calendar's queues and about the chains of the submitted
allocator (`TilingKept`, `TruthIsSafe`), directories that grow by a block, the calendar's list of locks.

The bounds are those that make each interesting case happen (section 4). No module that
is proved about, nor one it uses, declares a RECURSIVE operator.

## 3. The modules and the code

### Scheduler.tla

`Scheduler` models `submission/my_pthread.c`, with the types of `my_pthread_t.h`.

* Statement level. `pc[t]` is the next statement of thread t inside a library
  call and `"user"` outside. Each action named after a call (`Create`, `Yield`, `Exit`,
  `Join`, `Lock`, `Unlock`) does the statements of that call up to the first point at
  which the signal makes a difference; the actions named after a statement (`LockTest`,
  `LockBlock`, `EnqueueFront`, `UnlockFlag`...) do the rest. `enqueue()` and
  `dequeue()` appear twice: statement by statement where a thread runs them with the
  signal open, and in one step (`Enqueue`, `Dequeue`) inside `schedule()`, where
  `timer_handler` returns at once.
* `schedule()` is `EnterSchedule`, then the maintenance loop (`MaintainNextLevel`,
  `MaintainKeep`, `MaintainPromote`, one iteration each) every
  `MAINTENANCE_THRESHOLD` calls, then `Dispatch`, which chooses the next thread
  and switches on the state of the current one, as the code does. `Tick` is
  `timer_handler` entering it; `TickIgnored` is the handler that finds
  `inScheduler` set.
* Memory. `mem.next` and `mem.queue` are the very links of the code: lists are
  followed from `front`, so a lost, shared or cyclic list is a state of the
  model and not excluded by its shape.
* Time. `timeRun` counts whole 50 ms slices; `Elapsed` lets a run last less than
  a slice or a whole one, `aged` is the set of threads that maintenance has found
  older than `LIFETIME_THRESHOLD`, and grows nondeterministically.
* The client is any sequence of calls allowed by `Calls`, `MaxHeld` and what an
  honest client does: it unlocks what it locked, joins a created thread other than
  itself, does not exit holding a mutex.

Statements that are merged although the signal may come between them: in `dequeue()`, the two that take the front
(158-163) are one step, and so are the test and the store of `rear` (166-168), so the thread that another call appends
between these two, and loses, is not in the model. No property of a run with windows open depends on either.

Left out: stacks and register contexts, allocation of control blocks, error
returns on NULL arguments, printing. The window between `inScheduler = 0` and
the end of `swapcontext` (`my_pthread.c:446`) is taken to be shorter than the 50 ms
just armed.

`Preemptible` is the set of statements before which the signal may arrive. The code masks it nowhere, and with
all of them the list properties fail (section 5); the windows in which it does harm
are inside `enqueue()` (from create, lock and unlock), between the store of
EXITED and of `retval`, between the failed test-and-set and the wait queue,
and inside `dequeue()`/wake-up in unlock. The runs `threads`, `mutex` and
`progress` keep the signal out of those windows and in everywhere else, and so say what the library keeps when
the signal spares it there; `enqueue_window` and `mutex_window` open one window each and show what is lost. `preempt` and
the theorems of `SchedulerProofs` leave every window open, those of
`SchedulerQueues` close them (`WindowsClosed`).

### ThreadContract.tla and SchedulerRefinement.tla

`ThreadContract` is the promise to the client: one thread runs, a thread waits
only for a mutex that is taken, waiters are woken first come first served, a
release wakes one. `SchedulerRefinement` maps a thread to waiting from the
switch that puts it away to the store that clears the flag in the unlock that wakes it, and
a mutex to the thread between the return of lock and that store. `Queued` is the list of a wait
queue as a sequence: `Nth` up to its end, without the current thread, which
is already last in it from its own enqueue to its switch. `Waiters` puts the thread that is
being woken, already off the queue, before it.

### MCScheduler.tla

Instances for TLC. Threads other than `Main`, mutexes and exit values
are interchangeable; symmetry is used in the safety runs only.

### Paging.tla and Allocator.tla

`Paging` models `submission/paging.c`. It has no variables: the page table with its
counters (`pt`) and the frames with their bytes and protections (`fr`) are records, and every function
of the file is an operator from one to the next (`Spend`, `RequestPage`,
`MoveHead`, `Access`, `MprotectSetter`, `SwapEmptyPage`...). `Allocator` models
`submission/myallocate.c` and applies them.

* `heap[o]` is the chain of headers of owner o in the order of the next pointers,
  `written[o]` how far clients may have written over what they were handed. A header placed
  below it has whatever was there for a `prev`, which `organizeMem` and `initMem` do not
  set: `Unset`.
* `Malloc` is `myallocate` up to its return, or to the loop that gets pages, of which
  `GetPage` (`requestPage` finds a frame), `UsePage` (the page is moved there, its number
  entered) and `NoPage` are the steps. `pending[t]` holds the locals of the loop.
  `Interruptible` says whether the scheduler may switch in between.
* `Dealloc` is `mydeallocate` with `getHead` and the joins with neighbours;
  `LibraryMalloc` and `LibraryFree` are the requests the thread library makes for stacks.
* `Touch` is a client's access to a block of its own, with the SIGSEGV handler's `swapPage` when
  the page is elsewhere; `Switch` is the `mprotect_setter` of `schedule()`, which may dispatch
  the thread that was running.
* `fr.status` says how an access ended: `"ok"`, the error exit, a fault that
  repeats for ever, bytes that are not the caller's, or memory of which the model
  keeps no account. After the last four nothing more happens.

Abstractions. Bytes of a page are the page they are, `<<thread, number>>`; addresses are
in units of a header; a header lies within one page. Headers are in `heap` although they lie in the
pages: where `getHead` makes a second first page, the old chain is dropped, as no one finds it again. The OS region
has frames of its own: in the code its last page is the first of the users' (`myallocate.h:18`, 26, `paging.c:49`), which matters
only when that region is almost full.

### OlderAllocator.tla

The same two files of the older library, with `Paging`'s operators for what is the same. Its
header lists the differences. Because `getHead` looks for a page with number 1 while new
heads get number 0, a thread's chain is one free block whenever a request meets it, so only
the OS region has a chain (`os`), with both pointers. Only its last block is ever free, so the join with the block
before (402) is in the model as in the code, and in neither ever reached. `Astray` is a request that takes a page
its client has written to for a header: the model stops there.

### Calendar.tla

`Calendar` models the older `my_pthread.c`. `cal` is the memory of the library with the timer and
the processor, and a function of the file is an operator from one to the next, so that
`signal_handler`, which calls `my_pthread_yield`, is their composition. Each call first
stops the timer, so it is one step except at the statements in `Windows`, before which
the signal may arrive. A `NULL` that is followed, or a thread function that returns without
`my_pthread_exit`, ends the process (`cal.process`).

### FileSystem.tla

`FileSystem` models how the handlers `sfs_init`, `sfs_getattr`, `sfs_create`,
`sfs_mkdir`, `sfs_unlink`, `sfs_rmdir`, `sfs_open`, `sfs_opendir` and `sfs_readdir` of `filesystemFUSE/submission/sfs.c` work on the
disk, with everything they call in `bitmap.c`, `block.c`, `inode.c` and `dirent.c`.

* `disk` is what is durable: the superblock's magic number, the inode bitmap, the
  block bitmaps, the inode table as blocks of `NINODES_BLOCK` inodes, and the data
  blocks, each the list of its directory entries (empty for a file).
* A handler works on copies of blocks. Each `block_write` is an action, and so is
  each `block_read` whose copy is changed and written back later; `loc[w]` holds the
  copies and locals of thread w, `pc[w]` the next read or write. The reads of
  a path lookup, which change nothing, are one step. `StartCreate` and
  `StartRemove` are the entry of a handler; `ReadInodeBitmap` to `WriteTable` are
  `createInode`; `ReadInode` and `WriteInode` are `removeInode`; `ReadEntries` and
  `WriteEntries` are `deleteInodeEntry`; `ReadDeletedBlock` to `Leave` are
  `deleteAllInodeEntries`, which recurses in one global buffer (`frames` is its stack).
* The `Format...` actions are the writes of `sfs_init` in their order.
  `FormatFirstBlockBitmap` is the second write of the first bitmap, from a buffer
  that was never cleared: `Uninitialised` is what it may hold. `setBit` computes a value
  and drops it, so `FormatInodeBitmap` leaves bit 0 clear. `FormatInodeTable` writes memory of `malloc` in which
  only numbers and sizes were set (`sfs.c:104`): `Leftovers` is what the mode and the first pointer of an inode that was
  never made may be. A table of 128 inodes of 256 bytes is large enough for the C library to map fresh, zeroed memory
  for it on some systems and not on others, so runs and theorems say which they assume.
* `Open`, `OpenDir` and `ReadDir` are the answers of the handlers that change nothing; they look at
  other fields of an inode than `sfs_getattr` does.
* `entry`, the global cursor of `dirent.c`, is in the model as the thread whose buffer it
  points into and the position; `FillEntry` writes there and not where its own
  thread left it. `initializeDEntries` moves it too, within one step (`WriteDots`): what a second worker does
  to it inside that function is left out, which only the run with two workers, `fs_race`, could tell.
* `Crash` ends the process between any two writes; the blocks written stay, and the
  next mount runs `sfs_init` again. The second `free` of an inode that
  `deleteAllInodeEntries` has freed (`inode.c:465`) may end the process or not, which
  is the same action or none.
* The kernel looks a path up (`Exists`) before it sends a request and locks the
  directory the request changes, for `rmdir` also the one removed (`Unlocked`).

Abstractions. Names are of one length, at most seven characters, so that every directory
a disk can have (31 inodes are ever handed out) fits its first block and positions in a
buffer are entry numbers. Paths have at most two names. Files are empty; times,
owners and modes other than "directory or file" are left out. A lookup through a
missing directory, which the kernel's own lookup prevents, has no action of its own.

### FileData.tla

`FileData` models `sfs_write` and `sfs_read` with `updateInode`, for files that exist. A request to
write is `Write` (the checks), `Allocate` for each block of `Wanted` (a write of the bitmap each),
`Allocated` (the inode is written), then `WriteBlock` and `Advance` for each block
(its data, the inode with the new size). `Read` computes what is in the buffer when `sfs_read`
returns. The pointers of an inode are words of a struct, and the code indexes them past
the end of the array: the words after the direct pointers are `indirectBlockPtr`, `bitPos`,
`numBlocks` and the padding, at the places the struct gives them. Bytes are `<<file, position>>`.
The words nobody has set hold any of `Leftovers`, as in a table written from memory that was not cleared.

Requests append, or with `AnyWrite` write anywhere, and none is excluded because of what becomes of it. `sfs_write`
finds one block too few for an append that leaves a block which `numBlocks` counts (a first write of 600 bytes, or 300 and
300), and then writes through a pointer that was not set for it, to data block 0. So that properties can tell the files this
happened to from the others, two history variables that no step reads go along: `found`, the words of an inode a block was found for, and
`astray`, which file wrote which block through another word or elsewhere than at its end. `Straight(f)` says that f never
did, `Kept(f)` that nor did another file into a block of f.

### Clients.tla

`Clients` EXTENDS `ThreadContract` and adds the programs `mtsort.c`, `mcounter.c` and `mmatrix.c`,
a statement on shared data a step; a call is the step of the contract, and between any two
steps the library may switch. `program` chooses one. `Preempt` is a switch by the
timer, `Continue` the pick of a next thread when nobody is running.

### NameTree.tla and FileSystemRefinement.tla

The contract: `tree` changes only by requests. A request that is done has changed it
once and as a whole, one that failed or was lost in a crash has not. What the code does
not keep is in the contract under its name: a crash may *spoil* the names that were being
worked on, which then can be made, with success, and are not found (section 5).
`FileSystemRefinement` maps a name to the tree when `sfs_getattr` finds it, and a request to
done when its inode is written: the last write of create and mkdir, the first of unlink
and rmdir.

## 4. Runs

| run | question | instance | result |
|---|---|---|---|
| `preempt` | do types, the mutex and the timer survive the signal anywhere? | 2 threads, 1 mutex, 2 levels, every window open | holds |
| `threads` | create, yield, exit, join: lists match states, a join gets the value, the last to exit is last | 3 threads, 2 levels, 1 value | holds |
| `mutex` | with the windows closed: unlock wakes whom it should, lists stay lists, `ThreadContract` implemented | 3 threads, 1 mutex | holds |
| `mutex_window` | does the process end only when all have exited, with the signal before a waiter's enqueue (475)? | 2 threads, 1 mutex | violated |
| `enqueue_window` | is who is QUEUED in a list, with the signal inside `enqueue()`? | 3 threads | violated |
| `progress` | a queued thread runs, a join returns | 2 threads, 3 levels, fairness | holds |
| `vm_requests` | counters exact, no page lost, chains tile the pages, no access goes wrong from a truthful state | 2 threads, 4 pages of memory, 2 of swap | holds |
| `vm_interrupted` | is the frame a request found still empty when it is used? | the same, switched inside a request | violated |
| `vm_freed` | is a block that is freed free? | 4 + 2 pages | violated |
| `vm_free_takes` | does a free leave the number of free pages alone? | 4 + 2 pages | violated |
| `vm_first_page` | does a thread have one first page? | 4 + 2 pages | violated |
| `vm_switch` | can a dispatched thread access its pages in memory? | 4 + 2 pages | violated |
| `vm_growth` | does a chain tile its thread's pages after a request? | 4 + 2 pages | violated |
| `older_vm` | requests that passed the tests find pages, the OS chain is linked both ways, threads are isolated | 2 threads, 4 + 2 pages | holds |
| `calendar` | queues are lists that count their threads until somebody yields alone, a ready thread runs | 3 threads, 1 mutex, fairness | holds |
| `calendar_levels` | does a thread whose slice ran out go down a level? | 3 threads, 1 mutex | violated |
| `calendar_alone` | is the running thread in no run queue? | 3 threads, 1 mutex | violated |
| `clients` | no deadlock, `quitting` means sorted, the results, the end | mtsort of 3 numbers, mcounter of 3 threads, mmatrix of 4 rows | holds |
| `fs_requests` | do blocks keep one owner, directories match inodes, the handlers agree, and requests take effect as a whole? | 1 worker, 2 names, 3 inodes, a cleared table, a crash anywhere | holds |
| `fs_leftovers` | do the first two survive a table that was not cleared? | the same, every unused inode a directory with the root's block | holds |
| `fs_full` | does a block have one owner when the first word of the bitmap is full? | 3 inodes, words of 4 bits | violated |
| `fs_race` | does a create own the inode it found free? | 2 workers, 2 names | violated |
| `fs_files` | do the blocks of a file belong to it, and does a read return what was written, if its writes found their blocks? | 2 files, appends of 1 and 3 bytes in blocks of 2, a crash anywhere | holds |
| `fs_overwrites` | the same beside files that are written anywhere | 2 files, requests of 3 bytes | holds |
| `fs_spill` | does every file that is only appended to own its blocks? | 2 files, requests of 3 bytes | violated |
| `fs_long_read` | does a read return all that was asked for and is there? | 2 files, requests of 1 and 2 bytes | violated |

### What the properties say

Many hold only from some states on, and those conditions are part of what is shown.

* `threads`, `mutex`: hold with the signal kept out of the windows listed in section 3, and say nothing of what happens in them.
* `vm_requests`: `CountersMatch` (the two counters of free pages are exact), `PagesNumbered`
  (below a page number that a thread has none is missing; a number may have two holders, see `vm_first_page`), `FreePageIsEmpty` (the
  frame a request has got holds nobody's page until it is used) and `DataKept` (the
  bytes of a page are somewhere after every step) hold always. `TilingKept` keeps blocks
  disjoint and inside the pages as long as the first page is in memory and a block that grows
  begins in the last page (`vm_growth` is the other case). `Isolated` and `TruthIsSafe` (no step ends in an exit, an endless fault or another's
  bytes) hold from states in which the page table tells the truth, which a fault ends. `TruthIsSafe` also asks that what is touched is within
  memory (`WithinMemory`): the signal handler takes any address behind it, in the swap file too, for a page (`paging.c:48-55`).
* `calendar`: `SoundKept` says that the queues stay sound until somebody yields when nobody
  else is ready; `calendar_alone` shows that step, after which nothing is claimed.
* `fs_requests`: after a crash `DirectoriesMatchInodes` is not asked for, nor the second part of
  `AnswersAgree`; `ImplementsTree` and `BlocksHaveOneOwner` are. All are for a table written from cleared memory and a bitmap with a
  free block left. `fs_leftovers` keeps the two properties that do not look at inodes which were never made; after a crash between
  the entry and the table, `sfs_getattr` finds such an inode if its leftovers have a mode, so the tree is not what requests made it.
* `fs_files`, `fs_overwrites`: `BlocksOwned` is about files that wrote only at their end and into blocks found for them (`Straight`), `ReadsBack` about
  those of them that no other file strayed into (`Kept`). Appends that find too few blocks do occur in these runs, beside the files the
  properties are about; `fs_spill` shows what becomes of them. `ReadsBack` asks for all bytes only where they lie in two blocks;
  a longer read comes back short (`fs_long_read`).

### Bounds

Two threads and one mutex already reach every interleaving of a lock
with an unlock; the third thread is needed for a queue with a middle element,
for a waiter behind a waiter, and for a thread that is neither the spinner nor
its target. Two levels give a highest and a lowest; three are used where
a thread has to climb more than one level. Counters that would grow (`timeRun`,
`maintenanceCycle`) are cut where the code resets or tests them, so no state is lost.

Four pages of memory and two of swap for two threads make memory run full, so that pages go to the
swap file, that a first page is evicted, and that a request fails in the middle. A page is four units, of
which a header takes one; the sizes are one that fits a page, and leaves a rest where a larger free block
is found for it, and one that needs a second page (for `older_vm` also one that needs a third). `MaxBlocks` bounds the headers of a chain: four are a block with a
neighbour on each side and the free one at the end.

The calendar has one mutex: with two, checking its liveness takes hours, and what
several would add is the list of locks, which is not modelled. Its window is closed (`Windows = {}`)
since exclusion fails at once with the signal between test and set.

The file system runs scale the disk down: a word of 8 bits instead of 32, two inodes to a
table block as in the code, two bitmap blocks instead of three. `MaxInodes` bounds the inodes
handed out, which the code bounds by 31: three make a directory with a file or a directory in it and one
name made again; inodes and blocks are never reused, so a longer history repeats these cases
with higher numbers until the first word of the bitmap is full, which no run reaches (section 5).
`MaxCrashes` is 1: what a crash leaves is on the disk, and every request that may follow it is explored.
In `fs_files` a block has two bytes and an inode three direct pointers; `MaxBlocks` of 4 lets a
file use all of them and the word behind. `fs_requests` has one worker: with two,
`FoundInodeIsFree` fails after a few steps and nothing else about the disk can be relied on.

`clients` sorts three numbers: two neighbouring pairs are the first case in which
threads compete for a mutex in the middle. mcounter has three threads of two turns, mmatrix four rows
for three threads, so that the division has a rest.

Runs that do not check for deadlock may really stop: inodes are used up and all names
removed, the process has ended, or the program is over.

### Fairness

`progress` (`Scheduler`'s `FairSpec`). Strong fairness of a thread's library steps: a
50 ms slice is far longer than a library statement, so a thread dispatched again
and again gets through its call. Weak fairness of `schedule()`'s own steps, which
nothing interrupts, and of the timer, which the kernel delivers. Strong fairness of elapsed
slices and of ageing: microseconds of a thread that keeps calling the library
add up, and a waiting thread gets old. Nothing is assumed of the client: it may
compute, yield or join for ever. The lock and unlock calls are not in this run: the
signal is kept out of part of them there, so an argument about the timer would not be honest.

`calendar`. Weak fairness of the timer and of the steps of a call, as the kernel delivers the signal and
calls are short. Nothing is assumed of the thread outside the library.

`clients`. Strong fairness of each thread's switch to the processor and of its steps: that a
ready thread gets to run is what `progress` shows of the library, and a slice is long enough for a statement. It
does not follow that a lock is ever got, and mtsort's checker, which may find a mutex taken each time
it is woken, is left out of `Finishes`.

## 5. Findings

Two disagreements between the code and what it says of itself are runs:

* `fs_race` - `findFreeInode` reads and writes the bitmap without a lock
  (`inode.c:125`): two threads get the same "free" inode.
* `vm_interrupted` - `requestPage` marks a frame as the caller's and the request uses it later
  (`myallocate.c:181`, 202-233); a switch in between lets another request move a page into it, which the first
  then overwrites, against `paging.c:95`.

What else was seen while modelling, and which conditions of the properties keep it out:

* **Thread library.** A tick inside the `enqueue()` that `my_pthread_create` runs leaves threads
  QUEUED that are on no run queue (`my_pthread_t.h:21`). A tick between the failed test-and-set and
  the enqueue in lock loses the wake-up, and the scheduler prints that all threads have finished
  (`my_pthread.c:332`) while one is blocked. A tick between the stores of EXITED and of `retval`
  (`my_pthread.c:106`) gives a joiner the old value. `maintenance()` advances twice after a promotion
  (292): the thread behind is left for a later pass. `Preemptible` of `threads` and `mutex` leaves these windows out;
  add them to a cfg to see each.
* **Paging and allocator.** `swapPage` exchanges a page's entry with itself (161-167), so after any
  fault the table lies. `mprotect_setter` protects the pages of the running thread when it
  is dispatched again (218-223). A first page in the swap file is replaced by a fresh one (263). A free by a thread
  without pages takes one (309). A block whose successor is in use is never marked free
  (`myallocate.c:376`). A block that begins before the last page grows by the wrong pages (190-199).
* **Older library.** Every request or free starts from a new first page, so threads cannot free;
  once a block has grown into page 1, a request takes the client's bytes for a header. In the
  calendar a lone thread that yields is queued and goes on, and is later queued twice; each
  unlock starts the time slice again; a thread that returns without `my_pthread_exit` follows
  NULL; levels are never used, as the status is overwritten with YIELD before it is looked at (395).
* **File system.** A crash after the superblock's write leaves a disk that counts as formatted and
  has no root (`sfs.c:71`). A crash between the entry and the inode of a create leaves an entry that
  hides every later file of that name (`inode.c:84`). When the first word of a bitmap is full, the search goes on in the next
  bitmap block and its index is used without an offset (`block.c:102`): the root directory's block is given out again.
  `sfs_read` subtracts the running total from what is left (`sfs.c:436`): over three blocks it
  comes back short. `sfs_write` finds one block too few unless the last one is full (506), and then writes
  through a pointer that was never set, into data block 0; `AnyWrite = TRUE` shows it as a violation of
  `BlocksOwned`. Pointers beyond the last direct one land in the fields behind the array (494-502).

## 6. Proofs

The theorems of `SchedulerProofs` hold for any number of threads, mutexes,
levels and exit values, for every set of calls and for **every** set
`Preemptible`, from the assumptions named in `Scheduler` (main is a thread, NULL is
none, levels and mutexes are disjoint, there are at least two levels).

* `TypeCorrect` (`Spec => []TypeOK`). TypeOK is not inductive: a dereference such
  as `mem.next[call[t].elem]` is typed only if the local has been set. `TypeInv`
  adds `CallsMatch`, which ties each statement to the call it belongs to and
  says which locals are set there, and `Current`, which says when there is a current
  thread and that `inScheduler` is set exactly in `schedule()`.
* `MutualExclusionHolds` (`Spec => []MutualExclusion`). `MutexInv` adds that the
  flag of a mutex is 1 while a thread holds or is unlocking it, and that a thread
  unlocking it no longer holds it. The queues do not enter the argument: exclusion
  survives even the interleavings that destroy them.
* `TimerArmedHolds` (`Spec => []TimerArmed`). `TimerInv` adds that a thread in state
  EXITED is in the call exit. It shows that an expiry ignored because
  `inScheduler` was set never leaves the library without a timer.

`SchedulerQueues` is about the queues. With the signal
in the windows what it states is false (section 5), so its theorems assume `WindowsClosed`:
`Preemptible` is a subset of `CallBoundaries`, the statements at which no thread is in the
middle of an enqueue, a dequeue, a wake-up or an exit, as in the runs `threads` and `mutex`. There is one
more condition. If two threads each wait for a mutex the other has, `DispatchAlone` finds nobody
queued and lets the blocked thread go on; it tests again, fails, and enqueues itself a second time. `Deadlocked` is
that state. `QueuesMatch`, `NeverCrashes`, `NoWakeupLost` and `ContractImplemented` hold of `Spec /\ []~Deadlocked`; where no
thread asks for a second mutex (`MaxHeld <= 1`, the case of the runs) `NeverDeadlocked` shows that
the condition is always met, and `QueuesMatchAlone`, `NoWakeupLostAlone`, `LastExit` and
`ContractImplementedAlone` do without it.
The number of threads is any finite one (`FiniteAssumption`).

* `QueuesMatch` (`[]QueuesMatchStates`) and `NeverCrashes` (`phase` is never `"crashed"`). The inductive invariant is
  `QueueInv`. QueuesMatchStates itself follows chains from `front`, and says nothing inside an enqueue, so `ListsInv`
  says the same of places: `Home(t)` is the queue the state, the priority and the call of t put it on, `InHand` the thread that the running
  call is moving, `Settled` the heap with the one store done that the running call has still to do, and
  `Lists` links each thread to a predecessor on the same queue (with what
  `Enqueue`, `Dequeue` and taking out of the middle do to it). `StatesInv` ties
  states to calls (whoever is not running is on a list), `PendingInv` says that what a call has tested still holds at the
  stores the test guards, `ScanInv` that the pointers of `maintenance()` are neighbours on the
  list it is in, `AtBoundaries` that a thread was switched out at a boundary.
* From places to chains (`ChainsAreLists`). That `Nth`, a recursive function, runs through exactly the threads of a queue needs
  induction, and the library's induction theorems cannot be instantiated: `LeastNat`
  (a nonempty set of naturals has a least element, proved by the finiteness of an initial segment) replaces it, by the
  least counterexample (`NthFollows`, `FollowsReaches`).
* `JoinDelivers` (`[]JoinDeliversRetval`). `JoinInv` adds that the value a joiner carries is the one in the
  control block of a target that has gone for good (`Gone`), `NewInv` that states do not become NEW again.
* `NoWakeupLost` (`[]NoLostWakeup`). `WakeInv` adds that a taken mutex has an owner, that a free one for which
  somebody waits has a thread on its way to test it (`Woken`), that a thread blocks only
  while the flag is set, and that unlock clears the flag only after it has woken a waiter or found none.
* `NeverDeadlocked` and `LastExit` (`[]LastExitIsLast`). `HeldInv` bounds what a thread holds, so that the owner of a mutex never
  waits itself (`NobodyBlocked`); `LastInv` says that the last thread's exit finds the others new or exited.
* `ContractImplemented` (`ImplementsContract`, that is `Contract!Spec` under the mapping). `ContractInit` maps the initial state,
  `ContractStep` each action to the step of the contract it is or to a stutter: `LockMaps`, `UnlockMaps`, `SpawnMaps`,
  `StartMaps`, `ExitMaps`, one lemma for each way `DispatchX` leaves a thread (`RequeueMaps`, `ExitedMaps`, `BlockedMaps`), and stutters
  where links move and the contract must not see it (`EnqueueMaps`, `DequeueMaps`, `PromoteMaps`, `QuietMaps`). The queues
  are places in `QueueInv` and a sequence in the contract: `ListExists` makes a sequence of a queue's links, again by a least
  counterexample, `ListUnique` says there is only one, and `QueuedIs` that `Queued` is that one, so a step is followed by
  giving the list after it (`ListAppend`, `ListTail`). `MappingInv` adds what the invariants above did
  not need: a lock asks for a mutex its thread does not hold, a thread that is BLOCKED and still runs is last in its
  queue, whose flag is set, and unlock's local is the waiter it took off, or NULL because the queue was empty. The
  attempt to prove the mapping showed that two cases of an earlier `Status` applied to a current thread that has exited; TLC takes the first
  of them, but a CASE does not promise that, and the cases are now disjoint.

The theorems of `ClientsProofs` hold for a list of any length and any number of threads and of turns, from
the assumptions named in `Clients` (`ProgramsAssumption`,
`NumbersAssumption`: threads and mutexes are numbered as the programs number them, `NullAssumption`).

* `SortedWhenQuitting` (`ClientSpec => []QuitsSorted`). `QuitsSorted` is not inductive: another
  thread could be in the middle of an exchange. The invariant `Inv` says where a thread may be in its program
  (`Places`), that where it is tells which mutexes are its own (`Owning`), and that once `quitting` is
  set the list is sorted and nobody exchanges, as it also is between the checker's verdict and the store
  (`Verdict`). From `Owning` follows `CheckerAlone`: while the checker has them
  all, no thread compares. `StaysSorted` shows that over a sorted list no comparison starts an exchange. The proof uses nothing
  of the order in which waiters are woken.
* `NeverDeadlocked` (`ClientSpec => []NoDeadlock`). `WaitInv`, inductive beside `Inv`, says of every mutex that its
  waiters are clients that wait for it, each once (`Queued`), that while it has
  waiters it has an owner or an able thread is about to try it (`Woken`: a release leaves the mutex
  free and wakes one waiter, which may find it taken again), and that the owner is at a
  place where its program has it (`Holders`). A thread takes its mutexes in increasing order, so the owner of
  the last mutex that somebody waits for cannot wait itself: a mutex it waited for would be further on.
  That there is a last one is not derived by induction over the list: it is part of the invariant (`HasLast`, for each bound), and each step keeps it.
* `ResultsAreRight` (`ClientSpec => []ResultRight`) and `ClientsTyped` (`ClientSpec => []TypeOK`). `Results`, inductive
  beside the two above, has a part for each program. In mtsort every number is in the list or in the `temp` of the one thread that exchanges its place
  (`ListInv`), and main reports only when the checker has told everybody to quit, so the list is sorted; that a sorted list with every number
  once is the numbers in order is a matter of the least place where it is not. In mcounter the counter is the sum of what
  the threads have counted (`CountInv`), written as partial sums, since a sum is a recursion. In mmatrix a row of the
  product has been computed once if its thread's counter is past it, else not at all (`RowsInv`). What main knows of whom it has created and joined is `MainInv`.

The theorems of `FileSystemProofs` hold for any names, any number of inodes, of blocks and of bitmaps, any
crashes in either phase, and any number of requests, from the assumptions named in `FileSystem` and two hypotheses. `OneRequest`:
one worker, as with FUSE's option `-s`; with two, an inode is handed out twice (`FoundInodeIsFree`, section 5).
`EnoughBlocks`: in the first bitmap, whatever malloc left in it, there are bits for the root and for every
inode that is handed out. It is needed: past the first bitmap's end the search returns an index without its offset, and the root's block
is given out again (section 5).

* `TypesKept` (`Spec => []TypeOK`) and `OneOwner` (`Spec => []BlocksHaveOneOwner`), from one inductive invariant,
  `FSInv`. Neither property is inductive, nor can they be had apart: `findFreeBlock` may return -1, which is no
  block, so the types need the bits to be counted, and what is counted are blocks of inodes.
* Of the disk, `DiskInv`: an inode with a block has its bit set and its block is its own (`InodesInv`, `OwnersInv`);
  blocks that are not marked, and those of files, are empty (`DataInv`), so that a new file has no entries without anybody clearing its block;
  an entry names an inode that was handed out (`EntriesInv`); the set bits of blocks exceed the handed out inodes by no
  more than malloc's and the root's (`SpaceInv`), which is what survives the crashes that lose bits between bitmap and inode; each write of `sfs_init` finds what
  the earlier ones left (`FormatInv`).
* Of a request, `RequestInv`: what the copies it holds of the bitmap, the table and the directory say of the blocks
  they will be written over, while it looks for an inode and a block (`FindingInv`), fills them in (`FillingInv`), takes
  out an entry (`RemovingInv`) and deletes a directory's contents in the global buffer (`DeletingInv`).
* `StepTypes`, `StepDisk` and `StepRequests` keep the three parts, a step each. That the searches return the least
  free bit or the first entry needs a least number, not induction: `LeastNumber`.
* `DirectoriesKept` (`Spec => []DirectoriesMatchInodes`) and `AnswersKept` (`Spec => []AnswersAgree`).
  Both properties speak of the moments between requests, so neither is inductive. The invariant `NamesInv`,
  inductive beside `FSInv`, says at every moment what the tree looks like (`Shape`: a directory starts with itself
  and the one it is entered in, no inode is entered twice) and what each
  request relies on (`Tasks`): the name a create is about to enter is not found (`MakingTask`); what is removed is found in a
  directory that is the root or entered there (`RemovingTask`, where paths of at most two names are used); and once a directory's inode
  is free, nothing that was in it is entered anywhere, in its block, in the global buffer and in whatever buffer the
  recursion of `deleteAllInodeEntries` leaves there (`DeletingTask`, `Orphans`). The last is why
  the entries that this function skips or deletes twice do no harm to the rest of the tree.
* A crash between the directory and the table leaves an entry whose inode is free. `Pending` says that a request is between the two
  writes, `Lost` that none is. After a crash a name may be twice in a directory, and then the search stops at a lost
  entry (`TwiceInv`); before the first one nothing is lost (`UsedInv`), which is the part of `NamesInv` that holds only while
  `crashes = 0`.
* What a write does to the tree is in `Freed`, `Made`, `Appended` and `Thinned`; a lemma for each group of steps
  (`StartTree`, `FindTree`, `FillTree`, `EnterTree`, `RemoveTree`, `DeleteTree`) applies them. That a path opens exactly when `sfs_getattr` finds it, and
  that what it finds is listed, hold after any crashes, from `FSInv` alone (`PathOpens`, `FoundListed`).
* `TreeImplemented` (`ImplementsTree`, that is `Tree!Spec` under the mapping) after any crashes. `TreeInit` maps the initial
  state; `TreeStep` shows that a step is one of `NameTree` or leaves names, spoiled names and requests alone (`SameTree`).
  Names of paths are brought down to one directory: `Place(p)` is the directory that the last name of p is in, `Seen` what a
  search there finds and is made, `Spoils` what it finds and is lost (`PathRules`). A write then does one of three things to them:
  none (`QuietNames`), one name appears (`MadeNames`, the write of the table by create and mkdir; if the search stops at a lost
  entry, the name stays hidden and is in `spoiledNames` before and after), or one name and all below it disappear
  (`RemovedNames`, the write of the inode by unlink and rmdir). The steps are then mapped a handler at a time: `AskMaps`,
  `MakeMaps`, `RemoveMaps`, `CreateMaps`, `RemovalMaps`, `CrashMaps`, `MountMaps`. The recursion of `rmdir` frees inodes that no directory
  enters, so its steps are stutters.

The theorems of `FileDataProofs` hold for any number of files, any sizes of blocks, of requests and of the bitmap and any crashes, from the
assumptions named in `FileData` and three hypotheses. `AnyWrite = FALSE`: programs append, and a request that crosses
into another block does so where the count of blocks allows for it (`Asked`); any other write may go to block 0, the unallocated
pointer (section 5). `FitsPointers`: a file has no more blocks than an inode has direct
pointers and `indirectBlockPtr`; the code refuses less than that only for sizes that are a multiple of a block. `FitsInode`: the words that
`sfs_write` may set by counting on from a size are in the inode; there are 10 pointers and 35 words of padding.

* `FilesTyped` (`Spec => []TypeOK`), `BlocksAreOwned` (`Spec => []BlocksOwned`) and `ReadsAreRight` (`Spec => []ReadsBack`), from one
  inductive invariant, `FileInv`.
* On the disk (`DiskInv`): a pointer that is set leads to a marked block after the root's (`Marked`), no two lead to
  one (`Apart`), and the blocks that a file has bytes in, and those that `numBlocks` counts, have
  pointers (`Reached`). `numBlocks` cannot be said to be the number of blocks: it counts the requests that went on to another block, and a search
  that counts on from it may set the very word it is in to the number of a block.
* Of the request under way (`RequestInv`): it appends, its copy of the inode is the disk's with some pointers set, and every block up to where it ends has a
  pointer or is still to be found (`Covered`). `FindInv` says that the blocks in the copy are marked and nobody else's, and that there are free
  ones for all that are still to be found; `WriteInv` that none are when the writing starts, and that the copy is then on the disk.
* The bytes (`DataInv`): every byte of a file below its size is in its block at its place, and so are those that a request has
  just written and has yet to add to the size.
* From the bytes to a read: `Reading` is a recursive function over the blocks that `sfs_read` goes through. That it exists, and what
  it has in its buffer after k blocks (`ReadingLoads`, `LoadedTo`), is by a least counterexample. Places are divided into block and offset by `Division`.

The theorems about the allocators hold for any number of threads and of pages of memory and of the swap file, any page and header
size, any set of sizes asked for, and any bound on the headers of a chain, from the assumptions named in `Paging`, `Allocator` and
`OlderAllocator`. Those of `AllocatorProofs` have one hypothesis, `Interruptible = FALSE`: no thread is switched out in the middle of `myallocate()`.
With a switch there the run `vm_interrupted` shows that the frame which a request has found is used by another (section 5), so
nothing below survives. Those of `OlderAllocatorProofs` have none: their model has no such switch.

* What both rest on is in `PagingProofs`: `TableInv`, and what each function of `paging.c` keeps of it. The frames in use are the
  first ones (`Filled`), since `requestPage()` takes the lowest free one and nothing ever gives one back; memory is therefore full before the swap file
  is used, and the counters are exact. A number that is given is that of a frame that has been grown into, and a frame that was grown into
  keeps its number (`Numbered`), which is why `pageCounter + 1` is always the next page although it is read from another frame's entry.
  If somebody has page n, he has all below (`Gapless`). The counters are not provable alone: `requestPage()` must be shown not to count a frame twice.
  The lemmas about a header that is resized, marked or linked (`ResizeHeader`, `RefitHeader`, `LinkHeader`) are there too.
* `AllocatorTyped` (`Spec => []TypeOK`), `CountersAreRight` (`[]CountersMatch`), `PagesAreNumbered` (`[]PagesNumbered`) and
  `LastIsFree` (`[]OnlyLastIsFree`) come from one inductive invariant, `AllocInv`. Beside the table it says that the library and whoever has a page has a chain,
  and that only the last block of a chain is free (`ChainsInv`); and of the request that is getting pages (`PendingInv`) that it is
  the current thread's, that frame 0 is the thread's, so that `getHead()` has run, that the page before the next one is known to the table, that the frame it has got lies behind the one it
  will fill (`PageFound`), and that the block it makes larger is the last one. Without the last part `OnlyLastIsFree` is not inductive:
  a block that is not free and not last would get a free one in the middle of the chain.
* `AccessPages` goes through pages one by one and is a recursive function. What it keeps is shown by a least counterexample (`AccessesExist`, `AccessPagesKeeps`).
* `OlderTyped` (`Spec => []TypeOK`), `PagesAreEnough` (`[]PagesSuffice`), `ChainIsLinked` (`[]ChainLinked`) and `ThreadsAreIsolated`
  (`[]Isolated`) come from `OlderInv`, which TLC also found to hold in the instance of `older_vm`, as it did the parts of `AllocInv` in that of `vm_requests`.
  `PagesSuffice` is about the moment at which a request finds no page; the invariant says at each step that what the request still lacks is free
  (`Asked`): the size asked for is at most that of the first page's block and of the pages got and left.
  `Chain` adds to `ChainLinked` that only the last block is free, without which a join with the block before would have to be followed further.
* `Isolated` speaks of states in which the page table tells the truth, and such states might be reached from others. The invariant is
  therefore weaker in its premise (`OpenInv`): if the table tells the truth but for the frame that a request has got and not
  yet moved, the pages in memory that are in use and can be accessed are the current thread's. A fault that is served does not bring the truth back: it puts the
  caller's page p into frame p, and what was there into the frame in which the table has that page. If the table is true of both frames afterwards, both hold page p,
  so no byte was changed and the table was true before.

Model-checked only:

* `Isolated`, `DataKept`, `TilingKept` and `TruthIsSafe` of `Allocator`. The first and the last are conditional on a table that tells the truth. In
  the submission a second fault may exchange two pages back, and with them the truth comes back, so an inductive
  invariant has to describe also the states in which the table lies; the other two are about steps and need the same for the chains and the bytes.
* The lists of the older thread library (`Calendar`), whose states are only sound until somebody yields alone.
* Liveness under fairness (`progress`, `calendar`, `clients`) and anything about ENABLED, which are out of the prover's reach.

## 7. Not modelled

* `my_pthread_mutex_init` and `my_pthread_mutex_destroy` of the older library and its list of locks
  (`my_pthread.c:82-137`, 575-597, 690-710): `Calendar` has its mutexes from the start. Destroying
  the first of several locks writes through a pointer that is not set.
* A directory that outgrows its block (`dirent.c:78-198`): it takes more entries than the 31 inodes
  that are ever handed out make with names of the length modelled.
* The OS region growing into the user's pages when it is full (the tests with LIBRARYREQ in
  the page loop of `myallocate`): `Allocator` stops there, with status `"wild"`.
* Stacks, register contexts and the window at the end of `swapcontext`.
* The earlier tree `filesystemFUSE/src`: its `sfs.c` does not compile (a missing parenthesis at line 467, a missing
  brace, calls with the wrong number of arguments); `helper.c` of the submission holds an unresolved merge
  conflict. `karl/` is a copy of the submission. The rest are sketches, a vendored header and build output.
