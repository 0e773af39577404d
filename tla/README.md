# A verification of bobtail

bobtail is a C library of small utilities: dynamic containers, virtual-memory
tricks, file and path helpers, checksums, text encoding and OpenGL/GLFW glue.
This directory holds TLA+ modules translated from its source, the TLC
configurations that check them on small instances, and proofs that TLAPS checks
for every value of the constants.

## The system

| Component | State it keeps | Operations | Interacts with | What makes it correct |
|---|---|---|---|---|
| queue (`common/queue.c`) | buffer, `alloc_size`, `front_idx`, `back_idx` | create, add, get, clear, empty, contains | `calloc`, logging | never outside the buffer, FIFO, memory in proportion to what is queued |
| list (`common/list.c`) | buffer, `alloc_size`, `end_idx`, `element_size` | create, destroy, add, get_element, remove, remove_val, merge, find, contains, clear, empty | `calloc`, logging | never outside the buffer, a multiset, merge appends everything |
| repeat mapping, POSIX (`common/vmem_posix.c`) | one shared-memory name for all processes, a descriptor, a range of pages | create, destroy | other processes, through the name | the range is a ring over one object that no other user sees; nothing left behind |
| reserve/commit/free, POSIX | pages of the process | reserve, commit, free | the kernel | a committed page is the page that was asked for |
| Windows (`common/vmem_windows.c`) | pages of the process | repeat mapping with 42 attempts, reserve, commit, free | other threads that allocate | a retry never disturbs another thread's memory |
| Switch (`common/vmem_switch.c`) | a global linked list of reservations | reserve, commit, free | other threads, `virtmemLock` | the list holds exactly the live reservations |
| file loading (`common/file.c`) | none | exists, size, load, load_existing | the file system and who writes to it | an undisturbed file is loaded whole; what is loaded ends with a NUL, never past the buffer |
| logging and arguments (`common/logging.c`, `arguments.c`) | the atomic `logging_enabled` | print, parse | every component that logs | the last two paths are input and output; silence is final |
| virtual file (`common/vfile.c`, `vfile.h`) | pointer, position, size | open, eof, writecheck; the macros READ and WRITE do not compile | none | the position never passes the end |
| SHA-1, CRC-32 (`common/sha1.c`, `crc32.c`) | block, index, length | hash a buffer | endian.h | padding never leaves the block and records the length |
| paths, UTF-8 (`common/path.c`, `utf8.h`) | none | scans, encode, decode | file.c | scans stop inside the string; the decoder keeps in step with the characters |
| input (`common/gl/input.c`) | one global struct of keys, buttons, axes | GLFW callbacks, `update_mods`, `gamepad_update` | GLFW, the frame loop | the struct agrees with the keys that are held |
| images (`common/image.c`) | none | write a DDS, load a DDS or raw pixels | file.c, others that write the file | what is written is read back, within the caller's buffer |
| OBJ models (`common/gl/model.c`) | none | parse, upload | file.c (the NUL it leaves), OpenGL | both passes count alike, nothing is stored past the buffers |
| OpenGL helpers (`common/gl/…`) | driver state | set-up, shaders, debug output | GLFW, GLAD | none beyond the driver's rules |

The library creates no thread. What runs concurrently is the program around it:
other processes (repeat mappings, files), other threads of the caller (Windows
and Switch memory, images, logging) and callbacks (GLFW). Nothing persists but
shared-memory names, so crash recovery matters there only. No call waits for
another; what must be shown to end are loops: the retries of the Windows repeat
mapping, reads of a file that changes, and scans whose position wraps around.

The hard behaviours, with their lines, are the `hazards` of `PROJECT.json`.

## Modules

| Module | What it is | Source |
|---|---|---|
| `CInt` | u32 wrap, `ALIGN_UP`, `(u32)(size * 1.5)` | `int.h`, `queue.c:62`, `list.c:43` |
| `Fifo` | abstract queue: a sequence | what `queue.h` promises |
| `Queue` | the queue, a step per call | `queue.c` |
| `QueueProofs` | its inductive invariant, its safety, its refinement of `Fifo` | |
| `Multiset` | abstract lists: a count of every value | what `list.h` promises |
| `List` | several lists, a step per call and per iteration of `list_merge` | `list.c` |
| `ListProofs` | its inductive invariant, its safety, its refinement of `Multiset` | |
| `VmemRepeat` | repeat mappings of several processes, a step per system call | `vmem_posix.c:13-53` |
| `VmemRepeatProofs` | its inductive invariant: rings, isolation and clean-up | |
| `VmemWindows` | threads over one address space, a step per system call | `vmem_windows.c` |
| `VmemWindowsProofs` | its inductive invariant and its safety | |
| `File` | loading one path while others change it, a step per system call | `file.c` |
| `Image` | saving and loading DDS files on top of `File`, by several threads | `image.c` |
| `ImageProofs` | the inductive invariant of loads and saves | |
| `Arguments` | the command line, an argument at a step | `arguments.c` |
| `Path` | the scans of a path, a character at a step, and `get_self_path` | `path.c` |
| `Utf8` | a walk with the decoder, a call at a step; the encoder | `utf8.h` |
| `Sha1` | blocks and padding, a byte at a step | `sha1.c` |
| `Sha1Proofs` | its inductive invariant: the padding is right for every length a u32 holds | |
| `ObjModel` | the two passes over an OBJ text, a line at a step | `gl/model.c` |
| `ObjModelProofs` | its inductive invariant: both passes agree on any text | |
| `Input` | the input state under GLFW events and the frame loop | `gl/input.c` |
| `Helpers` | the six helpers from `Arguments` to `Input` side by side | |
| `HelpersProofs` | arguments, paths, UTF-8 and input: what each returns, for inputs of any size | |
| `MCQueue`, `MCList`, `MCVmemRepeat`, `MCVmemWindows`, `MCImage`, `MCHelpers` | instances for TLC | |

### Queue

`data`, `alloc_size`, `front_idx` and `back_idx` are the fields of the struct;
`live` says that `data` is not NULL. `call` remembers the last call with its
argument or result and whether it did what it was called for, `fault` that
memory outside the buffer was used, after which the model stops. `queue_add`
has a disjunct for each way through the code: in place (line 78), after
reclaiming the slots at the front (46-58), after growing (59-75), or dropped
because `calloc` failed (64-67). `queue_get` and `queue_contains` are split
alike. A read past the end by `queue_contains` faults or finds anything.

The client of the runs is either `Careful` (it tests `data` after
`queue_create` and `queue_empty` before `queue_get`) or not. No header asks it
to be, so both are run.

### List

`lists` holds the struct of each list; `list_add` is the set of its possible results,
because the allocation may fail and, past the word, the conversion is undefined.
`list_merge(&dest, src)` copies the header of `src` and calls `list_add` in a loop;
`merge` holds that copy and the loop variable. When `src` and `dest` are the same list a
growth frees the buffer that the copy points to. `list_add` grows the list before it
reads the element through its argument, so that the iteration that grows already reads
freed memory (`Freed`): this read and those that follow return any value or fault.
`Multiset` lets an iteration add any value; which one is what `MergeAppends` and
`FaultOnlyInSelfMerge` are about. `list_find` is one step: it changes nothing and no
other call runs during it.

### VmemRepeat

Each of the processes `Callers` runs `vmem_create_repeat_mapping` as the
sequence of its system calls: unlink, open, truncate, reserve, one map for each
view, unlink. All of them use the name `_repeatmap_vfile`, so the steps of
different processes interleave on `name`. Any of them may die between two steps
and start again, and every fallible call may fail for want of resources. The
kernel is modelled from how the code uses it: an object lives as long as
something refers to it, and an object of mode 0 can be opened again by root
only. The processes that are not root run as one user, so that each may unlink
what another of them created, but nothing that root created: the directory of the
names is sticky, and the code does not test `shm_unlink`. `rooted` are the objects
of root. Sizes count units of 64 KiB; products of `u32` wrap at `Word`.

### VmemWindows

`space` says what is at each address of one process: nothing, a reserved or a
committed address of a thread, or a view of a thread's mapping.
`repeat_mapping_fallback` reserves a range to learn its address, releases it and
maps the views one at a time; `pc` is the next system call of each of the
`Ringers`, `idx` the loop variable, `attempts` what is left of the 42. When a
view cannot be mapped the clean-up visits every slot of the range and unmaps
whatever view it finds. Meanwhile each of the `Users` runs `vmem_reserve`,
`vmem_commit` and `vmem_free`. Addresses count views of one ring: the width
scales every range alike, and its wrap in a `u32` is left out.

Fairness: a thread that is inside `vmem_create_repeat_mapping` or
`vmem_destroy_repeat_mapping` takes its next step sooner or later
(`WF_vars(Run(t))`), as the scheduler of the operating system sees to. No
thread has to call anything, and no system call has to succeed.

### File and Image

`name` and `data` are the file system: what the path names and what is in each
file, in units of 64 bytes. Each of the `Readers` runs `file_load` or
`image_buf_load`, the `Writers` run `img_write`, and another program replaces
or removes the file. Every `stat`, `fopen`, `read`, `write` and `fclose` is a step:
`file_load` looks at the path four times before it reads, and `image_buf_load`
at least as often. `pc` is the next system call of a reader, `size` the u32 that
it remembered, `got` what its stream fetched, `buf` its buffer. `fopen` and `calloc`
can fail, reads and writes can be short or fail, and the disk can be full.
`quiet` says that nobody else touched the path and nothing failed since the
call; `over` that `fread` wrote past the buffer. A unit that nothing wrote is
`nul` in a buffer of `calloc`, `own` or `missing` (the bytes 0xCC) in the caller's.

A DDS file is a unit with the dimensions, one with the pixel format and the
pixels. `tex_size` is what `img_write` writes and `data_size` what the texture
has: the units past it are junk, because the code counts bits as bytes.

`file_load` returns a buffer with a NUL that no schedule overwrites, unless the
file had 2^32 - 1 bytes: `size + 1` is then 0, and the buffer that `calloc` may return
for it has no byte (`Terminated`, which says both). `obj_load` relies on the
NUL: `ObjModel` starts from texts that end so.

### Arguments, Path, Utf8, Sha1, ObjModel, Input

Each of these helpers is a small machine: one action that calls it and one for an
iteration of each loop. They share no state, so `Helpers` puts them side by side
and a behaviour is one of a single helper.

- `Arguments`: `output` is the structure that is returned, `arg` the loop
  variable. Only paths, `--silent`, the caller's own flags and other options are told
  apart. `LastTwo` says what comes out, and which command lines come out as
  `arguments.h` promises (`AsDocumented`).
- `Path`: positions are u16 and wrap; a position outside the memory of the path
  is a `"fault"`, after which nothing is defined. `get_self_path` is
  modelled from where it knows a path: a link, possibly cut, or `argv[0]`.
  `PathsRight` says of each function exactly when it leaves its memory, and exactly
  when the result is what `path.h` promises (`AllReplaced`, `NameTruncated`,
  `ParentDirectory`).
- `Utf8`: the decoder and the encoder are operators on bytes. `Walk` is a caller
  that goes through a string as the comment at `utf8.h:125` tells it to; the
  string may have lost bytes at both ends. What the encoder makes is compared with
  the bytes of the Unicode standard, which come out for ASCII
  and for seven more codepoints: `EncodedStandard` names them.
- `Sha1`: byte i of the message is the number 256 + i, so that the blocks show
  where each byte went. The compression of a block only resets the index.
  `StandardPadding` reads the length back from its eight bytes and shares no
  operator with the code.
- `ObjModel`: a line is the marks that the parser looks for. Both counts are
  u16; both buffers can fail to be allocated.
- `Input`: `keys`, `buttons` and `pads` are the hardware, `input`, `gp` and `axes` the
  structure. Key events, mouse events, `update_mods` and `gamepad_update` come in any
  order. A mouse event clears all five buttons before it sets the flag of its own, so
  that one of a button without a flag only clears. `polled`, `shifted` and `clicked`
  remember the last events: `InputAgrees` says which flags agree with the hardware after
  every sequence of events, and which are wrong because of the last one.

Fairness: a reader inside a load and a helper inside a call go on
(`ReaderStep`, and the steps of each helper), as any running thread does. Writers
need not finish, and nobody has to call.

## Runs

| Run | Question | Result |
|---|---|---|
| `queue` | Does a careful client's queue stay in its buffer, keep its order, and use memory in proportion? | holds |
| `queue_careless` | In how many ways can any client reach memory outside the buffer? | four, named in `FaultHasCause`: one of them is a growth past the word |
| `queue_get_empty` | Does a get from an empty queue fail, as `test_queue.c:37` says? | violated: `front_idx` moves past `back_idx` |
| `list` | Are lists multisets, with a spare zeroed slot, whatever merge does? | holds; a list merged into itself may use freed memory, from the iteration that grows it on, nothing else does |
| `list_unused_idx` | Does `list_remove` ignore an index that is not in use, as `list.c:65` says? | violated by `idx == end_idx` |
| `list_small` | Does `list_add` allocate when the list is full, as `list.h:61` says? | violated for a buffer smaller than an element |
| `vmem_repeat` | Are the mappings of processes that race, fail and crash rings that nobody else sees? | holds; a lone call fails exactly over a name that root left, and `munmap` misses a part exactly when its product wraps |
| `vmem_repeat_leak` | Does destroying a mapping free its buffer, as `vmem.h:43` says? | violated: the descriptor stays open |
| `vmem_windows` | Does a retried mapping leave other threads' memory alone, clean up after itself, and return? | holds |
| `vmem_windows_race` | Does a lost race only cost a retry, as `vmem_windows.c:11` says? | violated: with two mappings at once the clean-up of one unmaps a view of the other |
| `files` | What does a load give while another thread saves the file and another program replaces it? | holds: undisturbed, the whole file; always a return, and an end of text but for 2^32 - 1 bytes; two ways past a buffer, named in `OverrunHasCause` |
| `helpers` | When do the helpers give what the headers and standards say, at every boundary, and do they end? | holds: in all but the cases that each property names, and in none of these |

Bounds, and why they are enough:

- `queue`: at most `MaxLen` = 5 values queued and three values (one of them the zero of
  an empty slot). Five values over slots of 8 bytes take the buffer through sizes 0, 2,
  8, 12, 16, 24, 32, ... up to 72: below one slot, not a multiple of a slot, and grown
  several times, with reclaims of every offset in between. `U32` is 1024, so no size
  wraps, as the theorems assume (`WordFits`); in `queue_careless` it is 48, past which
  five values grow a buffer. Past `MaxLen` the client adds nothing, so the run may stop:
  deadlock is not checked.
- `list`: two lists of at most four elements of two bytes, initial sizes 2 and
  7, two values. Two lists are what merge needs; a list created with 7 bytes and
  filled with two elements moves in the middle of a merge into itself. Indices go one past
  the next open slot.
- `vmem_repeat`: two ordinary processes, whose rings are three units, and one
  privileged one with rings of one unit, each repeated twice, over two objects.
  Two objects are enough for every process but one to hold an old one while
  two race for the name; different widths let root cut an object that another
  one uses. `MaxRefused` = 1: shortage of resources hits one call at a time.
  `Word` is 4 units: it holds every ring and the product of the privileged process,
  and the product of the others wraps. Ordinary processes and objects are
  symmetric. Deadlock is checked.
- `vmem_windows`: five addresses, a ring of three views and regions of one and
  two, so that two users can take any part of the released range and leave too
  little for the next attempt; three attempts stand for 42, enough for one to
  follow another that failed at any view. `vmem_windows_race` has two rings of
  two views instead.
- `files`: one reader, one writer, four inodes (two more than threads, so that a new
  file never takes the place of one in use), `MaxChanges` = 3: enough to replace a file,
  save over it and remove it within one load. `Word` is six units, with contents of 2, 5
  and 7: below, at the last size before the wrap, and wrapped. The buffer has two units:
  two textures, one of DXT1 and one of DXT3, fill it exactly, the third is larger by
  one. Reads and writes take one unit or all the rest. Deadlock is checked.
- `helpers`: one call of one helper, so that deadlock is not checked. Command lines of
  up to three arguments; paths of up to four characters of three, positions modulo 8
  (`U16`) and a buffer of four bytes in `get_self_path`, so that links are cut; texts of
  up to two characters with codepoints on both sides of every boundary of UTF-8, and two
  whose digits are the same from both ends, which the encoder gets right; messages of 0,
  1, 55 to 57, 63 to 65, 119, 120, 127, 128 and 183 bytes, with a u32 that wraps at 128;
  texts of four lines, counts modulo 4; four keys, three modifiers, three mouse buttons
  (one without a flag) and three joysticks of which the last has the number
  `GLFW_JOYSTICK_LAST`. In these words the wraps that take 2^16 or 2^32 in the code take
  a few steps.

Each property of a passing run has a mutant, a definition beside the one it
stands in for and marked as such, that makes the property fail.

## What is proved

`QueueProofs` proves, for every set of values, every set of initial sizes and
every `MaxLen`, under two hypotheses: `Careful`, and `WordFits`, which says that
the largest buffer the client can make the queue ask for has a size below
2^32. (`QueueAssumption` and `U32Assumption` only say what the constants are.)

1. `Invariance`: `Spec => []Inv`. `Inv` is `TypeOK`, `FaultOnlyInContains`,
   `Shape`, `DropOnlyWhenFull` and `BoundedMemory` together. None is inductive
   alone: that a value is stored inside the buffer needs `Shape`; that the new
   size is larger than the old one needs that it did not wrap, which is
   `BoundedMemory` with `WordFits`; `BoundedMemory` needs `Shape`, since the
   buffer grows only when `front_idx` is 0 and at most `MaxLen` slots are in
   use. There is one lemma for each action, with a step for each conjunct.
2. `TypeCorrect`, `MemorySafety`, `IndicesInOrder`, `DropsOnlyWhenFull`,
   `MemoryBounded` follow.
3. `ContainsFinds` is an action property proved from `Inv`.
4. `ImplementsFifo`: every step of `Queue` is a step of `Fifo` or a stutter
   under `items <- Contents`, `out <- Out`. This is where the reclaim must copy
   from `front_idx` and the growth must keep every value in place.
5. `FaultsExplained` and `AnyClientTypeCorrect` drop both hypotheses: whatever the
   client does, and however large the queue becomes, memory outside the buffer is
   reached in the four ways of `FaultHasCause` only. A growth whose size wraps
   (`GrowthWraps`) is one of them, so that whatever is stored elsewhere is stored after
   a growth that did not. `AnyInv` is inductive without the order of the indices, which
   a get from an empty queue breaks: `InBuffer` keeps only that neither index passes the
   slots of the buffer. `WordOfSlots` (2^32 is a multiple of the size of a pointer) is
   needed for the `memmove` of a reclaim after such a get: its negative length wraps to
   more bytes than any buffer has (`Moved`).

`VmemWindowsProofs` proves, for any number of threads, addresses, views of a
mapping and attempts, and any set of region sizes:

1. `Safe`: `Spec => []Inv`. `Inv` is `TypeOK`, `RegionKept`, `ReleasesOwn` (what a
   thread is about to release is still what it reserved: without it the release
   could free what another thread holds) and `ViewsInPlace`, which says where a
   thread can have views at each point of its loops: below the loop variable
   while it maps, from it on while it unmaps. The end of the clean-up is then
   the end of its views.
2. `TypeCorrect`, `RegionIsKept` and `NoViewIsStray` follow.
3. `LoneRingIsKept`: if there is at most one thread with repeat mappings, a mapping
   that was returned keeps every view (`ViewsThere`, inductive together with
   `Inv`). The hypothesis is needed: `vmem_windows_race` shows what happens with two.

`ListProofs` proves, for any number of lists, every set of values, every size of an
element and every `MaxLen`, under the hypothesis `Careful`: the client gives each list
room for an element, passes no `end_idx` to `list_remove`, and keeps so few elements
that no new size wraps. The two violated runs of the list are what happens without the
first two.

1. `Invariance`: `Spec => []Inv`. `Good(l)` says of one list that it has the slots that
   `alloc_size` pays for, one of them to spare, and zeros from `end_idx` on; a lemma
   for each of `list_add`, `list_remove`, `list_remove_val` and `list_clear` shows that it
   keeps a list Good. The size of an element is any number, so that the arithmetic of
   `ALIGN_UP` is proved for every divisor (`Division`, `Quotient`, `Growth`).
   `Merging` says what a `list_merge` under way may rely on: dest has a buffer
   and room for what is left, and src still has the elements the copied header counts.
   Without it neither the read nor the write of an iteration is in bounds. It holds until
   the buffer of a list that is merged into itself is freed, which is when
   `MemorySafety` allows a fault: from the read of that same iteration on.
2. `TypeCorrect`, `TailStaysZero`, `MemorySafety` follow, and `MergesInOrder`, whose
   step is that one element more at the end of dest is one more of the prefix of src,
   though both may be the same list.
3. `ImplementsMultiset`: every step is a step of `Multiset` or a stutter under
   `count <- Count`. The count of a value is the number of its places;
   `CountRemoves` shows that filling the hole with the last element takes away one
   place of the value removed and only moves one of the other's.

`Sha1Proofs` proves, from `Sha1Assumption` and the width of the length only:

1. `Sha1Invariant`: `Sha1Spec => []Inv`. Every byte taken is in a block that was
   processed or below the index in `msg_block`, the index stays in the block, and the
   length counts the bits. The cases of the padding (`LastBlocks`, `PaddedBlock`)
   are split as the code does, at the first index that leaves no room for the length.
2. `MessagesPadded`: so the blocks that are hashed are the padding of the standard,
   for messages of every length below 2^32 bytes (of a longer one, for the first `len`
   modulo 2^32), where the run checks those around the ends of one, two and three blocks. All eight bytes of the length count: `LengthDigits` shows
   that they are the digits to the base 256 of the number of bits, `PaddingIsStandard`
   that the blocks of the code satisfy `StandardPadding`.

`VmemRepeatProofs` proves, for any number of processes, privileged or not, any number of
objects and of failures, under the hypothesis `Fits`: no caller asks for an empty ring
or for one of 2^32 bytes or more (see the observed divergences). The repeated size may
be as large as it likes.

1. `Invariance`: `Spec => []Inv`. `OwnState` says what a call holds at each of its
   system calls: in the loop the first `view` views of the range are in place and
   the rest is reserved (`NextView`, which rests on `Remainder`, the uniqueness of the
   remainder), so that the end of the loop is a whole ring. `OwnSize` says that
   the object is as long as its caller made it unless another opened it.
   `Apart` is what makes both survive the steps of others: a descriptor that two
   callers have is to an object that is `shared`, and never of two that are not root.
   `Fresh` (an object that nobody has opened or named has no size) is why a mapping
   is backed only if its own `ftruncate` worked.
   `AloneState` carries what a call alone has established so far.
2. `TypeCorrect`, `RingWhole`, `Isolated`, `AllBacked`, `NoNameLeft`
   follow; for `Isolated` every object that a range shows is one its owner has open
   (`ShownOpen`).
3. `AloneIsEnough` and `DestroyIsExact` are action properties proved from `Inv`. Both say
   when the code fails as well as when it does not: a name that root left, and a
   product that wraps.

`ImageProofs` proves, for any number of readers, writers, images, files and changes by
others, from `FileAssumption` (there is always an unused inode) and
`ImageAssumption` (files are finite, a texture has a u32 of mipmaps, and a buffer has a
u32 of bytes):

1. `Invariance`: `Spec => []Inv`. `OwnLoad` says what a load holds at each of its system
   calls: the buffer is as long as the size it read first says, and nothing has
   written to the byte after it. `QuietLoad` adds what an undisturbed load may rely
   on: the path still names the file it looked at, the size is still that of the file,
   and buffer and stream together are a beginning of it. `OwnSave` is the like for
   `img_write`: what is in the file is a beginning of the texture's file. These two
   survive the steps of others because a step that touches the path ends the
   quiet of everyone else (`Calm`, `ReaderKept`, `WriterKept`). There is a lemma for
   each system call of each function.
2. `TypeCorrect`, `TextsTerminated`, `LoadsWhole`, `OverrunsExplained` and `SavesWhole`
   follow. That a text ends, but for the one size, and that a buffer is left only for
   the named causes holds whatever the others do to the file between the looks of a
   load.
3. `ViewsBack`: `Spec => []Viewed`, an undisturbed `image_buf_load` returns the texture
   that `img_write` saved, with its format exactly when a compressed one is DXT1.
   `ViewInvariant` is inductive together with `Inv`: `QuietView` says how far a call has
   come that nobody disturbed. The header is the first two units of the file, header and
   stream together are a beginning of it (`HeaderTaken`), and once the last read ends at
   the end of the file the buffer is the rest (`StoredPart`). The size that was read
   first may have wrapped: a file whose pixels just fit in the largest buffer has more
   than 2^32 bytes, its size is then smaller than a header, and the read goes on to the
   end all the same (`Wrapped`).

`ObjModelProofs` proves, for texts of any length and counts of any width (`ObjAssumption`):

1. `ObjInvariant`: `ObjSpec => []Inv`. Before each line both counts are those of the
   lines behind, modulo the width (`Reduced`: reducing after every addition is the
   same as once), and the second pass has stored one entry for each. `PassIsWhole` says
   that a pass leaves nothing that counts when it stops at a line without a newline.
2. `StoresInBounds`: so the second pass stays in its buffers unless a count has wrapped.

`HelpersProofs` proves, from the assumptions of each module (`ArgumentsAssumption`,
`PathAssumption`, `Utf8Assumption`, `ModsAssumption`, `InputAssumption`), which say what the
constants are; the one bound is on the length of a path, by the u16 that counts it:

1. `LastTwoPaths`: for command lines of any length, and for which of them that is what
   `arguments.h` says. `ArgumentsInv` says that the loop
   has done what the arguments it looked at ask for; `PushedIs` is the step that
   moves a path up.
2. `PathsAreRight`: for paths of any length that a u16 counts, and any u16; where
   `path.h` promises something else, the paths for which it is kept. Each
   function has its part of `PathInv`, which says what the characters that the scan
   passed are (`Passed`), what the memory of the path holds (`Kept`), and that a
   position is that of a character or went below 0 (`Wrapped`). A position that wrapped
   is past the path, because `PathAssumption` gives a path less than the word.
3. `TextsTranscoded`: for texts of any length, cut anywhere, and every codepoint.
   `ReadsBack` is the arithmetic of the decoder, which returns a codepoint from its
   standard bytes. The encoder's bytes are the standard ones for ASCII and for the seven
   codepoints whose digits are the same from both ends, a statement per length of linear
   arithmetic over the digits. `TextBytes` says where in a text the bytes of each
   character are. `Utf8Inv` places the walker: in what is left of a first character
   (`InLost`), before a whole one (`AtCharacter`), or past the end of a string that was
   cut (`Past`).
4. `InputIsRight`: for any keys, buttons and joysticks. `InputInv` has a conjunct for
   each kind of flag; that one event leaves the flags of the other kinds alone rests
   on no name standing for two (`Names`).

The bytes of a text and of a command line are defined along their length. The
induction theorems of the library are out of the prover's reach, so such
facts are proved from a least counterexample (`LeastOf`): a set of numbers that is not
empty has a least element, which follows from the well-foundedness of `<`.

## Only model-checked

The three liveness properties, `Returns`, `LoadReturns` and `HelperReturns`: what
follows from weak fairness needs ENABLED, which is out of the prover's reach. Every other
property of a passing run is a theorem. What stays with TLC beside them is the
five runs that expect a violation.

## Not modelled

- Formatting of log messages; the values of bytes inside an element;
  `calloc(0)` returning NULL is the failure branch of create. Growth of a list
  past 2^32 bytes is excluded by `Careful` and by the run's word (`list.c:44` asserts
  that it does not wrap); that of a queue is a cause of `FaultHasCause`.
- `vmem_switch.c`: the first `vmem_reserve` writes through the head of its list,
  which is NULL (line 41). No state after a first call is defined.
- `VFILE_READ` and `VFILE_WRITE`: `((T)*)` is not a type, so that no program can use
  them, and nothing else moves the position of a virtual file.
- `vmem_reserve`, `vmem_commit`, `vmem_free` of POSIX: one system call each.
- The SHA-1 compression, CRC-32 and the table it looks up, `int.c`,
  `path_has_extension`, `path_is_file`, `path_is_dir`, `img_snap`, `has_flag`: functions
  of one expression or table with no state, for which a model would repeat the code.
- The scroll sums and the cursor of the input state: copies of two doubles.
- `model_upload` and the OpenGL helpers: sequences of driver calls, tables of
  vertices and float arithmetic. Platform detection, tests and build files.

## Observed divergences

Besides the findings of `PROJECT.json`, which have a run each, reading the code for
the models met these. Where a property is named, it states the case as an exception.

- `image.c:268-273`: `image_buf_load` takes DXT5 for DXT3 and DXT3 for DXT5; BC4
  comes back as DXT1 (`Viewed`: the format comes back exactly if it is DXT1).
- `image.c:163`: `8 << unit_size` counts bits and is named and used as bytes:
  `img_write` reads eight times `img.data` (the `junk` units of `Image`).
- `image.c:253`: a DDS file is loaded without a look at `buf_size` (`OverrunHasCause`).
- `file.c:55`: `size + 1` is 0 for a file of 2^32 - 1 bytes, whose buffer has no room
  for a NUL (`Terminated`); larger files are cut to their size modulo 2^32,
  `file.c:44` (`LoadedWhole`, `OverrunHasCause`).
- `image.c:115`: `has_flag` is true for every flag that is not 0.
- `sha1.c:245`: `SHA1_buf` takes a u64 length and hands it on as a u32 (`Padded`).
- `utf8.h:79`: `codepoint_to_utf8`, which "encodes a Unicode codepoint as UTF-8", puts
  the low bits first: of the codepoints above U+007F it encodes only seven, U+07FF,
  U+5555, U+AAAA, U+FFFF, U+49249, U+92492 and U+DB6DB. It takes U+0080, U+0800 and
  U+10000 for one byte too few (`Encoded`). A character that is cut off by the NUL takes
  the walk past it (`Decoded`).
- `path.h:17,21`: `path_fix_*` never look at the first character and wrap on an empty
  path; `path.h:27-29`: `path_truncate` and `path_get_filename` run past the start of a
  path without a slash, where zeros are promised. `get_self_path` of a program in `/` is
  the empty string, and of a link that was cut the directory above the place of the cut
  (`PathsRight`).
- `arguments.h:12,38`: `flags.silent` is never set; `arguments.h:15-17`: an argument that
  matches nothing is no path but dropped when it starts with `--` (`LastTwo`).
- `gl/input.c:296-301`: `!flag & (mods & bit)` can be 1 for shift only: every key event
  clears the other five. The keys of the keypad and the modifiers have no case. A mouse
  event clears the other buttons, held or not (lines 321-325). `gamepad_update` skips
  the sixteenth joystick, which `gl/input.h:213` counts in, and adds up triggers that
  rest at -1 (`InputAgrees`).
- `gl/model.c`: 2^16 vertices or indices wrap the counts (`ObjInBounds`); a last line
  without a newline is ignored.
- `vmem_posix.c:17-19`: a name left by a crash is not always deleted first: root's is
  not when the caller is not root, which then fails (`AloneSucceeds`).
- `vmem_posix.c:21,36,51`: the products that `ftruncate`, the views and `munmap` get are
  u32 and wrap (for `munmap`: `DestroyUnmaps`), the one that reserves the range is u64;
  an empty mapping, or any other that `mmap` refuses, is compared with NULL and not with
  `MAP_FAILED` (line 29).
- `vmem_posix.c:72`: without `MAP_FIXED` the address is a hint, and it is taken:
  the pages are committed elsewhere and lost.

## Plan

1. Weaker hypotheses for `ListProofs`, as `FaultsExplained` has for the queue: which
   lists stay `Good` beside one that a careless client spoiled.
