# Specifications of libarchive

TLA+ modules for the parts of libarchive whose correctness depends on long
sequences of calls, on callbacks that answer short, late or with errors, and on
state that several functions share.  The code is `src/libarchive`; module
comments name the C functions and variables they stand for, and `PROJECT.json`
maps every definition to its lines.

## 1. The system

libarchive reads and writes archives as streams.  A reader is a pipeline

    client callbacks -> "none" filter -> decompression filters -> format reader -> application

and a writer the same pipeline backwards.  Everything runs in the caller's
thread: concurrency comes from child processes (program filters) only.  What is
hard is the *protocol*: who may call what after which answer, what a call has
already done when it fails, and which of several copies of the same data is
the current one.

| component | files | state | operations | interaction | what makes it correct |
|---|---|---|---|---|---|
| reader I/O layer | `archive_read.c` 180-310, 1470-1930 | copy buffer, client block, position, flags, volume list | `__archive_read_filter_ahead/_consume/_seek` | called by formats and upper filters; calls the client | one stream: bytes once, in order, at the position; calls return |
| client callbacks | `archive_read_open_*.c` | file offset, block buffer | open, read, skip, seek, switch, close | called by the I/O layer | environment of the layer |
| reader lifecycle | `archive_read.c` 490-1300, `archive_read_data_into_fd.c`, `archive_check_magic.c` | `archive->state`, `read_data_*`, `file_count` | open1, next_header2, read_data, data_skip, data_block, seek_data, close, free | called by the application; calls the format | every call in the states it is legal in, fatal is final, holes are zero filled, every data byte once |
| bidding | `archive_read.c` 560-780, `archive_options.c` | registered bidders and formats | choose_filters, choose_format | peeks through the I/O layer | the position is 0 again afterwards |
| program filters | `archive_read_support_filter_program.c`, `archive_write_add_filter_program.c`, `filter_fork_posix.c` | two pipes per program, buffer of its output | child_read, child_write, close | child processes, the filters next to them | no deadlock on two pipes, all output passed on once, exit status reported, children reaped |
| writer | `archive_write.c` | filter states, client block buffer, `archive->state` | open, header, data, finish_entry, close, free, fail | called by the application; calls formats, filters, the client | full blocks except the last, padding, bytes once, close once |
| hard link resolver | `archive_entry_link_resolver.c` | hash table of entries, spare entry | linkify, partial_links | called by tar and cpio | every file of a link set is written once, in the order the format needs |
| writer to disk | `archive_write_disk_posix.c` | fix-up list, current object, temporary file | header, data, finish_entry, close | file system | objects are what their last entry says, deferred attributes after contents, old objects kept when told |
| reader from disk | `archive_read_disk_posix.c` | stack of directories, descriptors, delayed warning, sparse list | next_header, descend, data, close | file system, other programs | every object once under its true path, an end, no descriptor or access time left behind |
| containers and matching | `archive_rb.c`, `archive_match.c`, `archive_pathmatch.c`, `archive_entry*.c`, `archive_acl.c`, `archive_string*.c` | trees, lists, strings | lookups, conversions | used everywhere | functional correctness |
| formats and filters | `archive_*_format_*.c`, `archive_*_filter_*.c` | syntax of each format | read_header, read_data, write_* | I/O layer, writer | each its own format |
| programs | `tar`, `cpio`, `cat`, `unzip`, `libarchive_fe` | options | command lines | clients of the library | - |

Where it is hard: *ordering and stale state* (two buffers, the client and the
position are updated in four different places of one consume), *partial
failure* (a seek that has moved the client and then fails), *numeric edges*
(volume boundaries, the growth of the copy buffer), *liveness* (the two `for
(;;)` loops of the layer), *protocol sequences* (the state machine of the API,
a write that fails half way), *waiting* (pipes that are full at both ends), and
a *file system* that has something else in the way or changes meanwhile.  The
list with lines is `hazards` in
`PROJECT.json`.

## 2. Plan

1. **ReadAhead** with its abstract specification **ByteStream**,
   **ReadAheadProofs** and **ReadAheadRefinement** - done, section 3.
2. **ReadArchive** and **ReadArchiveProofs**: the reader lifecycle over an
   abstract format - done, section 4.
3. **WriteClient**, **WriteArchive** and **WriteArchiveProofs**: blocks, padding
   and the writer's state machine with one format and one filter - done,
   section 5.
4. **ChildProcess**, **ProgramFilters** and **ProgramFiltersProofs**: chains of
   external programs - done, section 6.
5. **WriteDisk** and **WriteDiskProofs**: extraction to disk with its fix-ups -
   done for modes, times, directories, files and hard links, section 7.
6. **TreeWalk**, **ReadDisk** and **ReadDiskProofs**: the walk of a tree and the
   data of its files - done, section 8.
7. **LinkResolver** and **LinkResolverProofs** - done, section 9.
8. Left: `archive_rb.c` and `archive_match.c`; symbolic links and deep
   directories in WriteDisk; a proof of `Restored`.

## 3. ReadAhead: the I/O layer

**What it models.** The bottom filter with `__archive_read_filter_ahead`,
`__archive_read_filter_consume` (`advance_file_pointer`) and
`__archive_read_filter_seek`, the four client proxies (`client_read_proxy`,
`client_skip_proxy`, `client_seek_proxy`, `client_switch_proxy`) and the parts
of `archive_read_open1` that touch the client.

*State.* `copy`, `gap`, `bufsize` are `f->next/avail`, `f->next - f->buffer`
and `f->buffer_size`; `base`, `cnext`, `cavail`, `ctotal` the client block;
`position`, `fatal`, `eof` the flags; `cursor`, `source`, `usable`, `sized` the
client: the current volume, the byte it delivers next, whether it is open, how
many volumes have a known size; `has` its optional callbacks, one of `Clients`.
A byte is its number in the whole stream, so
`copy` is a sequence of numbers and a block is `base` with offsets: nothing else
about the data matters.  `call` is the call in progress and `reply` the last
answer.  Two histories say that the stream has been left somewhere without an
error: `lost` after a failed seek that had moved the client and after a failed
skip that was taken for a shorter one, `cut` after a volume that did not open
and was taken for the end.

*Actions.* One per pass of a loop: `Ahead` begins a look-ahead, `PeekCopy`,
`PeekClient` (roll back), `PeekAtEnd`, `Fill`, `FillError`, `NextVolume`,
`StreamEnd`, `Gather` (grow and copy), `GrowFails` are the branches of one pass.
`Consume` uses up the buffers; `client_skip_proxy` is `SkipByCallback`, one step
per answer of the skip callback (`SkipServes`: some of what was asked,
`SkipFails`: a negative answer, `SkipStops`: zero, `SkipOverruns`: more than
asked), `SkipBySeeker` and `SeekerFails`, and `NoSkipper`; `Discard...` is a pass
of the discarding loop.  The loop of the skip callback has no test for an error:
`call.got` adds up the answers above zero, `call.missed` those below, which
enlarge the next request, and only the sum is looked at, at the end.
A seek is one step, because nothing of the filter changes before its last
statement; the volumes it visits and the callbacks that fail on the way decide
among `SeekDone` and `SeekStops`.  `OpenDone` is the end of `archive_read_open1`.

*Environment.* The read callback delivers any number of bytes up to
`BlockMax`; the skip callback skips any number of the bytes left in the volume,
the seeker places the volume inside
its bounds or refuses (`SeeksPastEnd`: accepts offsets past them, as `lseek`
does).  `Faults` says what may fail: with `skip` the skip callback may fail at any
call and skip too much, with `switch` a volume may not open, or open although the
switch answers an error (that of the closer).

**Abstract specification.** `ByteStream` has a position and nothing else: a
look-ahead shows the bytes at the position and is refused only when the stream
ends before, a consume moves exactly, an error ends the stream, a failed seek
or a failure that went unnoticed leaves it anywhere (`lost`), until a seek
succeeds.  `ImplementsByteStream` is the refinement: the mapping takes the
position before a consume that is still going on, and `lost \/ cut` for `lost`.

| run | question | bounds |
|---|---|---|
| `ReadAhead_single` | does the layer implement the stream when reads, seeks and allocations may fail and skips go through the seeker? | 1 volume of 4 bytes, blocks up to 3, look-aheads 0..4, so every roll back, growth and slide occurs; a seeker and no skipper, threshold 2 instead of 64 KiB, so short skips read and discard |
| `ReadAhead_volumes` | is it still one stream over three volumes, with a skipper that stops short, fails or overruns, with volumes that do not open, and with seeks across them or refused by a client that cannot seek; and do the loops end? | 2 + 2 + 1 bytes, blocks up to 2: look-aheads of 3 and consumes of 6 span volumes; clients with a skipper, with and without a seeker; `SkipErrorMax` 1 |
| `ReadAhead_skip` | is a consume answered by an error when the skip callback failed in it? (no) | 1 volume of 4 bytes, `SkipErrorMax` 1 |

The bounds are enough because the code compares amounts and never looks at
bytes: the cases are the relations between the request, the two buffers, the
room and the end of the volume, and each is reached with four or five bytes.
Two bounds are in the guards: calls begin at `position <= Size` only, which cuts
off streams that a failed seek has left elsewhere, and `SkipErrorMax` bounds what
the negative answers of the skip callback within one consume add up to; with 1 a
failure before, between and after successful skips is reached.  `SeekEnd` takes
offsets that are not positive, as the formats do.

**Fairness.** `CallsReturn` assumes `WF(Pull)` and `WF(Skip)`: a call in
progress goes on, because it is sequential code in the caller's thread.  That
the application makes another call is not assumed.  `SkipErrorMax` is an
assumption of `CallsReturn`, too: a skip callback that answers every call by an
error is asked for ever, with a request that grows, since no test in the loop of
`client_skip_proxy` (195-207) ends it.

**A finding** (`ReadAhead_skip`).  `advance_file_pointer` "returns a negative value
if there's an I/O error" (`archive_read.c:1707`), and 1744-1748 mean to make the
filter fatal.  A skip callback that skips k bytes, then answers -1, then 0 gives
the sum k - 1, which is no error: the consume goes on, and from there `position`
and the client are one byte out of step (`lost`).  The bundled openers answer an
error only at their first call of a consume and 0 from then on, so that their sum
stays negative; other clients may reach it.

**Divergences** that were met and have no run.  The switch to the first volume
at the end of `archive_read_open1` (`OpenDone`) comes although look-aheads of the
bidders may have gone into a later volume whose bytes are still buffered: behind
them volume 0 is read again, against "array of filenames to open in sequence"
(`archive_read_open.3:124`).  A volume that cannot be opened is taken for the end
of the stream (`StreamEnd` after a failed switch), although
`archive_read.c:1481-1482` promises an error; and a skip through the seeker in any
volume but the first is fatal (`SkipBySeeker`), because an offset in the volume is
compared with a position in the stream.  A seek that fails after the client was
moved leaves the stream anywhere (`lost`), and seeks at the borders of volumes
answer by the volume they stop in (`SeekStops`).

**What is proved** (`ReadAheadProofs`, for all values of the constants that
satisfy `StreamAssumption`):

- `BuffersSafe`: `TypeOK`, `BufferBounds`, `GrowthBounded` always hold
  (`CountsStayNatural` and `CopyBufferStaysSmall` state the first and the last
  on their own).  None is
  inductive alone: rolling back subtracts `f->avail` from `client_next`, which
  stays inside the block only because the data not yet used is the *end* of the
  block (`BlockShape`), and that survives a discard only because a consume goes
  past the buffers when both are empty (`PastBuffers`).  `IInv` is their
  conjunction; there is a lemma per action.
- `StreamInStep`: for an `Orderly` client, `InStep` always holds: the copy
  buffer holds the bytes from the position on, the client block goes on from
  there, and the client delivers the byte after both and after what the skip
  callback has skipped of the consume in progress.  Nothing is said once a seek
  has failed, a failed skip has gone unnoticed or the filter is fatal.
  `Orderly` (one volume or
  no bidding; a skipper, no seeker, or a seeker that refuses to leave the
  volume) excludes the switch after bidding and the skip through the seeker
  that lands behind the end, which go wrong (above).  The strengthening is that
  the client never
  is past its volume's end (`InVolume`), so that a drained volume is left at
  exactly the byte where the next begins.

`ReadAheadRefinement` proves `LayerIsByteStream`: for a client that is `Orderly`,
`Spec => ImplementsByteStream`, whatever fails.  A failure that the code does not
notice (an unnoticed failed skip, a volume that does not open) is the abstract
step `Lose`, after which the abstract stream promises nothing until a seek
succeeds.  The initial states map to the initial state, and every other action
is, under the mapping, the abstract step of the same operation or a stutter.  On
top of `IInv` and `InStep` the argument needs `AbsInv`: a failed filter has no
call in progress, the position stays inside the stream, and unless the stream is
lost `f->end_of_file` means that the last volume is used up, so that a short
look-ahead answers what really is left.

Only model-checked: `CallsReturn` (liveness is out of the prover's reach).

## 4. ReadArchive: the life of a reader

**What it models.** `archive_read_open1`, `archive_read_next_header`,
`archive_read_data`, `archive_read_data_block`, `archive_read_data_skip`,
`archive_seek_data`, `archive_read_close`, `archive_read_free`
(`archive_read.c`), `archive_read_data_into_fd` with `pad_to`
(`archive_read_data_into_fd.c`) and the check of the state
(`archive_check_magic.c`).

*State.* `state` is `archive.state` (`"freed"` is the object that is gone);
`chain` is `a->filter`, none, open or closed; `rd` the four `read_data_*`
variables; `declared` is `entry_bytes_declared`; `file` and `fdpos` the
application's descriptor.  `held` counts openers of the client minus closers.
A byte of data is the pair entry and offset, a byte of a hole is `Hole`, so a
byte of the wrong entry or the wrong place is seen.  `call` is the copy loop in
progress; `got`, `mixed`, `headed`, `skipped` are histories for properties:
`headed` is the last answer of next_header and of the skip it began with, `skipped`
what the format answered to the last skip.

*Actions.* One per call, one disjunct per way it ends.  The two copy loops take
a step per pass: `DataRefill` (a new block, the end, an error), `DataCopy`
(zeroes and bytes), `DataOutOfOrder`, `DataRefused`; `FdNext` (block, cut at the
declared size, gap), `FdWrite` (a write, short or failing), `FdOverrun`.

*Environment.* The format reader is a list of entries with extents, handed out
in blocks of every length, with `OK`, `WARN`, `FAILED` or `FATAL`; headers
answer any code; seeks restart the data of a stored entry and count offsets from
there, as the rar reader does, the only one that seeks in data (a seek of its over
several volumes that fails half-way has moved; the model's has not).  `fmt.body` is
what the reader stands on: a header, a body, or nothing after a fatal answer.  A skip
may answer any code but RETRY (`SkipCodes`), and unless it answers OK it may leave the
reader on a header or in the body (`Skipped`, body `"left"`): a solid rar answers what
its data answered and stops there, and one that goes on in another volume answers what
the header there did.  `archive_read_data_skip` sets the state to HEADER all the same,
and hides EOF (`SkipReply`), so that the test for EOF in next_header never holds.  The
next header is then looked for in the body: it fails, ends the archive, or takes what
is found there for the next entry (`HeaderRead`).  A header read while a body is left
that nobody skipped makes the reader `"astray"`, which `FormatInStep` excludes.

| run | question | bounds |
|---|---|---|
| `ReadArchive_read` | is the data one stream with zeroes in the holes and 0 its end, is the format reader called in step, is the end final, does a failed entry hand out nothing, is the client closed once? | entries with holes before, between and behind the data, in two extents without holes, out of order; buffers of 1 and 3 bytes; every failure of every layer at every call, one RETRY, two opens |
| `ReadArchive_fd` | does the copy to a descriptor stay within the declared size, and is it faithful; do both loops end? | five entries whose declared size is smaller, larger, missing, with an empty block, a hole only; pipes and regular files; short and failing writes |

The bounds are enough because the loops compare three offsets and a length: the
entries have a hole in each place one can be, and blocks and buffers end
before, at and behind each border.  `MaxOpens`, `MaxRetries` and `FdMax` stop
counters that nothing else bounds.  `CHECK_DEADLOCK FALSE` stands in each
configuration because a freed archive is the end.

Divergences were met that have no run: a read that copies blocks and then meets
one with WARN answers WARN and the bytes copied are in no count (`DataRefused`);
after a fatal skip in next_header `archive_read_data` still hands out the rest of
the block it was copying (`DataCopy` does not look at `state`), although
`archive_read.c:674-676` says reads will fail; a block that goes back is written
at the current offset of a pipe, so that more than the declared size is written
(`FdOverrun`, `FdWrite`; this is why `FdWithinDeclared` and `FdFaithful` are
stated for entries whose blocks come in order); the answer of the extractor's
cleanup replaces a failed close in `archive_read_free` (`FreeCode`); copying an
entry with a hole to a file whose offset was not 0 fails, because `pad_to`
compares an offset in the file with one in the entry (`FdNext`); a skip that answers FAILED
makes next_header answer FAILED for an entry whose data is then handed out
(`WorstOf`; the run has such skips, and `FailedEntryRefused` excuses a FAILED that
came from the skip and nothing else); after the same skip a header is looked for in
the body (`Skipped`), which `FormatInStep` allows for these answers only; the client stays open for ever when
the first filter cannot be allocated (`NoMemory`; no fault `nomem` where
`ClosedOnce` is checked); blocks go back when the archive's sparse map does,
against the guarantee of `archive_read_data.3`.

**Fairness.** `CallsReturn` assumes `WF(DataStep)` and `WF(FdStep)`: a loop in
progress goes on.  It is checked without failures of the format reader, because
with them fairness would let a loop that cannot end otherwise be ended by a
failure.  Extents are finite, so the reader does not answer empty blocks for
ever.

**What is proved** (`ReadArchiveProofs`, for every list of entries, set of calls
and set of faults).  `Control` is the inductive invariant: the state is in step
with what the format reader stands on (`FormatInStep`), and a copy to a
descriptor runs only in the state DATA (`Running`).  The second part is needed
because the copy loop does not check the state again between two blocks: its
passes stay inside DATA only because each answer that leaves DATA ends the loop.

- `InStepSafe`: `FormatInStep` always holds, whatever skips answer and wherever they
  leave the reader.
- `FinalSafe`: `EndIsFinal`, an action property, from `Control`.
- `ClosedSafe`: `ClosedOnce`, assuming `"nomem" \notin Faults`.  The
  strengthening `Unopened` says that a new archive has no filters, which is why
  a second open after a failed one finds the client closed.

The second part of the module proves what is said of the bytes.  Its invariant
`Serving` goes from the format reader to the application:

- `Counting`, `Walking` and `Moving` type the counters, the place of the format
  reader (inside an extent, at or behind the origin its offsets count from) and
  the variables of the call.
- `Streaming` splits the entry in four: what has been copied (`Copied`), a hole up
  to the block in hand (`Ahead`), the bytes of that block (`InHand`), a hole up to
  where the format reader stands (`Behindhand`).  Each pass of the loop moves one
  border, and `StreamFaithful` is its first part.
- `Writing` is the same for the copy to a descriptor, with the clip at the
  declared size: what is written and what is in hand stay below it (`Within`), and
  the file, read with zeroes behind its end, is the entry so far (`Whole`).
- `ZeroPromise` and `FdPromise` keep what the last answer has said.

The theorems are `CountersBounded` (`TypeOK`), `StreamIsEntry` (`StreamFaithful`),
`ZeroIsEnd` (`ZeroMeansEnd`), `WithinDeclared` (`FdWithinDeclared`), `FdIsEntry`
(`FdFaithful`), and `FailedStaysRefused` (`FailedEntryRefused`, from an invariant that ties `headed` to
the state: a FAILED that is not the skip's is the state RECOVERY).  They
hold for all constants that satisfy `ReadArchiveAssumption`: extents lie inside the
entry; that they are in order is a condition in the properties (`Ordered`), since
archives are free to say otherwise.

Only model-checked: `CallsReturn`.

## 5. WriteArchive: the life of a writer

**What it models.** `archive_write.c` from open to free with the format ustar and
the filter b64encode, both of which may be absent: `archive_write_open2`,
`archive_write_header`, `archive_write_data`, `archive_write_finish_entry`,
`archive_write_close`, `archive_write_free`, `archive_write_fail` and the check
of the state.  `WriteClient` is the last filter of every chain
(`archive_write_client_write/_close`): it has the variables and actions of the
block buffer, and `WriteArchive` extends it with its callers.

*State.* In `WriteClient`, `avail` is the number of bytes in the copy buffer
(`buffer_size - client->avail` of the code), `base` the number of the byte
before them, `job` the loop that runs over the write callback, `got` the answer
of the last write.  In `WriteArchive`, `state` is `archive.state` (`"freed"` and
`"abandoned"` are the object that is gone, closed or not; `"crashed"` is a
null pointer read), `client` and `encoder` the states of the two filters, `hold`
and `encoded` the encoder's `hold_len` and the length of its buffer,
`remaining` and `padding` ustar's.  `call` is the call in progress with its
stage, the bytes the stage still has to put out, and the worst answer so far.
Bytes are counted and not carried: the format and the chain only ever append, so
the number of a byte identifies it, and the contents of every buffer are an
interval.

*Actions.* `Open`, `HeaderBegins`, `DataBegins`, `FinishBegins`, `CloseBegins`,
`FreeOnly`, `SetLastBlock`, `Fail`, `Refuse` begin or are a call.  `Put` is one
`__archive_write_output`, `PutEncoded` one pass of the encoder's loop, and
`FlushBuffer`, `WriteDirect`, `KeepRest`, `WriteLast` the loops of the client
filter, one call of the write callback each.  `HeaderFinishesEntry`,
`HeaderEnds`, `FinishEnds`, `DataEnds`, `CloseFinishesEntry`, `TrailerEnds`,
`EncoderCloses`, `EncoderClosed`, `ClientCloses`, `CloseEnds`, `FreeEnds` are
what happens between and after the writes.  `Encoded` abstracts the growth of a
line by the encoding to one byte, and the begin and end marks are one byte each.

*Environment.* The write callback takes all, less, or fails, at every call; the
opener and allocations (of the client's and the encoder's buffer and of the
header) fail; entries are accepted, accepted with WARN, or refused.

| run | question | bounds |
|---|---|---|
| `WriteArchive_calls` | does the client get every byte once, in order, in blocks, padded; does an entry keep its frame; do failures reach the caller; do openers and closers match; do calls return? | records of 2 bytes, block sizes 0, 3 and 5 around an encoder buffer of 4, two entries that fill their records, need padding or are refused, one call of data that is longer than one entry and shorter than another, one short write, failures at every callback, two opens |
| `WriteArchive_silent` | *violated*: `EveryErrorReported` | encoder, a failing callback |

The bounds are enough because everything depends on the position of the stream
in the block, the record, the line and the encoder's buffer: block sizes that do
not divide the record put the stream at every position, and one block is larger
than the encoder's buffer.  `MaxShorts` is 1: a short write only shifts what
follows, and where it happens and how short it is are free.  `ErrorsReported` is
restricted to chains without an encoder because of `WriteArchive_silent`;
`Blocked` and the padding part of `ClosedComplete` to clients that never write
short, because a short write in the loop over full blocks shifts the blocks that
follow.  The closer's answer is ignored by the code, so it has no values here.

A divergence without a run: a call in the wrong state before open makes the
archive fatal, and the close that follows, which `archive_write.c:628` allows,
writes the trailer of the format to a chain that does not exist (state
`"crashed"`).

**Fairness.** `CallsReturn` assumes `WF(Runs)`: a call goes on.  A callback that
takes less than it is given takes at least one byte (0 is an error), so its loops
end without any further assumption about the client.

**What is proved** (`WriteArchiveProofs`, for all values of the constants, from
the specification alone).  `Pairing` says who owes a call of the closer or the
freer in every state, also inside a call, where `OpenerMatched` says nothing; a
call in progress must be at a stage that agrees with the client filter
(`Agrees`), or the closer would be called for a filter that is not open.
`Remembered` says where the failure of a callback is until the call returns:
in the answer of the last write or in the result so far.  It needs that nothing
is written between a failure and the end of its stage, which is what an encoder
breaks (`WriteArchive_silent`).

- `CallbacksPaired`: `OpenerMatched`.
- `FailuresReported`: `ErrorsReported`.

The second part of the module follows the bytes through the chain, for every size
of block, record, line and encoder buffer.  The invariant `Delivering` adds to
`Pairing` the client filter (`Filter`) and what is above it (`Archive`):

- `Buffering`: what the client filter was fed is with the client, in the copy
  buffer, or what the loop that runs still has to do; `Room` bounds the buffer by
  the block; `WholeBlocks` says that the client stands at a block border except
  while the last block is given, and `LastGiven` how that one is padded.
- `Keeping`: what the format has put out is in the lines the encoder passed on or
  is `hold_len`; `Framing`: output, rest and padding make whole records at each
  stage of a call; `Closing`: a close that answers OK has run through all three.
  `Chain` and `Staged` say which filters are open at which stage.

The theorems are `BufferWithinBlock` (`TypeOK`), `NothingLost` (`Delivered`),
`RecordsFilled` (`EntryFramed`), `ClosedIsWritten` (`ClosedComplete`) and
`WritesAreBlocks` (`Blocked`, an action property).  They need `Buffer > 1`: the
encoder's buffer has room for its begin mark (in the code it has 65536 bytes).

Only model-checked: `CallsReturn`.

Left out, each a hazard or a note in
`PROJECT.json`: flushing at entry boundaries, which only zstd implements; an
opener or filter that answers WARN; a client filter that cannot be allocated;
options and passphrases.

## 6. ProgramFilters: external programs

**What it models.** `ChildProcess` is `filter_fork_posix.c`
(`__archive_create_child`, `__archive_check_child`) with the pipes and the
programs at their other ends.  `ProgramFilters` extends it with a chain of
filters that run such programs, in a reader (`archive_read_support_filter_program.c`:
`__archive_read_program`, `child_read`, `child_stop`, `program_filter_read`,
`program_filter_close`) and in a writer (`archive_write_add_filter_program.c`:
open, `child_write`, write, close).  The look-ahead of the filter below and the
write to the filter behind are the calls by which the filters meet.

*State.* A pipe is two counters at each end (`written`/`taken`,
`made`/`drained`), since bytes keep their order; `child_stdin` and
`child_stdout` are our ends; `kid` the program.  `at[p]` is where the function of
filter p stands: the ones below the running one are on the stack.  `total` is
`out_buf` or `child_buf`.

*Actions.* One per system call of the loops: a read or write that works in part,
the end, `EAGAIN` with the wait in `poll`, a broken pipe, `waitpid`.  A program
reads, writes, ends, exits well or badly or dies of a signal as it likes.

| run | question | bounds |
|---|---|---|
| `ProgramFilters_chain` | is every byte passed on once, does an end mean that all came, is every child reaped, does every call return? | two programs, pipes of one byte and buffers of two, two bytes of input, programs that write at most three bytes, all ways to fail |

Two programs are what it takes for one to hold the ends of another, and for one
filter to wait in the middle of another's pass; pipes of one byte are all full
together, and let a write of two bytes stop half way, which is when `child_write`
turns to reading.  `EndMeansAll` allows what the code intends: a program that
dies of `SIGPIPE` because it was not read to its end is a good end in a close.

**Fairness.** `WF(Library)`: the thread goes on when a system call can;
`WF(Works(p))`: a program that can read, write or exit does so.  It cannot be
forced to read its input: it may stop reading by exiting.

**What is proved** (`ProgramFiltersProofs`, for chains of any length, pipes and
buffers of any size and every fault): `BytesConserved` and `EndIsTrue`, from the
assumptions on the constants alone.  Neither property is inductive, because a
step moves bytes between two filters and decides an end from what another process
did before.  The invariant `IInv` adds

* who runs: in a reader every filter above the running one waits in `upstream`,
  in a writer every filter between the caller's and the running one is `passing`
  (`ReadStack`, `WriteStack`), so that one filter alone, with its neighbour, can
  change the counters;
* where the bytes are: `ReadFlow` and `WriteFlow` are the balance of one filter,
  and `ReadPlace` and `WritePlace` say when a buffer or a call has nothing left;
* why an end is an end: once the output of a program was seen to be over, with
  everything drained, the program can write no more (`Silent`; `Children` says
  that a mute program never writes), and once it was reaped its status is final
  (`Over`);
* that a failure leaves a trace: what a failed call hid is either in the answer
  or in `faulted` (`Traced`), and a close keeps the worst answer of the filters
  behind it (`Closed`).

After a failed write the buffer of a filter keeps its bytes, and a close then may
stop reading with output left (`NoMore` with a full buffer).  The balance
(`WriteFlow`) and the silence of a program that is stopped are therefore claimed
only while the call is `Fine`, as `EndMeansAll` does.  `CallsReturn` is
model-checked only (liveness).

## 7. WriteDisk: extraction

**What it models.** `archive_write_disk_posix.c`: `_archive_write_disk_header`
with `restore_entry`, `create_filesystem_object`, `create_parent_dir` and
`create_dir`, both data calls with `write_data_block`,
`_archive_write_disk_finish_entry` (size, mode, times, rename) and
`_archive_write_disk_close` with `sort_dir_list` and the fix-ups, over a file
system of names and objects that refuses what a real one refuses to a process
that is not root.

*State.* `disk` has the object at each path and the objects; each object carries
what the archive says it should be in the end (`want`, a history).  `a` is
`struct archive_write_disk` (the entry, `todo`, `deferred`, the open file, the
temporary name, offsets), `fixup_list` the list with the newest first.  Modes
are sets of two bits: the ones a process needs to work in a directory and the one
that `MAXIMUM_DIR_MODE` leaves out.

*Actions.* A call of the API is one step (`Header`, `Data`, `DataFails`,
`FinishEntry`, `Close`): the program has one thread and other programs do not
touch the tree.  A header includes the end of the entry before it.

| run | question | bounds |
|---|---|---|
| `WriteDisk_restore` | is every object in the end what its last entry says; does a file on disk stay whole until its successor is; does what is to be kept stay? | archives of three of eleven entries at three paths, three disks, seven sets of flags |
| `WriteDisk_implicit` | *violated*: `ImpliedByUmask` | the same with an empty umask |

Three paths, a directory, what is in it and one beside, give every way one entry
can be in the way of another: as its parent, its child, its link's target, or
itself; three entries let the third meet what two left behind.

`Restored` is about every object an entry made, but for two kinds of directories
that the histories leave out, whatever the archive:

* `Outlived`: for a directory, a file and a directory again at one path the fix-up
  of the first copy is applied to the last one too, although `bsdtar.1:83-85` says
  later copies replace earlier ones.
* `Barred`: with NO_OVERWRITE an entry for a file that meets a directory of an
  entry before it (`restore_entry`, 2138-2147: only a directory's `todo` is
  cleared) sets the mode of this directory.  When that takes away what is needed
  to work in it, the fix-ups of the directories below are refused in the close.

Both happen in the run, and without either condition TLC shows `Restored`
violated.  With them it held in 50 million states of random archives of five
entries out of every kind, mode, size and link there is at the three paths, under
every set of flags, too.

**Divergences** without a run, besides these two.  A write that fails is followed by the rename of the
incomplete temporary file (`SafeReplace` allows it).  The modes and times of a
file that was kept are set nevertheless (`KeptAsTold` is about contents).  A hard
link with data whose target cannot be opened for writing fails and leaves the
link.  A
hard link with data truncates its target with NO_OVERWRITE.  A header goes on
when the end of the entry before it failed, unless fatally.  A block behind the
size of the entry makes the unsigned count of `write_data_block` (line 997) wrap;
the offsets of the model stay below.

NO_OVERWRITE protects nothing from the flags that unlink before they look: UNLINK
(`restore_entry`, 2094-2118) and, for a hard link, SAFE_WRITES
(`create_filesystem_object`): `KeptAsTold` is about archives without these.

**What is proved** (`WriteDiskProofs`, for any finite set of paths, any archive of
files, directories and hard links, whatever is on disk before, every set of flags
and every order of calls, failed writes included): `OldFilesKept` (`KeptAsTold`)
and `SafelyReplaced` (`SafeReplace`, an action property).  Of the constants only
that there are more inodes than paths - the disk is never full, so `Free` finds
one - and that entries and disks are made of these paths and inodes.

Both say that something stays, and both come from one lemma about the longest
path through the code.  `RestoreKeeps`: let `S` be places at which something
stands on the disk and that the entry spares (`Spared`: they are not its parents,
nor its path, unless the flags keep the code from clearing them).  Then, whichever
way `restore_entry` goes - blocked, created at once, after its parents were made,
the object in the way kept, replaced or left for a temporary file -, what stands
at `S` is there afterwards with its kind, and with its contents but for one inode,
the open file; and nothing at `S` leads to that one, unless the entry is a hard
link with data (`Outcome`).  Below it lie lemmas on the operations of the file
system: each changes one name or one node (`PutIs`, `NodeAlike`, `DataAlike`,
`MakeIs`).

- `WriterKept` is the inductive invariant `WriteInv` of the struct: an open file
  has an inode, data and offsets are within the size of the entry (`Sized`), a
  temporary file holds all that was given.  It makes the rename at the end put in
  place what was promised (`PromisedIs`, `Replaced`): an `fd_offset` that is the
  size means that all of the data are there.
- `KeptInv`, for NO_OVERWRITE, takes `S` to be every place at which something
  stands.  It needs, besides what `KeptAsTold` says, that the open file is not an
  old one or has been given a new name (`Mine`), since data come calls later.
- For SAFE_WRITES `S` is one path.  No invariant is needed but `WriteInv`: a
  header that ends an entry whose new file gets this name is the step to the new
  one, and the second half of the header spares it.

Only model-checked: `Restored`.

## 8. TreeWalk and ReadDisk: reading from disk

**What it models.** `TreeWalk` is the walk of `archive_read_disk_posix.c`:
`tree_reopen`, `tree_push`, `tree_append`, `tree_next` with descent, the
directory stream, ascent and pop, `tree_target_is_same_as_parent`, `tree_close`
and `close_and_restore_time`.  `ReadDisk` extends it with the API: next_header
with `next_entry`, the three link modes, exclusions by path and by time, owner or
filter with the callback that may descend, delayed warnings, descend, data blocks
with `setup_sparse`, close.

*State.* `t` is `struct tree`: the stack, whose entries know their parent by its
place, the path with `dirname_length`, the working directory, the stream with the
names it still has, the caches of stat and lstat.  `fds` counts the descriptors
the walk has open and knows of, `leaked` those that are open and that nothing
knows of any more, `atime` has the access times, `entry` the data of the current
file.  `seen`, `again`, `skipped`, `changed`, `strayed` are histories.

*Actions.* `Walks` has one disjunct per round of the loop of `tree_next`,
`WalkFails` the rounds that fail; `Missing`, `PathExcluded`, `EntryExcluded` and
`Visit` are what `next_entry` makes of an object.  `Faults` names what may fail:
the duplicate of the working directory (`"dup"`), the stream made of it
(`"fdopendir"`), the reading of the stream (`"readdir"`), the way back
(`"ascent"`), a seek or read of a file's data (`"data"`, `DataFails`: the file is
closed and the reader is fatal).

When `tree_dup` works and `fdopendir` does not (lines 2367 to 2387), nothing
closes the duplicate: one descriptor per failure is lost for the life of the
program, though `archive_read_free.3:62` promises to release all resources.
`OpenStreamFails` adds it to `leaked`, and `NoTrace` says that nothing else ever
gets there.

Between any two rounds other programs may remove, make or resize objects
(`Others`), move a directory with all that is in it, or put a link in the place of
an empty one (`Displace`, for the directories in `Movable`).  The code goes back
by ".." without a test (`tree_ascend`, line 2203): when the directory it is in was
moved, or an entry that waits has become a link, it goes on somewhere else.
`strayed` remembers that this happened.  From then on three things are not asked
for any more: that the working directory is the one the path names, that nothing
is left out, and that access times are put back (the time of one directory is then
put on another: TLC shows it when the condition is dropped).  No path is
reported twice and no descriptor is lost even then.  For the first two the run
would pass without the condition, because a name is a number of its object and no
two directories have one name: a walk that is astray finds nothing under the names
it looks for, where the program may find something else of the same name.
"..", in the directory of the program, is that directory.  An object that was
looked at last is not replaced by a link before the client has decided to descend:
`lstat`, `stat` and the sparse map are taken in one step (`Visit`).

| run | question | bounds |
|---|---|---|
| `ReadDisk_walk` | does the walk work where its path says, does it report what is there once, end, close what it opened and restore times; are files read in full? | eight trees of up to seven objects, links up, to the own directory, beside, dangling and at the top, and two that cross; two objects change, one directory may be moved or become a link; access times are restored; every fault; blocks of two bytes of a file of three with a hole, with data, or all hole |

The trees have each relation a link can have to the directory it is found in, at
depth two, which is where the test of the directories above can differ from one
that looks at the whole path.  In `Knot` a directory is entered three times on one
way, each time by another name.  `MaxChanges` is 2 and an object
changes once.  In `Spare` there is a directory beside the one that may move.

What the walk does not promise and the properties leave out: `WalkComplete` says
nothing of what the client, a failed open, or a failed read left out
(`skipped`); a warning about an object that is gone is lost when the next object
is excluded or the walk ends (`PathExcluded`, `WalkEnds`); a close before the end
leaves the access times of open directories changed (`NoTrace` is about the end of
the walk).  A link that leads back is followed once more than it need be, because
`tree_target_is_same_as_parent` does not look at the directory that is read:
`PathIsTrue` says that no link is on the way a third time (`Followed`).  A
directory may be, by way of links above it.
After a header that failed the data calls still have the last entry; the model's
client does not ask then (`Reading`).

**Fairness.** `WF(Call)`: a call goes on, without counting on failures to end it;
`WF(NextHeader)`: the client asks for the next entry until it is told of an end,
an error for good, or closes.

**What is proved** (`ReadDiskProofs`, for trees of any size and shape, any number
of changes by others, every fault and every order of calls; of the constants only
that the file systems to start with are trees of directories with finitely many
names, that the path the walk is opened with is a name in the working directory,
that the regions of a sparse map come in order, that `BufSize` is not 0, and that
others move no directory and put no link in its place, `Movable = {}`, which is
stated with each theorem):
`WalkIsWhereItsPathIs` (`PathIsTrue`), `WalkLeavesNoTrace` (`NoTrace`),
`BlocksAreTheFile` (`DataComplete`) and `WalkMissesNothing` (`WalkComplete`).

None of them is inductive.  The invariant `IInv` describes the stack between two
rounds:

* `Shape` is the stack alone: the last entry that was entered is the one that is
  read, the parent of each is the last entered one below it, a link keeps its way
  back from the descent to the ascent, and each name that was entered stands in
  the path at the place its successor's `dirname_length` says.
* `Placed` relates it to the disk.  Others may have removed what an entry names,
  and put something else there; what holds is that a name leads where it led or
  that it is among `changed`, and that a directory with a name on the way cannot
  go, because it is not empty or is remembered as `Gone`.
* `NoCircle`: a link that was followed does not lead to a directory above the one
  it was found in.  Two entries of one link may be on the way, three cannot
  (`NoThirdTime`), since the second would have been refused.  That the test of
  `tree_target_is_same_as_parent` sees them all is `AboveAll`.
* `Timed`: an object has its time, or it is the open file, or it is below an entry
  of the stack that will put it back (`Owed`); the time of an entry is the
  object's own unless an entry below has it already (`Dated`).
* `Described` and `Sound`: the file that is opened is the one that was found under
  the path, it has the size it had unless it was changed, and reading stands in its
  region or before it.
* `Held`: the descriptors are the two directories, the stream, the file and one
  for each entry that keeps a way back.

After a fatal error the walk is not described any further (`Alive`), except for
its descriptors.  The directories above an entry and along a path are recursive
functions of the model; that there is such a function, and what it holds, is
shown by `SetInduction`, which comes from the order of the numbers being well
founded: the library's rule of induction takes an operator as a parameter and
cannot be used.

`WalkComplete` speaks of everything the walk did before, which the stack does not
show, and each half of it needs an invariant of its own beside `IInv`:

* `OnceInv`, for "no path is reported twice": nothing was reported below what is
  still to come, which is a directory that waits on the stack (`Fresh`), a name
  left in the stream (`Unread`) and the entry that is looked at (`Unseen`).  It
  holds only because no two of these have one name in one directory (`Strange`):
  a name is returned once by a stream, and what waits beside it came from the same
  stream.  A name that others add shows up in no path so far (`Born`).
* `CompleteInv`, for "nothing is left out": as long as the walk has not ended,
  every path whose objects stayed (`Steady`) and lie below no directory that was
  left out (`Free`) was reported or is `Awaited` - through the path the walk was
  opened with, the entry it looks at, a directory that waits on the stack, or a
  name that is left in the open stream.  Each round hands a path on from one of
  these to the next: `PushedComplete` from the entry to the stack,
  `OpenStreamComplete` from the stack to the stream, `NextHeaderComplete` to
  `skipped` when the client does not descend.  At the end there is no stack, no
  stream and no entry, and so nothing is awaited.

The invariant speaks of paths, the property of objects.  `PathOf` climbs from an
object to the working directory, at most one step for each name there can be,
which is where it matters that there are finitely many; `PathIsChain` shows that
each object of the path lies in the one before it, and `ExpectedIsSteady` that
the path of an object the property is about is one that the invariant is about.

Only model-checked: `EveryWalkEnds` (liveness), and everything about directories
that are moved or replaced by links.

## 9. LinkResolver: hard links

**What it models.** All of `archive_entry_link_resolver.c`: the table with its
chains (`find_entry`, `insert_entry`, `next_entry`, `grow_hash`), the cell that is
freed one call later, `archive_entry_linkify` with the four strategies, the drain
(`linkify` without an entry), `archive_entry_partial_links` and the free.

*State.* `res` has the heap (`next`, `previous`, `canonical`, `entry`, `hash`,
`links` of each cell), the buckets, `spare` and `number_entries`; `out` what came
back of each file, in its order; `taken` the clones that
`archive_entry_partial_links` gave to the client.

| run | question | bounds |
|---|---|---|
| `LinkResolver_table` | are the chains sound, is every entry given back once, does one party free each entry and clone, are links resolved to the right file with its data once and in the right place? | seven entries in every order; files complete, with links missing, with more links than they say, with an unknown number; one bucket that grows at five files, `unsigned int` of 3 bits |

All files share the one bucket, and four of five share one in the table of two;
files 2 and 3, and 1 and 5, have the same hash, so a search has to compare the
inodes.  Cells are removed at the head, inside and at the end of chains in either
table.  With the
strategy of new cpio no cell is ever without an entry, so
`archive_entry_partial_links` never reports anything.

**What is proved** (`LinkResolverProofs`, for any number of entries and files in
any order, any inodes and numbers of links, any hash, a table that starts with any
power of two of buckets and grows or finds no memory, under each strategy, with
drains and partial links at any time): `TableStaysSound` (`TableSound`),
`LinksAreResolved` (`LinksResolved`) and `EntriesFreedOnce` (`FreedOnce`).

- The table.  `Table(r, s)` says that `s` has the chain of every bucket: a
  sequence without repetition whose cells lead on and back (`Listed`), each hashed
  to its bucket.  `ChainIs` shows that the chain the model reads off the cells is
  that sequence.  `RemovedTable` and `PushedTable` are the two operations on it,
  at the head, inside and at the end of a chain; `GrowTable` moves all cells to a
  table of twice the size by induction on buckets and cells.  `Sound` adds who is
  in the table: cells of entries that were given, one for each inode, counted
  right, and besides them the spare one only.
- The files.  `FileOK` is the account of one file: the entries given are those
  that came back and those held back, never one of them twice; a hard link names an
  entry of the file, but for new cpio one that came before it; the links left in the cell are the
  number of links minus the entries given; a cell is gone only when all entries
  were given; the one entry with data of a file is the first (tar) or, held back
  until then, the last (cpio).  Each way through `archive_entry_linkify` changes the
  account of one file (`OneFile`), in one of seven ways: `FilePlain`, `FileRefers`,
  `FileTakes`, `FileRemembers`, `FileDrained`, `FileDropped`, `FileFreed`.
- `AccountKept` is the inductive invariant `LinksInv`: the table is sound and the
  account of every file is right.
- `FreedOnce` says what the free of a cell relies on: its clone was not given to the
  client, its entry did not come back, and no other cell has either.  For entries
  it follows from the account of the file (`HeldApart`); for clones `OwnedInv` adds
  that only names that were given have one and that a clone once given away is in no
  cell (`PartialLinksOwned`: the cell held back loses it in the same call).

A file whose entries say less links than there are, or that could not be
remembered, is not tracked (`LostOf`); of it only the weaker half of the account
holds, as `LinksResolved` says.

## Not modelled

Format readers and writers, compression filters, containers and strings: their
state is the syntax of the data, and TLC cannot enumerate it.  Of the disk writer
ACLs, file flags, extended attributes, owners, symbolic links and their checks,
deep directories and sparse blocks; of the disk reader mount points, nodump and
the metadata of entries.  Matching and the red-black tree are pure data
structures.  Upper filters run the same ahead/consume code as the bottom one,
without volumes and callbacks, and are not modelled again.  Integer overflow of
positions (64 bits) is left out: the model's numbers are unbounded.
