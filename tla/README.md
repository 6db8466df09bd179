# A TLA+ development of nlutils

nlutils is the C utility library of Nitrogen Logic: linked lists, hashes,
threads, processes, streams, time arithmetic, text formats, and a service that
runs HTTP requests in the background.  This directory holds TLA+ modules that
model the parts of it with behaviour worth checking, TLC configurations, and
proofs for TLAPS.  Paths below are relative to the repository, so `url_req.c`
is `src/url_req.c` there (`src/src/url_req.c` in `PROJECT.json`).

## Inventory

| Component | State it keeps | Operations | Interacts with | What makes it correct |
|---|---|---|---|---|
| URL requests (`url_req.c`) | context: recursive lock, control pipe, list of requests, `running`, `stopping`, `shutdown_when_done`, event loop, event thread; request: curl pid, EOF flags, buffers | init, add, shutdown, wait, deinit; control pipe handler, stream events | list, threads, exec, streams, hash, url, libevent (external) | no request is lost, released twice or used after its release; one callback each; shutdown and deinit end, and free nothing that is still used |
| Linked list (`fifo.c`) | first, last, count, element chain | put, prepend, get, remove, iterate, clear, concatenate | everything that keeps a list | the chain, `last` and `count` describe the same sequence after every operation, also while a caller iterates |
| Threads (`thread.c`) | recursive lock, list of threads, one join per thread | create/destroy context, create, join, signal, iterate, create mutex | list; URL requests | a thread is joined once and its handle freed once; no waiting cycle through the lock |
| Processes (`exec.c`) | three pipes and a pid per child | popen3 family, readall, wait | streams, URL requests | every pipe end has one owner; reading and writing both ends does not deadlock |
| Streams (`stream.c`) | none | copy, read all, write all, set flags, open with timeout | exec, URL requests | all bytes are moved or an error is returned; the timeout ends |
| Time (`nl_time.h`, `nl_time.c`) | none | timespec arithmetic, sleep | threads, streams | results are normalised and equal exact arithmetic |
| Hash (`hash.c`) | list of pairs, count | set, get, remove, iterate, clone | list | a finite map; `count` is its size |
| Key-value parser (`kvp.c`), escapes (`escape.c`), URL coding (`url.c`), strings (`str.c`), MACs (`net.c`) | parser position | parse, escape/unescape, encode/decode, split | variants | decode after encode is the identity; each line or pair is reported once |
| Variants (`variant.c`) | tagged value | compare, convert, clamp, copy | key-value parser | compare is an order; conversions keep the value |
| Terminal (`term.c`) | colour and attribute state | parse ANSI sequences, set intensity | none | the parser state is one the setters can produce |
| Memory, log, debug, SHA-1 (`mem.c`, `log.c`, `debug.c`, `sha1.c`) | none of interest | allocate, print, dump, digest | all | not modelled, see the end |
| Firmware loader (`programs/do_firmware.c`) | header, checksum and extraction processes | check, extract | exec, streams, SHA-1 | nothing is extracted before the checksum matched |
| Web CGI, build and packaging scripts (`embedded/`, `tools/`, `meta/`) | files | shell scripts | the system | not modelled |

The behaviours that are hard here are: client threads, the event thread and
callbacks that share one lock and one pipe; a loop that has to be woken to stop;
requests that fail half way; teardown from any state (all `url_req.c`); joins
under a lock (`thread.c`); lists changed while they are iterated (`fifo.c`);
pipes of a child that fill up in both directions (`exec.c`).  Each is in
`PROJECT.json` under "hazards", at its line.

## Plan

Done, in this order:

1. `UrlReq`, its service specification `UrlReqService`, and `UrlReqProofs`: the
   concurrent core.
2. `Fifo`: the pointer-level list, and `FifoProofs`.
3. `ThreadCtx`: creation, join and destruction of threads under the recursive
   lock, and `ThreadCtxProofs`.
4. `Timespec`: the arithmetic of times.
5. `Exec`: pipes and descriptors of the popen3 family, with the copy loops of
   `stream.c` on top of it; `OpenTimeout`; and their proofs.
6. `Firmware`, `Hash`, `Variant` and `Term`; the readers and writers of text
   (`Escape`, `Url`, `Strings`, `Kvp`, under `Text`).  Three runs check all of 1 to 6
   (see "The runs that pass").
7. The proofs about them: `StreamProofs` (for `Exec`, `Firmware` and `OpenTimeout`),
   `LibraryProofs` (for `Timespec`, `Hash`, `Variant` and `Term`), and with `Induction`
   the walks of `Fifo` (`QueriesAgree`), `CodecsReverse` (`TextProofs`) and
   `PairsAsWritten` (`KvpProofs`).

Every invariant that a passing run checks is now a theorem.  Left to TLC alone are
liveness and the properties the code breaks (see "What is only model-checked", at the
end).

Composition: `UrlReq` stands on the list and the threads by what they promise (a
set, a join); `Hash` on the list by the sequence that `Fifo` shows it to be;
`Firmware` and `Exec` on the copy loops of `stream.c`; `Text` extends all modules
about text.

## The runs that pass

Parts that share no state are checked in one run: a behaviour picks one part (`used`)
and stays with it, so that the state space is the sum of the parts' and not their
product.  What TLC needs decides which parts go together.

| Run | Module | Parts | Why together |
|---|---|---|---|
| `Safety` | `MCSafety` | lists; request contexts whose error paths run | only invariants and action properties, so elements, data, lists, requests and workers are symmetric |
| `Liveness` | `MCLiveness` | thread contexts; request contexts whose callers keep to the documented order | liveness, so no symmetry, and fairness of the part that is used; deadlock is checked (a destroyed thread context and a deinitialised request context may rest: `Destroyed`, `Terminated`) |
| `Library` | `MCLibrary` | everything that has one caller at a time: times, text, colours, hashes, variants, child processes, the firmware loader, the open with a timeout | only invariants; no symmetry |

In `Safety`, workers take the values that stand for lists, and requests those that stand
for data (`SharedValues`): only one part is used, and TLC has fewer permutations to
compare.  All three modules extend those of their parts, so what they check is what the
theorems are about.  The bounds are named with the parts below.  The runs that end in a
violation check one part alone, on its own module or on `MCUrlReq` and `MCText`.

## URL requests

| Code | Model |
|---|---|
| `ctx->lock`, recursive | `lock`, an owner and a depth |
| `ev_pipe_writefd` / `ev_pipe_readfd` | `pipe`, a sequence of requests and NULL (`NoRequest`), of `PipeCapacity` |
| `ctx->reqlist` | `reqlist`, a set: only membership and count are used |
| `running`, `stopping`, `shutdown_when_done` | variables of the same names |
| `evloop`, `event_base_loopexit()` | `evloop`, `loopexit` |
| a position in the code of a thread | `pc[t]` |
| the request a thread is adding, or the event thread is handling | `arg[t]`, `handled` |
| `req->pid` | `proc[r]` |
| enabled bufferevents, `out_eof`, `err_eof` | `bufs`, `eof[r]` |
| return value of add, number of callbacks and of `free_req()` | `outcome`, `calls`, `releases` (history) |

A critical section without a blocking call is one action; writes to the pipe,
lock acquisitions, polls and joins are actions of their own.  Callbacks may add
requests and ask for a shutdown.  libevent is external: a loop asked to exit
leaves at the top of an iteration, and a loop that is already asleep only
notices after its next event.  A pipe holds `PipeCapacity` pointers (8192 on
Linux) and a read always makes room; a real pipe makes room only a page at a
time, so it blocks more, not less.  A second release of a request is undefined
in C: the model lets it pass or ends the process (`"aborted"`).  Parameters are
taken to be well formed; a call refused for its parameters changes nothing.

`start_curl()` blocks on the FIFO of its options after it started curl, so it is two
steps, `StartProcess` and `StartCurl`.  It can fail before either: `StartCurlFails` kills
and reaps the process if there is one, releases the request, and leaves the pointer in
the handler's hand.

`nl_url_req_deinit()` does not join the event thread when `running` was already cleared
(`url_req.c:1442`), although `url_req.c:1428` says that it waits.  With a thread context
of its own (`OwnThreadCtx`) it joins it later, in `nl_destroy_thread_context()`; with the
caller's it does not, and the handle is left to the caller.  `LoopOutlivesThread` is what
this must not break: the event base is freed only when the thread is past its last use
of it.  `Liveness` checks it for a context of its own, `Safety`, inside `IInv`, for the
caller's, and `LoopSafety` proves it for both.

Switches name what may happen: `LateAdds` (clients add after a shutdown was
asked for, which the header advises against), `AddMayFail`, `WriteMayFail`,
`StartFailures`, `OwnThreadCtx`.

### Runs

| Run | What it shows |
|---|---|
| `Liveness` | two clients, two requests, two shutdowns, a thread context of its own, no failure, deadlock checked: no lost wakeup, the loop outlives its thread, the request in the event thread's hand is released by nobody else, everything accepted is called back before the loop ends, deinit frees all, the service of `url_req.h` is implemented, and every add, shutdown, deinit and request comes to an end |
| `Safety` | three clients in any order, a pipe of one pointer, the caller's thread context, every failure: the inductive invariant, no dangling pointers on the pipe or in libevent, no orphaned process, also when curl fails after it was started, at most one callback |
| `UrlReq_late` | violation: a request accepted after the event thread ended |
| `UrlReq_addfails` | violation: the lock leaked by a failed add |
| `UrlReq_startfails` | violation: `start_curl()` releases a request it cannot start, and the handler reads and releases it once more (`HandHeld`); nor is its callback called |
| `UrlReq_pipefull` | violation: client and event thread wait for each other around a full pipe |

Two requests are enough for one to be in the pipe, the handler or a callback
while another finishes, and for a callback to add the second while the first is
still listed; two shutdowns put a NULL before and after a request.  The pipe of
`Liveness` holds five pointers and never fills; that of `Safety` is full with one.

Fairness is weak, for each thread's steps inside the library: the scheduler runs
a thread that can run, libevent reports stream events and read timeouts (every
request has one), and callbacks return.  Nobody is obliged to make a call.

### Proofs

`UrlReqProofs` proves, for any workers, requests, capacity and switches, that
`IInv` is inductive, and from it `TypeOK`, `LoopOutlivesThread` and
`NoLostWakeup`.  `IInv` adds to them who holds the lock (`LockInv`: without it an
unlock could take the depth below zero) and that a context that no longer runs,
or whose deinit is past the join, has no event thread (`LoopInv`: without it a
freed loop could still be polled).  The proof has one lemma per family of
actions and joins them in `StepInvariant`.

On top of `IInv` stands `PointerInv`, which says in whose hand a request is: a
thread that adds it, the list, the pipe (once), the handler, libevent or a callback,
each with what is already known of its answer, its callback and its release.  It is
inductive under every failure, also after the second release that
`UrlReq_startfails` leads to, and gives `NoDanglingPointer`, `NoOrphanProcess` and
`CallbackOnce`.  About the handler's hand it says what is true under every failure: what
`start_curl()` left there is released and off the list.  Where `start_curl()` does not
fail nothing is, and `HandSafety` proves `HandHeld`: the request the event thread holds,
in the handler, in a callback and up to its release, is still listed, so nobody has
released it.

For clients that add nothing after a shutdown was asked for (`~LateAdds`) and curl
processes that start (`StartFailures = {}`), `DrainSafety` proves `DrainedAtExit`:
`DrainInv` adds that the loop is stopped only when nothing is listed and nobody can
list anything any more (`ServedInv`), because whatever asks the loop to stop goes back to a
call of `nl_url_req_shutdown()` (`Asked`).  `DeinitSafety` proves
`DeinitLeavesNothing` when no call fails: `LeaveInv` adds that the lock is held in the
critical sections and nowhere else, and that whoever is not listed was released once.
With both, `Refinement` proves `ImplementsService`: each action is one of
`UrlReqService`, named in `CallsServe`, `TeardownServes` and `EventServes`, or unseen.
Without the assumptions the violation runs show what is lost.

Only model-checked: `EveryRequestSettles`, `ShutdownEndsThread`, `AddReturns` and
`DeinitReturns`, which are liveness.

## Induction

The library's induction theorems take a predicate as a parameter, which the provers
cannot instantiate.  `Induction` states the principle about a set instead:
`SuccessorInduction` says that a set that has zero and the successor of each of its
natural numbers has all of them, and follows from the order being well founded.  A
claim about every `n` becomes the set of the `n` it holds for.  A recursive function is
a `CHOOSE` of a function that satisfies its equation; where it matters a proof first
shows by induction that there is one (`LoopExists` does so once for the loops over a
text: pairs, lines and MAC addresses).  `FifoProofs`, `TextProofs` and `KvpProofs` stand
on it.

## Linked list

| Code | Model |
|---|---|
| `struct nl_fifo`: `first`, `last`, `count` | variables of the same names, by list |
| `struct nl_fifo_element`: `next`, `data`, `l` | `next`, `data`, `owner`, by element; `allocated` says which are not freed |
| the call in progress, its parameters and saved pointers | `call` |
| locals `cur`/`prev`/`el` and `i` of a loop | `cur`, `prev`, `pos` |
| an iterator of the caller (`const struct nl_fifo_element *iter`) | `iter`, `iterList`, `iterState` |
| what the comments of `fifo.h` promise a list to contain | `nodes` (history) |

A call without a loop is one action.  A call with one is an action for its start,
one for each turn and one for its end, because `nl_fifo_remove_start()`,
`nl_fifo_remove_end()` and `nl_fifo_destroy()` run a callback on each turn: the
invariants hold whenever it does.  The list is not thread-safe and has no lock;
the only second actor is a caller with an open iterator, who may call anything
between two `nl_fifo_next()` except free the element the iterator is at.

| Run | What it shows |
|---|---|
| `Safety` | two lists and four elements, every sequence of calls: types, `ListInv` (the pointers spell the promised content, nothing allocated is unreachable, nothing reachable is freed), the answers of the queries, and an iterator that neither misses nor repeats what was there throughout |

`fifo.c:311` says of an element put at the end of the list that it is not iterated if the
last-returned element was the last one.  It is: that element's `next` then leads to it.
No property here denies it, and `IterComplete` does not ask for it.

Four elements in two lists give lists with a first, middle and last element that
differ while the other list is not empty; counts up to `MaxArgument` = 5 are below,
at and above every length.  Elements, data and lists are interchangeable, so all
three are symmetry sets.

`FifoProofs` proves for any lists, elements and `MaxArgument` that `FifoTypeOK /\ ListInv`
is inductive.  Nothing had to be added: `ListInv` already speaks about the middle of
the loops (how far `cur` and `prev` are, what a half-done concatenation has
relabelled).  The argument is about how sequences change: `UnlinkKeeps` (a node
removed), `JoinKeeps` (two sequences joined), `TrimKeeps` (an end cut off) and the
one-action calls directly.

`IterFresh` and `IterComplete` need more than where the pointers are.  `IterInv` says
what an open iterator has behind it: no returned element lies beyond it, every element
of the start that it has passed was returned, elements of the start are only in the
iterated list, and an iterator whose element was moved away has none of them left.
Every call only moves nodes and keeps their order, so `MoveKeeps` has the argument
once, for any such movement (node `i` of list `l` was node `at[l][i]` of list
`from[l][i]`), and each call is an instance.

`QueryCorrectness` proves `QueriesAgree` for lists of any length: by induction, the walk
of `nl_fifo_peek_index()` stands on node `i` of the content after `i` steps
(`WalkedTo`), from either end.

Not modelled: NULL parameters (refused, no effect), failed allocations (no effect),
a list concatenated with itself, callbacks that change the list they are called
from, counts above 2^32.

## Threads

| Code | Model |
|---|---|
| `ctx->lock`, recursive | `mutex`, an owner and a depth |
| `ctx->threads`, `nl_thread.next` | `head`, `next` |
| an allocated or freed `struct nl_thread` | `info[t]` |
| the pthread behind it | `run[t]` |
| a position in the code of a thread | `at[a]`, with the entry it is about in `subject[a]` |
| the `nl_thread` pointers callers keep | `handles[a]` |

A step ends where the code blocks or another thread can see a difference.  Threads
outside the context (`Outsiders`) make every call; those in it (`Members`) walk the list
with a timeout, as `nl_signal_threads()` does, and with `NestedCalls` also create, join and
walk without one.  Callers keep to the contract of a `free()`: a thread is joined by
the caller that created it, once, and nobody outside the context uses it during or
after `nl_destroy_thread_context()`.  A walk whose lock attempt timed out goes on
without the lock, and reads from a freed entry what was there or nothing; its unlock
is an error that changes nothing, because the mutex is recursive
(`nl_create_mutex(&ctx->lock, -1)`).

| Run | What it shows |
|---|---|
| `Liveness` | two clients, two threads, two walks: mutual exclusion, the list is exact, each thread joined and freed once, a walk with the lock meets no freed entry, destruction leaves no thread behind, every call returns |
| `Threads_nested` | violation: a thread of the context that needs the lock before it can end is waited for by `nl_destroy_thread_context()`, which holds it |

Two clients race to create, join and walk; two threads make a list whose head and
tail differ, so both branches of the unlinking run; two walks let one be stale while
another holds the lock.  Fairness is weak for each thread inside the library and for
the end of thread functions; calls are few, so no fairness of the mutex is needed.

`ThreadCtxProofs` proves `SectionsExclusive` for any clients and threads, with or
without `NestedCalls`.  `LockInv` adds two facts to make it inductive: only the
caller of the destruction is inside it, and the recursive mutex is never held twice
between two steps.  The lemmas `Entered`, `Left` and `Aside` say what a step must do
with the mutex to keep it; each action is an instance of one.

For threads that manage none themselves (`~NestedCalls`) it also proves `ListExact`,
`JoinedOnce`, `LockedWalkLive` and `DestroyLeavesNothing`.  What is listed is the
least set closed under `next`, so no induction over a path is needed: `ThreadsInv`
says that no two entries have one successor, and the lemmas on adding at the head
and unlinking one entry say what either makes of the closed sets.  An `nl_thread` is
in one hand at a time: being enlisted, listed (perhaps with a caller about to join
it), or waited for.  Only model-checked: `CallsReturn` and `DestroyReturns`, which
are liveness.

Not modelled: names, priorities, mutex attributes, NULL parameters, a signal handler
that interrupts a call of the same thread, and a freed entry whose address is handed
out again.

## Time

`Timespec` has one operator for each function of `nl_time.h`, with its name, over
exact integers, and a caller that keeps one timespec (`ts`) and applies the
functions to it with operands of any form.  `exact` records the time `ts` should
stand for, in nanoseconds.  `Value` and `PosValue` say what a timespec stands for in
the two forms of the header comment; the loops that carry whole seconds are a
division.  `sleep` is a call of `nl_usleep()`: `nanosleep()`, which is external,
refuses a request of a whole second of nanoseconds, and when it is interrupted
writes what is left into the request.

`Library` has a second of six nanoseconds (three microseconds of two), seconds
from -2 to 2 and nanoseconds from -13 to 12: operands on both sides of zero, not
normalised by up to two seconds, at and next to each boundary.  It shows that no call
loses a nanosecond (`ExactSum`), that results are normalised (`NormalForm`), that
comparing is comparing times (`ComparesRight`), and that sleeps are not short
(`SleepsEnough`).

`LibraryProofs` proves all four for any units, operands and delays, and before them
what each function returns for any timespec (`AddExact`, `SubExact`, `NegateExact`,
`NormalizeExact`, `CompareExact`), following the code: into the positive form, through
the carry, out of it.  `TimeInv` adds to the four what is true inside a sleep: the
request is one `nanosleep()` accepts, and what was slept and what is left make up what
was asked for.  Assumed: the units are positive, operands are pairs of integers,
delays are natural numbers.

Not modelled: integer overflow, which the header excludes; doubles; a clock that
fails.

## Processes

| Code | Model |
|---|---|
| the line the parent is at | `step` |
| function, wanted pipes, size of the input | `call` |
| open pipe ends of parent and child, and which are close-on-exec | `ends`, `kept`, `cloexec` |
| the descriptors in `writefd`, `readfd`, `errfd`, or `outfd`, `infd` | `fds` |
| bytes in the pipes, written and read | `pipe`, `io` |
| the child and what it is doing | `child`: a filter that writes what it reads, or a sink that answers at the end of its input; it may die at any time |
| a descriptor closed twice, a wait that failed | `faults` (history) |

Parent and child run side by side; every `pipe()`, `fork()`, write, read, close and
wait can fail.  The copy loops of `stream.c` move any part of what fits.  `SIGPIPE` is
taken to be ignored by the parent.

`DescriptorsSettled`: whatever fails, no descriptor is closed twice, none is left
open, and the child is waited for unless waiting itself failed (then it stays a
zombie).
`ReturnedCloseOnExec`: the descriptors that are returned close on exec, as `exec.h:23`
says.  They do not: with a stderr pipe `exec.c:136` sets the flag on the stdout end once
more, and the stderr end is inherited by later children.  The run `Exec_cloexec`
(violation) shows it.
`ReadsAll`: a successful `nl_popenve_readall()` returns all that the child wrote; and
the two wait for each other's pipe only when the input exceeds both pipes and the
unit in the child's hands, because all input is written before any output is read
(`exec.c:211`).  `Library` has pipes of two units and inputs of 0, 1 and 4 to 6:
below, at and above `2 * Capacity + 1` = 5.

`StreamProofs` proves `DescriptorsSettled` and `ReadsAll` for any capacity, inputs and
answers.  `ExecInv` says which
ends are open and held in a variable at each place of the parent, and that no unit is
lost between parent and child.

Not modelled: the shell wrappers (`nl_popen3()`, `nl_popen_readall()`), which only
build arguments; environments.

## Streams

The loops of `nl_write_stream()`, `nl_read_stream()` and `nl_set_cloexec()` are in
`Exec`, `nl_stream_to_fd()` in `Firmware`.  `OpenTimeout` is `nl_open_timeout()`:
`opening` holds its locals and a `clock` moves between any two steps, also between
the check of the deadline and the return.  `OpenHonest`: an error is returned only when the
deadline has passed, `ETIMEDOUT` only if the file was busy at the end, at most one
try begins late, and a file is left open exactly when its descriptor is returned,
blocking unless the caller asked otherwise.  `Library` has timeouts of 0, 2 and 3
ticks and a clock up to 6, later than every deadline.  `StreamProofs` proves it
for any timeouts; `OpenInv` says for each place of the loop whether the file is open
and on which side of the deadline the last try began.

Not modelled: `nl_read_file()`, which is an open, `nl_read_stream()` and a close.

## Firmware loader

`Firmware` is `main()` with `checksum()` and `extract()`: the header lines, the copy
of the payload into a checksum child, the way back, the comparison, and the copy into
an extraction child.  `at` is the place, `fed` what each child got, `failed` the
steps that failed (history).  `ExtractsVerified`: the extraction child gets nothing
but the beginning of a payload whose checksum was found right, all of it when every step
succeeded; and a child is left unreaped only by a failed copy or wait.
`SuccessExtracts`: the loader reports success only when all of the payload was given to
the extraction.  It does not hold: `do_firmware.c:24` says that `checksum()` rewinds the
stream or returns -1, but a failed rewind is only printed (`do_firmware.c:85`), and an
extraction that is given nothing ends well, because the status of its pipeline is that
of `bash`.  The run `Firmware_rewind` (violation) shows it.

Two chunks are enough for a copy to end before, between and after them.  `StreamProofs`
proves `ExtractsVerified` for any length of the payload: `FirmwareInv` says what each
child was fed at each place, and which steps may have failed by then.

Assumed: the image does not change while it is read, and different payloads have
different digests.

## Hash

`Hash` keeps for each hash the sequence of entries and `count`, over the list that
`Fifo` models, and `content`, the map its caller expects.  Allocations may fail.  A
clone copies entry by entry and ends at the first failure.  `HashIsMap`: after any
calls no key has two entries, every key has its last value, `count` is the
number of entries, and a clone is complete or does not exist.  `Library` has two
hashes, three keys and two values in up to three entries: an entry can be first,
between and last when it is replaced or removed.  `LibraryProofs` proves it for any
hashes, keys and values: `HashInv` adds that the entries of a clone in progress are
the first of its source, so that equal counts mean equal tables.

`nl_hash_parse()` is the key-value parser with `nl_hash_set()` as its callback.

## Variants

`Variant` is a caller with three slots that makes, copies, reads from text, clamps,
compares and destroys variants, over a heap of six blocks whose allocations may fail:
two data values need two blocks each, and a copy in progress two more.  Integers end at
`INT_MAX` = 3, so that conversions wrap; in `Library` sizes are 0, 1 and 3, whose
differences fit an integer.  `EveryBlockOwned`:
every block has one owner, also when a copy fails half way.  `CompareIsOrder`:
comparing is a total preorder on integers, strings and raw data, NULL and empty
included.  It holds only while the difference of two sizes fits an `int`:
`nl_compare_varvalues()` returns that difference (`variant.c:561`), where `variant.h:158`
names no limit.  The run `Variant_sizes` (violation), with sizes 0, 1 and 5, has two data
values that each compare below the other.

`LibraryProofs` proves both for any slots, blocks, numbers, strings and sizes.
`VariantInv` adds where pointers lead (a string's to a string, raw data's to a structure
whose size is that of its contents, or zero without contents) and that a copy in
progress holds a structure nobody else does; `CompareCorrectness` then places each
variant in one order (`Ranking`) and shows that `nl_compare_variants()` follows it.  It
assumes `SizesFit`: no two sizes differ by more than `INT_MAX`, which holds below 2 GiB.
`CompareNeedsSizesFit` proves that this is needed: of two sizes `INT_MAX + 1` apart each
compares below the other.

Not modelled: formatting; floating point, in values and in comparisons (a NaN has no
place in the order, as everywhere).

## Terminal

`Term` is `nl_term_parse_ansi_color()` over sequences of tokens (a number, or a
character), one token a step, with a caller that parses one sequence after another
into the same state.  `ColorFollowsIntensity`: a default or standard foreground is
always that of the intensity in force, a background never follows it, and a colour's
type says where its other fields come from, also in the state of a parse in progress.
`Codes` has at least one member of each range the code distinguishes, and sequences are up
to seven tokens, enough for two codes and one colour of five.  The guard on `loops` is left out: the
code never increments it.  `LibraryProofs` proves it for any codes, indexes, components
and lengths: `TermInv` lists the colours either layer can have under an intensity, and
what the colour under construction has at each place of the parser.

## Text

`Escape`, `Url`, `Strings` (with `nl_parse_mac()`) and `Kvp` are functions on
sequences of characters, written as recursive functions that follow the loops of the
code.  `Text` is a writer who types a text for one reader at a time; its invariants
are checked for every text over the reader's alphabet:

| Reader | Alphabet, in `MCText` | Length |
|---|---|---|
| escapes | a control character with an escape of its own, quote, backslash, a plain character, what an escape is made of, bytes that cannot be printed, zero among them | 4 |
| URL | one character of each class, and the digits of their codes | 4 |
| hexadecimal | digits of both cases, and a character that is none | 5 |
| lines | a character, CR, LF | 6 |
| MAC (of three octets) | a digit, both separators | 9 |
| search | two characters | 5 |
| pairs | a letter, `=`, space, quote, backslash | 4, cut in two anywhere |
| lines of pairs | the same | 7 |
| numbers | digits, period, exponent, sign, `x` | 5 |

Every branch of these functions looks at no more than three characters at a time, and
the lengths leave room for one construct before and one behind.  `CodecsReverse`: what
is written is read back, and the counts used to size buffers are exact.
`PairsAsWritten`: pairs are read as written, the next one is not swallowed, and a
value is typed as a number only if it is one to its end (a sign with a lone period
counts as a float: `NumberType`).  On a line of any form (`PairsInOrder`) the places of
a key and of its value are in order, and a pair may begin exactly where the one before
it ends: `a=""a=a` has nothing between its pairs, and is the shortest line to show it,
hence the length of 7.  The run `Kvp_backslash` (violation): a quoted value
that ends in an escaped backslash swallows its closing quote, although `kvp.c:344`
reads "until non-escaped quote".

`TextProofs` proves `CodecsReverse` for every reader and texts of any length
(`CodecCorrectness`): for the URL coding and hexadecimal text over the characters of
their tables, for the others over any characters (a MAC address without NUL, which
ends a C string).  For the codes the argument is the same: a writer puts the codes of
the characters one behind the other (`Flattened` gives each its place); a reader goes
from place to place (`OnwardExists`, `UnescapeWalks`), and reads at each the character
whose code stands there (`CodeDecoded`, `EscapedRead`, `DataRead`); an induction from the
end of the text joins them (`UrlDecoded`, `CodesUndone`).  In particular:

- `UrlCorrectness`: with every flag under which plus means the same on both sides: plus
  is left alone, and spaces are encoded as `%20`, or plus is read as a space, and plus
  signs of the text are encoded.  `PlainCorrectness`: what has neither code nor plus
  is left alone.
- `HexCorrectness`: what `nl_from_hex()` read is, when it is written, the beginning of
  the text's digits, and is read again; text cleaned by `nl_keep_only_hex()` comes
  back whole, but for a last digit without a second.
- `StringEscapeCorrectness`: with quotes around the text or none, the text comes back,
  and the counts are those of the bytes added and removed.
- `DataEscapeCorrectness`: `nl_escape_data()` works in place, from the back of a buffer
  that it has counted out.  The invariant of its loop says that the rest of the
  buffer holds the escapes of the data behind the place it has come to, and that the
  space between is what the escapes of the data before it will need; so nothing is
  overwritten before it is read, and the loop stops at the first byte.
- `RemovedCorrectness`: the count of removed bytes is exact for every text, escapes
  that are cut short among them, and not only for those that were written by the library.
- `LineCorrectness`: `LinesOf` defines the lines of a text by its line ends, found with
  `CHOOSE` by their rank.  The proof of the loop says after each character which line ends
  it has passed (`Upto`), that it has given the lines before them, and where the line in
  progress starts; a callback that stops does so at the same line.
- `MacCorrectness`: after each character either digits alone were read, or a separator
  was fixed by the third character, or no address begins like that (`MacOk`); in the
  first two cases the parser's state, digits and separator follow from the number of
  characters.  `MacIs` says which character an address has at each place.
- `SearchCorrectness`: a text starts with another if that is all they have in common
  (`StartIsCommon`), and counts add up over the two parts of a text (`CountsAdd`).

`KvpProofs` proves `PairsAsWritten` for any characters and any length, without
assumptions (`PairsCorrectness`):

- `PlacesCorrectness`: the invariant of the parser's loop (`KvpPlaced`) says that the
  pairs sent are in order and behind them is the key in progress, if there is one; that
  `key_length` is the length of that key from the end of the key on (before, it is
  what an earlier key left there, and is not used); and that the value begins behind
  the key.
- `PairCorrectness`: the parser is walked along a line that was written, through key,
  equals sign, value and the pair behind, plain or quoted; a quoted part ends
  at its own quote because nothing in it ends in a backslash, and `Dequoted` gives the
  text back by `StringEscapeCorrectness`.
- `TypeCorrectness`: the type that the loop over an unquoted value ends with is stated
  in closed form for the rest of the text from any place on (`TypeFrom`), by induction from
  the end of the text to its beginning; from the first place on it is what the text
  reads as to its end.

Not modelled: the numeric values of numbers, reallocation failures (no effect).

## Not modelled

- `mem.c`: one `realloc()` that clears the new part.
- `log.c`, `debug.c`: formatting and output, without state.
- `sha1.c`: a published algorithm, tested against published vectors.
- `embedded/`, `tools/`, `meta/`: shell scripts of the device and of packaging.

## What is only model-checked

- Liveness: `EveryRequestSettles`, `ShutdownEndsThread`, `AddReturns` and
  `DeinitReturns` of `UrlReq`, and `CallsReturn` of `ThreadCtx`.  They rest on fairness
  and on actions being enabled, which the provers do not handle.
- The properties of the violation runs: they are false in the settings of those runs, and
  TLC shows the behaviour that breaks each of them.  Of two of them there is a theorem
  about the settings in which they hold: `HandHeld` when `start_curl()` does not fail,
  and `CompareIsOrder` when sizes differ by at most `INT_MAX`.
