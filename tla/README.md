# XLinSpeak in TLA+

XLinSpeak is a Linux plugin for X-Plane. It patches the simulator's own speech
functions so that what X-Plane would say is passed to a worker thread, which
speaks it with Piper (a child process per text) or with speech-dispatcher. This
directory has TLA+ models of the plugin's code, the TLC configurations that check
them on small instances, and proofs of their main properties for every value of the
constants. Paths below are relative to the repository.

## The system

| Part | Code | State | Operations |
|---|---|---|---|
| Text queue | `src/utils.c` 39-47, 277-357 | ring of 64 text copies, head, tail, count, stop, mutex, condition | `queue_init`, `queue_push`, `queue_pop`, `queue_stop`, `queue_destroy` |
| Speech service | `src/utils.c` 60-83, 684-860 | `tts_ready`, `worker_started`, `backend`, argv of Piper and sink, speech-dispatcher connection, Pulse stream | `speech_init`, `speech_say`, `speech_close`, the thread `tts_worker` |
| Speaking with Piper | `src/utils.c` 359-682 | two pipes, two children, close-on-exec flags | `speak_piper`, `spawn_process`, `write_all`, the Pulse loop |
| WAV and Pulse | `src/utils.c` 377-537 | the header read, the stream kept from text to text | `wav_read_header`, `pulse_open` |
| Command lines | `src/utils.c` 133-275 | two argv | `build_piper_cmd`, `build_sink_cmd` |
| Debug messages | `src/utils.c` 85-131 | one growing buffer | `xcDebug` |
| Instruction lengths | `src/len64.c` | none | `read_instruction64` |
| Hook installation | `src/hook.c`, `src/xpl.c` 57-67 | the patched code, the trampoline, `kuk`, page protections | `hook`, `get_hook_space`, `hook_proc`, `change_range_prot` |
| Hook stub | `src/hook_asm64.asm` | registers and stack of the calling thread | `hook1`, `trampoline1` |
| Symbol search | `src/sec.c` | symbol table, strings, `ptrs[].address` | `locate_tables`, `find_functions` |
| kuk functions | `src/hook.c` 109-147 | none | `kuk0`, `kuk1`, `kuk2` |
| Plugin | `src/xpl.c` | none of its own | `XPluginStart`, `XPluginStop` |
| Manifest tool | `tools/create_mtk_manifest.py` | paths seen, files listed | `create_manifest`, `main` |

How they meet. `XPluginStart` reads the symbol table of the executable it runs in,
looks its four names up in it, starts the speech service and hooks every function
found. From then on a call of a hooked function runs the stub on the host's thread;
the stub calls `*kuk`, which calls `speech_say`; that pushes a copy of the text and
returns. The worker thread pops it and blocks in `speak_piper` until Piper and the
sink are done. `XPluginStop` calls `speech_close`, which waits for the worker.

Three things are concurrent: the host's threads, the worker, and the processes. The
queue's mutex is the only lock; `tts_ready` and the debug buffer are shared without
one. What is hard here: wakeups and the stop flag; a text on its way into a queue
that is being closed; which end of which pipe is open in which process, and so who
sees the end of what; what is undone when a call in the middle fails; a patch that
has to end on an instruction boundary; the registers and the stack around a call
that the host's compiler did not know of.

## What makes each part correct

* Queue: the pointers in the ring are exactly the `count` slots from `head`, for NULL
  from `queue_pop` is the order to exit. Only the oldest text is ever displaced.
* Service: no lost wakeup; each copy has one owner; nothing is torn down while the
  worker runs; a close returns, and after it nothing is left; texts are spoken in order.
* Piper: no descriptor or child is left whichever call fails; the call returns; a text
  is heard once, and in full if nothing failed.
* Lengths: those of AMD64, or a refusal.
* Hooks: a hooked function does what it did; only writable pages are written.
* Stub: the hooked function does not notice `kuk`.
* Symbols: looked up with their own strings, each function found once.
* WAV and Pulse: the audio starts where the header ends, with the format before it; a
  kept stream plays what it was opened for.
* Command lines: argv ends with NULL and is what README.md says; no block is lost.
* Debug messages: whole or reported; the size told to `vsnprintf` is the block's.
* kuk functions: what is queued is the text, in whichever string it comes.
* Plugin: a hooked call comes back, at once, in every phase, until an unload and unless it meets
  the writing of the patch; nothing of the service runs when `XPluginStop` has returned.
* Manifest: it lists what unpacking the archive gives.

`PROJECT.json` lists under "hazards" the lines where this can go wrong, each with the
properties that would catch it.

## Modules

    TtsQueue          the queue record and its operations (no variables)
      Speech          the threads around it; SpeechFifo is its abstract specification
        Service       Speech with SpeakPiper in the place of BackendSay; implements Speech
        Plugin        start, hooked calls, stop, unload, over Speech
      TtsQueueProofs  lemmas about the operations
        SpeechProofs  the theorems about Speech
          ServiceProofs, PluginProofs
    SpeakPiper        one worker, two pipes, two children
      SpeakPiperProofs
    SpawnFds          the same by descriptor numbers
    PulseStream       the stream kept from text to text
    DebugLog          the message buffer
    WavHeader         the chunk walk
    Commands          the two argv
    Manifest          the release tool
      HelperProofs    the theorems about these six
    Len64             the decoder, and the lengths AMD64 defines
      Decoder         a call of it for each of some instructions
      Hook            the patching that uses it
    ElfTables         the symbol search
    Stub              a call of a hooked function
    KukText           the text of that call
      HookingProofs   the theorems about these six
    NatLemmas         induction over the numbers, for the recursive functions
    MCSpeech, MCSpeakPiper, MCHooking, MCHelpers: what TLC needs in addition

`MCHooking` puts `ElfTables`, `Decoder`, `Hook`, `Stub` and `KukText` into one specification, and
`MCHelpers` does so with `PulseStream`, `DebugLog`, `WavHeader`, `SpawnFds`, `Commands` and `Manifest`.
These parts share no state, so that interleaving them would add nothing: the initial value of
`part` chooses one, only its steps are taken, and the variables of the others rest in one
initial state. A run of such a module is the runs of its parts, and what it says of one part
it says of that part alone. The parts are extended, so that TLC
evaluates their assumptions. Where parts do meet they are
composed in a module of their own: `Service` and `Plugin`, and `Stub`, which runs the bytes
that `Hook` puts down.

### TtsQueue, Speech, SpeechFifo

`TtsQueue` has the queue as a record; every operator is the body of one critical
section on `q->mtx`. `usable` is the life of the mutex, between `queue_init` and
`queue_destroy`. `Speech` has the threads. A critical section is one step, for the
mutex makes it one; what happens outside is a step of its own:

| Action | Code |
|---|---|
| `SpeechInit`, `SpeechInitFails` | `speech_init` up to `pthread_create`; every path that returns false |
| `SpeechReady` | `worker_started = tts_ready = true`: the worker runs already |
| `SpeechSay(t)` | the unlocked test of `tts_ready`, and the copy `queue_push` makes before it locks |
| `QueuePush(t)` | the critical section of `queue_push`, with the signal |
| `QueuePop`, `SpuriousWakeup` | one pass of the loop in `queue_pop` and what follows it; a return from `pthread_cond_wait` without a signal |
| `BackendSay` | `backend_say` and `free`; what it may leave of the Pulse stream and of the fallback's connection |
| `SpeechClose`, `QueueStop`, `JoinWorker`, `Release` | `speech_close`: the flag, the stop, the join, the rest |

A text is a heap block: `heap` has those that are allocated, so a double free, a use
after free and a leak are states (`OneOwner`, `NoLeak`). `malloc` and the creation of
the argv may fail through `SpeechInitFails`; a `malloc` in `queue_push` that fails
drops the text before anything is shared and is left out.

A thread of the host that passed the test of `tts_ready` may reach the queue at any
later time, also after `queue_destroy` has zeroed it (a zeroed mutex and condition are
usable ones in glibc). `Speech` allows that until the next start, which waits
for such a thread: the host unloads the plugin in between. The late copy then stays in
the dead queue, which is why `NoLeak` is a property of a run with one host thread;
with more, `LateCopiesBounded` says that it is one text of each such thread at most (run
`plugin`, as part of `CopiesOwned`).

`SpeechFifo` is the promise: texts are spoken one at a time in the order accepted, a
new text displaces the oldest when `Cap` wait, the service closes only when it is
drained. `Speech` maps the ring to a sequence, the worker's text to `speaking`, and the
life of the queue to the phases.

### SpeakPiper

A pipe is a count of units and, for each process, the ends it has open. `EndOfOut` is
what a reader sees: empty, and no process has the write end. `Spawn` computes what a
child inherits: what the host has open, less the close-on-exec ends, less `close_all`,
with the standard streams. `OtherStarts` is another thread of the host that forks
between `pipe` and `set_cloexec`, as any library may. Piper, the sink and that process
are external: Piper reads a line when it has written what the last one made, which is
how its reading of the text depends on someone reading `outpipe`. Each may die at any
time (`PiperFails`, `SinkFails`).

`write_all` writes a line at a time and blocks on a full pipe; with nobody left to read
the kernel raises SIGPIPE, which ends the host unless it ignores it: the constant
`IgnoreSigpipe`. `waitpid` returns when the child is dead; that a caught signal may
interrupt it is left out (see the hazards). `clean` is a history variable, false once
any call has failed or a child died, so that `HeardInFull` can say what is promised
when nothing did. Whether `PIPER_PULSE` is used is the variable `pulseEnabled`, chosen in the
initial state and constant after it: one run and one proof are about both.

### Len64, Decoder, Hook, Stub

`ReadInstruction64` is the decoder as a function of bytes; `Amd64Length` is written from
what the processor does, not from the code; `Decoder` is a call of the one for an instruction. `Hook` has whole functions as bytes, their
pages, and the trampoline byte by byte; `HookEntry` is one entry of the loop in
`XPluginStart` with everything `hook` does for it, each `mprotect` refused or granted.
It takes the 64-bit build. What is assumed of the host: a function is a sequence of
instructions, each as long as the processor takes it to be if the code knows its opcode and
15 bytes at most (`BodiesAssumption`); none ends before the jump does (`LongAssumption`); none
begins as a patched one (`FreshAssumption`). `Decoded` is the sum of lengths that `get_hook_space`
forms. `Stub` runs the bytes that `Hook` puts down and the assembly
of `hook1`, an instruction a step, with `kuk` changing any
caller-saved registers; the copied instructions are one step.

`HookIsTransparent`, `KukCallIsLegal` and `CallArrives` are of one call. `OperandsKept` looks at whole instructions in place of bytes: `OperandBase` is the address
a RIP-relative operand counts from, in the function and in the trampoline.

### Service

`Speech` has `backend_say` as one step that is assumed to return. `Service` puts
`speak_piper` there, by two instances: the steps of `Speech` but `BackendSay`, and those of
`SpeakPiper` while the worker is inside. `ImplementsSpeech` is then `Speech`'s whole
specification, its fairness included: that the step returns is derived from the worker
and the children going on. `SpeaksAlive` is what the two share: while `speak_piper` is inside,
the argv, the text and the queue are there; while it is not, no pipe end or child of the last text is left.

### Plugin

| Action | Code |
|---|---|
| `StartFinds`, `StartSpeech`, `SpeechReady`, `NotHooked` | `XPluginStart`; each may give up |
| `JumpBegins`, `JumpEnds`, `JumpBack` | `hook_proc`: the copy and the first bytes of the jump, the rest of the jump, the trampoline's jump back |
| `Call(t)`, `Kuk(t)`, `Push(t)`, `Trampoline(t)` | the hooked function or the jump in it, the stub with `speech_say`, the critical section, the trampoline |
| `Leave(t)` | external: the first bytes of the host's function, its own or half overwritten |
| `StopBegins`, `StopGoesOn`, `StopEnds` | `XPluginStop` |
| `Worker` | the worker thread |
| `Unload`, `Load` | external: what `XPLMReloadPlugins` does |

`jump` outlives the plugin, for it is in the host's code; everything else starts anew with
`Load`, perhaps at another address. A thread is "lost" when it jumps to where nothing is,
when it runs off the end of a trampoline that has no jump back, or when it runs bytes half written.

`hook_proc` writes the jump by several stores (`src/hook.c` 70-75) and only then the
trampoline's jump back (85-89). Threads that X-Plane may have call the function in between, or are
in its first 13 bytes when the writing begins: `at[t] = "head"`. The main thread is not among them, for it writes.
Another thread can be lost there, and the code has nothing against it. The stores are taken to be seen
in the order of the code; a thread between them may go on as in the old bytes, as in the new ones, or be lost.

Two history variables say for which calls this is so. `caught` has the threads whose call met the
writing, until the call returns; `gone` is true once the host has unloaded the plugin.
`CallsSurvive` and `CallsReturn` hold of all other calls, those of the main thread always among
them, and need not hold after an unload (`CallsSurviveReload`, a finding). The plugin's code being executable is
all that `Plugin` takes from `Hook`; one function is hooked. `Hook`, on its part, lets calls begin when
`XPluginStart` has returned, for it is about what the bytes do once they are written.

### SpawnFds

The table of descriptors of the host as numbers, lowest free first, with other threads
that open and close files between any two steps. `Wired` is the child's table after the
dup2s, the closes and exec. The host was started with 0, 1 and 2 open; if it was not, the
close of `close_all` may hit the 0 or 1 just made, which is left out. What each end means for
the others is in `SpeakPiper`.

### WavHeader, PulseStream

A file is its chunks, each a name and a size; `Read` takes any number of the bytes that are
wanted, and the stream may end before any byte. Names other than `fmt ` and `data` are one
name. A fmt chunk's fields are its number: `info` says which was read. An audio chunk read as a chunk header cannot
happen, for the walk ends there; a walk that is out of step is `cur = 0`.

`PulseStream` counts the streams opened, so that one lost, one freed and still used and one
opened without need are different states. The server may break a connection at any time.
The format `PA_SAMPLE_S16LE` is constant in the code and left out of the spec.

### Commands, DebugLog

A token is a sequence of characters of which only the blank matters (and "?", which is no
character but what an unwritten slot has); an argv is its slots. `IsWordsOf` says what the words of a value
are without the loop of the code: its maximal runs without a blank, in their order. The number of allocations that succeed is the input of `SpeechInit`: every place
where one can fail is some number. `realloc` keeps the old array when it fails.

A message is its length. `Memory` is the largest block there is, so a doubling may
fail at any size. When it does, the code forgets the block it had: one block is lost, which no
property says anything about.

### KukText

Memory is a function of addresses, small enough that the next text overwrites part of the
last. The layouts are those of libstdc++ before C++11 (`Ss` in the mangled names) and of
libc++ (`ENSt3__1`), as `ptrs` names them; they are external. `Room` is the block a library
allocates for a text, `queued` the copy `queue_push` makes. The host gives one string
several texts: a libc++ string that was long stays long.

### Manifest

An entry's name is the parts between its slashes. `Lands` is where unpacking puts it,
written from what a path means and not from the code, which drops empty and dot
parts and refuses `..`. Both are recursive functions, from one part to the next; the root is the part
"/". Hashes, sizes and the JSON are left out.

### ElfTables

One pass of each loop is a step. A section is its type, its link and its data; a read of
any section may fail. The loops for 32 and 64 bit files differ only in the structs. A file is
what a linker makes (`FilesAssumption`): section 0 is no table, there is one symbol table at most, no
function is at address 0. The entries of `ptrs` are about different symbols, as they are in `src/hook.c`.

## Runs

| Run | Instance | Shows |
|---|---|---|
| `speech` | ring of 3, one host thread, all backends | types, ring, wakeups, teardown, ownership, no leak, nothing left when down; a close returns; the FIFO is implemented, liveness included |
| `plugin` | two host threads, ring of 2, unloads, two addresses | until an unload, calls survive and return in every phase, but for those of another thread that meet the writing of the patch; nothing runs when stopped, also in a second life; copies have one owner and a late caller leaves one at most; the FIFO's safety |
| `speak_piper` | 2 lines of 3 units, pipes of 2, with a sink and with `PIPER_PULSE` | types, nothing leaked, heard once, heard in full, the call returns |
| `service` | ring of 1, one host thread, one line of text, pipes of 1 unit | `Speech` is implemented, liveness included; what a text needs is there while it is spoken |
| `hooking` | by part: below | addresses and lengths right; calls go on, only writable pages written, one function met twice; transparent, aligned, arrives; what is queued is the text |
| `helpers` | by part: below | WAV accepted at the audio, refused for cause; Pulse plays at its format, one stream; children wired, nothing foreign closed; argv as documented, no block lost; size and block agree; the manifest is true |
| `speak_piper_sigpipe` | host with SIGPIPE at its default | violated: the host ends (finding 1) |
| `hook_two` | two functions found | violated: one trampoline (finding 2) |
| `hook_log` | one function | violated: a failure is logged as success (finding 3) |
| `len64_addr32` | prefixes 48 and 67 | violated: 16-bit ModR/M rules (finding 4) |
| `hook_rip` | one function, a prologue with a RIP-relative operand | violated: the operand moves (finding 5) |
| `plugin_reload` | one host thread, unloads | violated: a call jumps to where the plugin was (finding 6) |

| Part of | Instance |
|---|---|
| `hooking`: symbols | every table of up to 3 symbols of 8 kinds, five section orders |
| `hooking`: length | up to two prefixes of 41, 48 and 66, every opcode the table knows and five it does not, 64 ModR/M and two SIB bytes |
| `hooking`: hook | one function found under two names, prologues of three of six instructions, three addresses, 256-byte pages |
| `hooking`: stub | 9 registers, any subset changed by `kuk` |
| `hooking`: text | 8 texts around both limits (`MaxText` 24, `ShortCap` 22), strings of both libraries, 2 calls with one string |
| `helpers`: pulse | headers that differ in one field each, three streams |
| `helpers`: log | lengths around the powers of two, 16 bytes of memory |
| `helpers`: header | files of up to 3 chunks, right and wrong, sizes around 16, odd and even |
| `helpers`: descriptors | 8 descriptors, 3 of them taken at first |
| `helpers`: commands | all four variables unset, blank, of one and of more words; every number of allocations |
| `helpers`: manifest | plugin, README and one of the further entries (names of up to three parts of six), in several orders |

Why the bounds are enough. A ring of 3 is empty, partly full, full and wrapped, and the
code never treats one slot unlike another; the theorems hold for every capacity. There is one text block more
than ring, worker and callers can hold, so nobody waits for one. Two lines make Piper
stop in the middle of a text, and an outpipe smaller than what a line makes blocks it
there, which is where the circles of waiting would be; a line that fits is covered by
the states before. The pages need only be as long as a patch and its copy so that the jump ends
before, on and behind a boundary. A prologue of three instructions reaches every way of
passing 13 bytes, filler included. Where two opcodes have the same row in the table they
still are both tried. Three chunks put one of any kind before and after a fmt chunk and the
audio behind both; three streams let one be replaced by one that is replaced. Eight descriptors are
the four ends, the standard streams and one file that takes a number just freed.

Deadlock is checked in `speech`, `speak_piper` and `service`, where it would be the circle of waiting
that is feared. The other models end: the hooks are installed, the call has arrived, the
symbols are found, the header is decided, the manifest is written, the string has had its
calls; in `plugin` the host may stop for good with the function's calls lost after an unload,
and what must go on there is said by `CallsReturn`.

### Fairness

`Speech`: the worker and a thread inside `speech_init`, `speech_close` or `queue_push`
go on, as a scheduler lets them; `backend_say` returns, which is `SpeakReturns` of
`SpeakPiper`. The host owes no call and the library no spurious wakeup. Weak fairness is
enough, for nothing here is enabled again and again but the mutex, which is inside steps.

`SpeakPiper`: the worker goes on, and the children read, write and exit while they can.
The code has no timeout, so this is what it relies on: a Piper that hangs hangs the
worker, and `XPluginStop` with it. A forked process exits or execs some day. Failures
are never owed.

`Service`: the fairness of both, but no longer that `backend_say` returns.

`Plugin`: only a thread inside a call of the function goes on. The worker, Piper and a start or stop may stand
still for ever, and `CallsReturn` holds all the same; weak fairness is enough, for the mutex is
never held across a step.

`Stub` is one thread that goes on. The other modules state no fairness: nothing that they are checked
for is liveness.

## Findings

1. `speak_piper_sigpipe` (`src/utils.c` 364): the text is written to a Piper that may
   have exited; nothing blocks SIGPIPE. `README.md` 40 says of a bad model only that
   there is no audio.
2. `hook_two` (`src/hook.c` 210): the second hooked function overwrites the only
   trampoline; a call of the first goes on in the second.
3. `hook_log` (`src/hook.c` 210): `hook_proc`'s -1 is taken for success and logged as
   "initialized" (`src/xpl.c` 63).
4. `len64_addr32` (`src/len64.c` 391): the address size prefix is decoded as in 32-bit
   mode, though the file is for AMD64. No compiler emits it in a prologue.
5. `hook_rip` (`src/hook.c` 55): a RIP-relative operand in the copied instructions is not
   relocated.
6. `plugin_reload` (`src/xpl.c` 75): `XPluginStop` leaves the jump in the host's code;
   `XPLMPlugin.h` 154-158 says the plugin will be unloaded.

Seen while modelling, and in no run:

* A thread of the host that calls the function while `hook_proc` patches it, or is in its first bytes then,
  may run torn bytes, or a trampoline without its jump back (`src/hook.c` 70-89). The repository says nothing
  of other threads' calls, so this contradicts no line of it; `CallsSurvive` and `CallsReturn` except those calls.
* After a failed write the "persistent" Pulse stream is kept and used for every later text of
  its format, and nothing is heard (`src/utils.c` 648). `PulseStream` does the same.
* "No TTS backend available" (`src/utils.c` 271) has causes that are not those of
  `README.md` 41, and those it names cannot cause it. `ArgvAsDocumented` says what is so of both argv.
* The loop of the comment "looping once" (`src/utils.c` 100) runs as often as 2 must be doubled.
* Headers with more than 256 channels, of which the cast to 8 bits may make a valid
  number, are left out of `PlayedAsHeader` by name.
* REX.W after the operand size prefix, where the code takes a 2-byte immediate, and
  `F6 /1`, the undocumented form of TEST, are left out of `LengthIsRight` by name (`Covered`).

## Proofs

Each theorem is for every value of the constants that the modules' assumptions allow, and
TLC evaluates those assumptions in the runs: a capacity of at least 1 and NULL no text; a
line that fits the pipe it is written to (4096 bytes to 65536); 2 bytes of memory;
descriptors enough for the standard streams; a text with its NUL fits the block it is put in; an archive
entry has a name of one part at least; what is said above of functions and executables.

**The ring.** `TtsQueueProofs`: each operation keeps `Queue` and `WellFormed`, and what it does
to `Contents` is an append, a tail, or nothing. They are where the arithmetic modulo `Cap` is done, once.

**Speech.** `TypeOK`, `RingWellFormed`, `WorkerExitsDrained`, `NoLostWakeup`, `TeardownAfterJoin` and
`NothingHeldWhenDown` follow from one inductive invariant,

    IInv == TypeOK /\ WellFormed(q) /\ CallersInv /\ LifeInv /\ WorkerInv /\ ResourceInv

None of the properties is inductive. That nothing is torn down under the worker needs to
know where the main thread is in start and stop while the worker runs (`LifeInv`), that a
caller in the middle of `queue_push` holds a copy (`CallersInv`), what queue the worker
may be asleep on (`WorkerInv`), and which resources each backend implies (`ResourceInv`).

* `OneOwner` (`CopiesHaveOneOwner`) needs in addition that the copies in the ring, in the threads' hands and in
  the worker's are different ones and all allocated (`OwnerInv`): a displaced text is freed
  because nobody else has it.
* `NoLeak` (`NothingLeaks`) is proved from `KeepInv`, that each block is in one of those hands, for the host that speaks
  from one thread; it is false for more, and `LateCopiesFew` proves what is true then: a dead
  queue holds one text of each other thread at most (`LateInv`, for finitely many threads).
* `ImplementsFifoSafely`: every step is a step of the FIFO or a stutter, by the lemmas on `Contents`.

**SpeakPiper.** `NothingLeaked` and `SpokenOnce` from `PInv`: for each place in the function which
ends the host has open (`EndsInv`), which children there are (`ChildrenInv`), and where something may have been played
(`SoundInv`). `HeardInFull` (`NothingCutOff`) needs a conservation law, that what is unsent, in Piper, in the
pipes and played is the whole (`Volume`) as long as nothing failed (`VolumeInv`), and that who ends has
left nothing behind: a Piper that exited has read and written all, a sink that exited has
played all (`DrainInv`). `TypeOK` (`TypeCorrect`) comes with them.

**Service.** Every step is a step of `Speech` and one of `SpeakPiper`, or a stutter of either:
`ImplementsSpeechSafely` and `ImplementsSpeakPiperSafely` prove both refinements' safety. So the
invariants of both hold of the composition, and with where the worker is (`InsideInv`) they give `SpeaksAlive`.

**Plugin.** Every step but `Unload` is one of `Speech`, and `Unload` finds `Speech` down; the phase of the
plugin says where the main thread can be (`PhaseInv`). From it come `NothingRunsWhenStopped`, `CopiesOwned` and
`FifoKept`, over any number of lives. `CallsSurvive` is from `HookInv`: until the first unload the jump
leads to the plugin where it is, and once the writing is over the trampoline leads back (`PatchInv`);
while it lasts every call there is, and after it every thread still in the old bytes, is in `caught` (`CaughtInv`), and
the main thread, which is in no call then, never is.

**Descriptors.** `ClosesItsOwn` and `ChildrenWired` for any limit of open files, with the host's threads
opening and closing in between: `NumbersInv` says at each place which ends are open, under which
numbers, that no other number is one, and that the standard streams are the host's.

**Pulse and messages.** `OneStream` and `PlayedAsHeader` for every set of headers: while a text plays the
spec is that of its own header and the cast left some channel (`PlayInv`), from which it
follows that the cast changed nothing. `SizeIsRoom` and the action property `PrintedWhole` for messages of any
length and any memory: the size agrees with the block whenever there is one (`BufferInv`); without a block it may be 2.

**WAV header.** `HeaderAccepted` and `HeaderRefused` for files of any number of chunks and reads cut at any byte.
`WalkInv` says where the walk is against the layout of the file: the byte it is at and those it still
wants end where the header, the format or the chunk of its place ends, no chunk behind it was audio, and each fmt
chunk behind it was long enough. `FormatInv` says which format is the last so far. That neighbouring
chunks do not overlap (`Layout`) is an induction over the recursive function `Start`.

**Command lines.** `BlocksAreOwned` and `CommandsAsDocumented` for any values of the variables, any number of
starts and stops, and whichever allocation fails. A build leaves the first n tokens, NULL behind them, and
n + 1 blocks, and n is all of them unless one failed (`Building`, by induction over `AddAll`); the state is
either nothing or two whole builds (`CmdIInv`). `SplitRight` says that the loop of `argv_add_split` gives the
maximal runs without a blank: by induction from the end of the value back to its start, with
what one pass finds (`WordBefore`).

**Manifest.** `ManifestRight` for archives with any entries under any names. The heart is `SafeLands`: what passes the checks
has no `..`, so that unpacking it, step by step, goes where the parts of its name say, never to the root.
The rest is bookkeeping (`Listed`): as many paths as files, each listed with the content of its entry, so that
no later entry overwrites an earlier one.

**Lengths.** `LengthRight`: for any number of prefixes, every opcode of the table and every operand, the decoder
returns what AMD64 defines, finding 4 and the two cases under "Seen while modelling" excepted by
name (`Misread`). `DecodedRight` is `LengthIsRight` from it, for every set of instructions: an opcode that
the table does not know is refused, too. It assumes `NoAddressSize`, without which it is finding 4.

**Hooks.** Both theorems assume `NothingMisread`: no function begins with one of those exceptions.
`MCHooking` has TLC evaluate it. `SpaceIsWhole` is the lemma: `HookSpace` of a function is a whole number of
instructions, 13 to 27 bytes, by induction over the instructions; `SpaceOfPatched` says that a
function already patched is refused. Then `AlwaysAllowed`: what is patched was on writable pages
(`WriteInv`; `PatchCovered` is the arithmetic of the two pages). `HookedGoesOn` (`CallsContinue`) assumes also that one function is hooked,
`OneFun`, without which it is finding 2; `CallInv` says of a patched function that the
trampoline is still its own.

**Symbols.** `AddressesRight` for every executable and whichever read fails: what has been read so
far (`HasRead`), and that each address is the first definition among the symbols seen (`FirstIs`).

**Stub.** `HookTransparent` and `KukCalledLegally`: the module has no constants, so what the theorems add to the run is
the reason. `StubInv` is the stack at each instruction: the host's return address, its rax, and as many of
`Saved` as have been pushed and not popped, each with the host's value, while `kuk` may have changed any
register. Eight registers and two words make an even number of slots, which is the alignment.

**Texts.** `TextIsFound` for all texts, with NUL bytes inside or none, both limits and any number of calls with one
string. `KukInv` says where the library has put the characters: for a string of libstdc++, or a long one of
libc++, in one of the blocks, and the block's address in the word the code reads; for a short one in the
object, with an even first byte. So what `strnlen` counts from there on is the C string, whatever lies behind it.

Only model-checked:

* All liveness: `CloseReturns`, `SpeakReturns`, `CallsReturn`, `CallArrives`, the fairness of
  `ImplementsFifo` and `ImplementsSpeech`. The prover has no ENABLED.
* What is found violated: the six findings are counterexamples, which TLC gives. Where a theorem would be refuted
  by one it names what it leaves out (`NoAddressSize`, `OneFun`, `Misread`).

Every invariant and every safety property of steps that a passing run checks is a theorem.

## Plan

Done, in this order: the queue and the service with their FIFO; speaking with Piper; the
decoder and the hooks; the stub; the symbol search; the plugin; the WAV header and the Pulse
stream; the command lines; the debug messages; the service with Piper inside; the
descriptors; the strings; the manifest; the theorems above, of the service first and of the helpers last.

Nothing of the plan is left. What could follow is outside the models as they are: two threads in `xcDebug` at
once, and a `waitpid` that a signal interrupts (see the hazards in `PROJECT.json`).

## Not modelled

* The X-Plane SDK (`src/SDK`). Its headers are declarations and comments, without behaviour to
  translate, and its C++ wrappers are not compiled (`src/Makefile`, the sources of the
  plugin). They are five sixths of the repository's lines, so a map of all the plugin's own
  code covers a small share of the whole.
* The 32-bit build: the repository has no `read_instruction32` and no 32-bit stub.
* The build and release scripts: a compiler, docker and zip, no state of the program.
* `env_is_true` and what libraries do inside: PulseAudio, speech-dispatcher, glibc, the
  loader. They are external and appear as what they may return.
* `waitpid` interrupted by a signal (`src/utils.c` 671): whether a signal handler of the host
  can run on the worker is not known from this code.
* A host started with one of the descriptors 0 to 2 closed.
* `XPluginEnable`, `XPluginDisable`, `XPluginReceiveMessage`: empty.
