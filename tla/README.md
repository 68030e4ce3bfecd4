# A TLA+ model of the XBTOS kernel

XBTOS (`src/`) is a small 32-bit x86 kernel with a shell: a physical page
allocator, a heap, an in-memory file system, a table of applications, a hardware
abstraction layer and a prompt that runs inside the keyboard interrupt. The
modules here describe its components as state machines, the `.cfg` files check
them with TLC on small instances, and the `*Proofs` modules prove with TLAPS
what holds for every instance. `PROJECT.json` ties every definition to the lines
it models and every property to a mistake that breaks it.

    tlc -workers 2 -config Heap.cfg Heap      # a run: <cfg> and module
    tlapm HeapProofs.tla                      # a proof

## 1. The system

| component (sources in `src/kernel`) | state | operations | called by |
|---|---|---|---|
| kernel heap (`memory/heap.cpp`, `stdlib.cpp`) | headers in memory, `free_list` | `heap_init`, `kmalloc`, `kfree` | `malloc`, `free` |
| physical pages (`memory/physmem.cpp`) | the bitmap, itself in physical memory | `pm_init`, `pm_alloc_page`, `pm_free_page` | `kernel_main` (init) |
| file system (`fs/vfs.*`) | 32 slots, `file_count` | `init create write append read exists stat list remove pwd` | the shell |
| applications (`app/*`) | 16 bundles, `app_count` | `init register_app launch` | boot, the shell |
| language (`i18n/*`) | `current_language` | `set_language_by_name`, `text` | the shell |
| shell (`main.cpp:65-308`) | none of its own | `execute_command` | the line editor |
| line editor (`main.cpp:310-428`) | input buffer, history, shift and prefix flags | `keyboard_handler` | the keyboard interrupt |
| HAL (`hal/hal.cpp`, `ports.h`, `interrupt.S`) | IDT and handler table, PIC masks, APIC mode, `system_ticks`, keyboard latch | `init`, dispatch, `irq_enable/disable`, `msleep`, `keyboard_read_scancode` | boot, everything |
| console (`hal/console.*`) | cursor, colour, video memory | `putchar`, `scroll`, `clear` | the shell, the editor |
| boot (`boot.asm`, `main.cpp:430-452`) | how far initialisation is, whose gate is at vector 0x21 | `kernel_main`, `keyboard_handler_asm` | the loader |
| C library (`memory/libc.cpp`) | none between calls | `printf`, `puts`, `putchar`, `atoi` | anybody; `print_uint` of the shell has the same loops |

How they interact. Everything is on one processor. The main thread runs
`kernel_main` and then only halts; the shell, and with it the file system and the
applications, run inside the keyboard interrupt with interrupts off. So calls
into the file system, the shell and the allocators never overlap, and one call is
one action (the heap is the exception: see below). What does overlap is the main
thread inside the HAL (`msleep`, `keyboard_read_scancode`) with the clock and the
keyboard interrupt: there every load and store that matters is an action.

What is hard, and what a component owes its callers:

* **heap**: a block that was split stays on the free list while it is allocated,
  and `kfree` pushes it a second time. Links go stale, blocks fall off the list,
  the list can become a cycle. Still, no two clients may share a byte.
* **pages**: word and bit arithmetic; the bitmap lies in a page that the bitmap
  does not mark.
* **file system**: `remove` moves the last file into the gap; a shorter text leaves
  the tail of the old one; `write` and `append` create the file before they know
  the text fits. It should still be a bounded map from names to texts.
* **shell**: names are copied to a buffer of limited length and texts keep or lose
  spaces; what is reported as done must be what was asked for.
* **applications**: dots in identifiers become path separators in a buffer that may
  be too short; sandboxes of different applications must differ.
* **editor**: a key is one or two interrupts; the flags, the history cursor, the
  buffer and the screen must stay in agreement between them.
* **HAL**: a 64-bit counter read in halves, a one-place latch cleared after it is
  read, a test that is followed by a halt, and a mode in which the IRQ switches
  do nothing.
* **boot**: interrupts are on from the end of `hal_init`, and the prompt's handler is in place
  before the file system and the applications it works on are initialised.
* **C library**: digits come out last one first into a buffer of fixed length, and the most negative
  integer has no negation.

## 2. Modules

| module | models | notes |
|---|---|---|
| `Allocator` | what an allocator promises | abstract: handed-out regions are in the arena and disjoint |
| `Heap` | `heap.cpp` | one action per iteration of the loop in `kmalloc` |
| `HeapProofs` | | theorems about `Heap` |
| `PhysMem` | `physmem.cpp` | bits as sets, first clear page by word then bit |
| `PhysMemClients` | `PhysMem` with clients that write their pages | the bitmap is one of the pages |
| `NaturalOrder` | | lemmas for the proofs: least elements, induction on positions, recursive functions of the one or all positions before |
| `PhysMemProofs` | | theorems about `PhysMem` |
| `FileStore` | a bounded map from names to texts | abstract |
| `Vfs`, `MCVfs` | `vfs.cpp` | paths are normalised character by character |
| `VfsProofs` | | theorems about `Vfs`; it implements `FileStore` |
| `LineDiscipline` | what the prompt promises the user | abstract |
| `Console` | `console.cpp` | operators on the screen and the cursor |
| `LineEditor`, `MCLineEditor` | `keyboard_handler` and what it calls | one action per scancode, echo on `Console` |
| `LineEditorProofs` | | theorems about `LineEditor`; it implements `LineDiscipline` |
| `Hal` | `hal.cpp` | main thread, interrupts and devices interleaved |
| `Boot` | `kernel_main` and its keyboard gate | extends `Hal` |
| `BootProofs` | | theorems about `Boot` and `Hal` |
| `AppManager` | `app.cpp` | |
| `Shell`, `MCShell` | `execute_command` over `Vfs`, `AppManager` and the language | composition by `INSTANCE` |
| `ShellProofs` | | theorems about `Shell`, with those about the file system instantiated; its commands implement `FileStore` |
| `LibC`, `MCLibC` | `libc.cpp`, `print_uint` | one action per iteration of a loop that computes |
| `LibCProofs` | | theorems about `LibC` |

**Heap.** `hdr` maps the address of every header that was ever written to its three
fields; `free_list`, `curr` and `prev` are the pointers of the code. `Kmalloc(s)` is
the call up to the loop; `Skip`, `TakeSplit`, `TakeWhole` and `ScanFail` are one
iteration each; `Kfree` is `kfree`. The walk is not one action because it need not
end. `live` is the clients' own book-keeping. Clients free pointers they hold and
stay inside their bytes; the kernel has no other clients to take as a model.

**PhysMem.** `bitmap[i]` is the set of bits of word `i` that are 1. `exhausted`
records that the last call returned nullptr. `PhysMemClients` adds the write of a
page; a write to the frame the bitmap lives in changes the bitmap.

**Vfs.** `files` is the array of slots; `data` is the array of bytes, tails included,
so that the string `read` returns is computed by its NUL. `stat` is
called with and without a place for its answer. `reply` is the result
code with the text, the size or the listing. `list` prints the name and size of each used slot and
changes no file. Only `pwd`, which returns a constant, is left out.

**LineEditor and Console.** An action is one scancode. `wire` holds the scancode that is still to come
behind the prefix, so that the state between the two is visible. `screen` is the state of the console and
`executed` the line given to `execute_command`, as `handle_enter` has closed it (`EndedLine`, which the
invariant shows to be the buffer as it was). The scancode tables are abstract: a typed character
is the pair of scancode and table. A command prints lines of some lengths (`Outputs`), on the
screen as it is or after clearing it, and a prompt; every message of the code ends with a line
end, so the prompt starts a row. The length of the prompt is that of one of the languages (`Prompts`).
The console's functions are operators on a record, because a caller prints many
characters in one step. A text is printed by a function defined by recursion on its characters (`vga_write`),
lines of a message by another (`Prompted`); both can be reasoned about.
The keyboard is external: it sends presses, repeats and releases of plain keys,
of keys behind the prefix and of both shift keys. (The fake shift codes some keyboards send
behind the prefix are swallowed like any other prefixed code.)
The editor's calls to the HAL (`end_of_interrupt` and the others) do not exist in
`hal.h` with those names; they are taken as calls that change none of the editor's state.

**Hal.** `pc` is where the main thread is. Interrupts are accepted before the next
instruction when the interrupt flag is set and a request is not masked, lower IRQ
first; the dispatcher is one step because the stubs enter with interrupts off.
`system_ticks` is `ticks_high * WORD + ticks_low` and is loaded in two
instructions, the low word first, which is what the 32-bit build does with a 64-bit
variable. `mask` with `apic_enabled` shows what `irq_enable` really does in each mode.
A client may switch IRQ 1 off and on, and call `keyboard_read_scancode` with or
without interrupts disabled (`ReadModes`).
With interrupts on, a scancode that is latched between the copy and the reset is cleared unread; the only caller of
the code reads inside an interrupt gate. What holds in both modes is `ScancodesInOrder`.

**Boot.** `program` is the main thread: `"client"`, the one of `Hal` that calls `hal.h` in any order, or
`"kernel_main"`, which after `hal::init` makes the calls of `Calls` one by one and then halts in a loop.
`main.cpp` calls `hal_init` and `end_of_interrupt`, which `hal.h` does not declare; they are taken as
`hal::init` and the end of the interrupt. `gate` is whose code the gate of vector 0x21 leads to. From `idt_set_gate` on it is
`keyboard_handler_asm`, which takes its scancode from the latch (`keyboard_read_scancode`). But the latch is filled by the
layer's own handler, which that gate has just replaced: only a scancode that was
in the latch before ever reaches the editor, nobody reads port 0x60 again, and so the controller sends no further interrupt.
`typed` is what has reached the editor: at most one scancode (`OneKeyReachesEditor`). A command takes a character and
Enter, so none is ever run, in particular none before the file system and the applications are initialised. Nothing
else would prevent that: whoever repairs the handler has to move the gate or the enabling of interrupts too.
What the layer itself owes is `UnreadIsRequested`: a scancode in the controller has its request pending as long as the layer's
gate serves the vector. Behind the other gate it stays there, and the halt loop lives on the clock alone (`HaltLoopWakes`).
The five stores of `idt_set_gate` are one step: the high halves of all handlers' addresses agree
in an image below 64 KB, so every mixture of old and new gate is one of the two.

**Shell.** A line is a verb and what follows it, and `Lines` gives that as a number of spaces, a
word, more spaces and a text; every string is of that form in one way. The verb is
the disjunct taken. `starts_with_space`, `skip_spaces`, `copy_token` and `Content` are
the code's string functions on such lines. The commands call the actions of `Vfs` and
`AppManager`. `register_builtin_apps` is generalised from the one application the code
registers to a sequence `Builtin`, so that the refusals of `register_app` happen; the
commands start when it is done, as in `kernel_main`. Commands that only print
are one action. The answer of the file system is a local variable of the command, hence
`reply` is set to OK by a command that does not call it.

**LibC.** A caller makes one call after the other; `Plain`, `Conversion`, `Divide`, `EmitDigits`, `SkipSpace`,
`ReadSign` and `ReadDigit` are steps of its loops. Words have `BITS` bits; `Signed` and `Bits` go between an
`int` and its bits, and a signed overflow wraps, as it does in the unoptimised build. A format is a sequence of pieces, each
with its argument, so that `printf`, which sees only the characters, can be compared with what each piece
stands for. `atoi` is given texts of its own and what the last call has printed; `of` in its `call` remembers the format.
`IsPiece` says which formats callers write: plain characters or `%` with one character, and the argument that conversion
takes, which C requires. `LibCAssumption` asks that a word has two halves and that the digits of every word fit in the
buffers, which 10 decimal digits do in 12 and in 32 places.

## 3. Runs

All passing runs are exhaustive over the bounds they name.

| run | module, cfg | shows |
|---|---|---|
| `heap` | `Heap`, `Heap.cfg` | types, tiling, agreement of flags with clients, stability of held blocks, refinement of `Allocator` |
| `physmem` | `PhysMem` | the bitmap is the reserved and held pages; failure only when full; refinement of `Allocator` |
| `vfs` | `MCVfs` | compact table, reachable names, size = string length, errors keep files, refinement of `FileStore` |
| `editor` | `MCLineEditor` | the row of the cursor = prompt and buffer, the cursor stays on the screen, the recalled row is on the screen, shift only while held, prefixed codes type nothing, refinement of `LineDiscipline` |
| `hal` | `Boot`, `Boot.cfg` | no scancode twice or out of order, `msleep` returns, with the layer's own gate every scancode keeps its request and reaches the latch, the halt loop of `kernel_main` keeps waking |
| `shell` | `MCShell` | what `rec` and `append` report is what they did, `rec` empties nothing, one file per command, identifiers and containers distinct |
| `libc` | `MCLibC` | every number is printed whole, each piece of a format with its own argument, `atoi` reads back what `printf` prints, calls return |

**Bounds, and why they are enough.**

* `heap`: 31 bytes, headers of 3, slack 8, requests 0, 2 and 9. Two requests can be
  split off (5 and 12 bytes with their headers), a rest that is too small is given away whole,
  and a request can fail; with two split blocks
  the list gets its stale links, its lost blocks and its cycles. `WORD` is 64, so
  no sum wraps: `HeapAssumption` says so of the real sizes too.
* `physmem`: 12 pages in words of 3 with 4 reserved, so that one word is half reserved
  and whole words lie on both sides of the limit.
* `vfs`: two slots, three good names (one also behind leading separators), each kind of
  bad path, texts of 0, 1, 2 and 4 characters for a data array of 4: a text
  may fill the array, overflow it at once or by appending.
* `editor`: three cells, two history rows, one letter in both tables, one silent
  key: the line is full after two characters and the history after two lines. A screen of two
  rows of four cells and prompts of one and two characters: a full line fits behind the one and wraps
  behind the other, commands print nothing, a short line or one that fills its row, and the screen scrolls.
* `hal`: both main threads; words that count modulo 3, so that a carry comes every three ticks, three
  scancodes, delays 1 and 2, reads with interrupts on and off. Two scancodes
  overwrite the latch and the third gives the overwritten one a successor. A delay of 2 has ticks inside it and one of 1 only at the ends.
* `shell`: two files, three applications out of six manifests (one incomplete, one a repetition, one too many); two of the
  identifiers fill the buffer of the path to its last byte and differ only there, a third leaves room for the suffix. Names of at
  most two characters, thirteen argument strings: no space, no word, one and two spaces, the longest word the name buffer
  takes, with a text that fits, a text with a space inside or behind, a text and a word that do not fit.
  `MCZhNames` and `MCEnNames` stand for the four words `lang` knows.
* `libc`: integers of 8 bits, which have at most three decimal digits, and both buffers exactly 3, while the code
  has 32 and 12 places for at most 10 digits: a loop that stops one digit early shows. Every word is printed by every
  conversion by itself; formats of two numbers take the words at the edges of both ranges. The texts for `atoi` overflow, have a second
  sign, and start with every kind of character it treats differently.

**Runs that find a disagreement.** Each checks one property that the
repository's documentation states and that the code breaks.

| run | what TLC shows |
|---|---|
| `heap_returns` | malloc, free, larger malloc: the freed header is its own successor and the walk never ends |
| `physmem_clients` | the first page handed out is 0x100000, the bitmap; writing it makes a held page look free |
| `hal_apic` | with a local APIC reported, no interrupt is ever unmasked and `msleep` never returns |
| `hal_ticks` | a tick between the two loads of `system_ticks` makes `msleep` return too early |
| `boot_keyboard` | behind `kernel_main`'s gate nobody reads the keyboard controller: a key that is pressed at the prompt never reaches the editor |

`rec` cuts a name that does not fit in its buffer and reports success for another file than `touch` or
`rdf` would find. No document says otherwise, so `RecStoresText` and `AppendAddsText` are about the names that
fit, the longest included. In the same way `ContainersDistinct` is about identifiers that fit into the path's buffer: a longer one is
cut, and shares its container with every other that begins like it.

**Fairness.** Properties that something happens are checked under `FairSpec`.

* `Heap`: weak fairness of `Walk`. The loop of a `kmalloc` in progress keeps
  executing; nothing obliges clients to call.
* `Hal`: weak fairness of `init`, `Sleep` and `Read` (the processor executes its next
  instruction) and of `Tick` (the PIT is periodic); strong fairness of the
  dispatcher for IRQ 0 and 1: a request that can be accepted again and again is accepted. Strong,
  because the keyboard's request is passed over while the clock's is pending. Masking and calling are
  free choices of clients, so `ScancodesReachLatch` assumes that the keyboard is not masked for ever.
* `moved` keeps the PIT slower than one instruction: between two ticks the main thread
  executes something or has nothing to execute. Without it a schedule of ticks only would
  starve the main thread, which a 1 ms period does not do. It is a guard on the device and not
  an assumption about the scheduler.
* `Boot`: the same for its versions of these steps, weak fairness of `KernelCall` and `HaltLoop` (`kernel_main`
  goes on), strong fairness of `keyboard_handler_asm` like that of the dispatcher.
* `LibC`: weak fairness of `Work`, the steps of a call in progress.

## 4. Proofs

| module | proved, for all constants that satisfy | theorems |
|---|---|---|
| `HeapProofs` | `HeapAssumption` | `TypeCorrect`, `HeadersTileTheHeap`, `TakenBlocksAreHeld`, `HeldBlocksStay`, `HeapIsAllocator` |
| `PhysMemProofs` | `PhysMemAssumption` | `TypeCorrect`, `BitmapCorrect`, `AllocationComplete`, `PhysMemIsAllocator` |
| `VfsProofs` | `VfsAssumption` | `TypeCorrect`, `TableStaysCompact`, `FilesStayReachable`, `SizeAgreesWithText`, `ErrorsKeepFiles`, `VfsIsFileStore` |
| `LineEditorProofs` | `LineEditorAssumption` | `TypeCorrect`, `RowIsLine`, `ShiftFollowsKeys`, `PrefixedCodesNeverType`, `EditorIsLineDiscipline`, `CursorStaysOnScreen`, `ScreenIsLine` |
| `BootProofs` | `HalAssumption` | `TypeCorrect`, `NoRequestIsLost`, `OneKeyReachesEditor`, `ScancodesStayInOrder` |
| `ShellProofs` | `ShellAssumption`, `LinesAssumption` | `TypeCorrect`, `EveryAppCanRun`, `ContainersStayDistinct`, `CommandsAreFileStore`, `CommandsTouchOneFile`, `RecEmptiesNoFile`, `RecTellsTheTruth`, `AppendTellsTheTruth` |
| `LibCProofs` | `LibCAssumption` | `TypeCorrect`, `CallsPrintWhatIsAsked`, `AtoiInvertsPrintf` |

**Heap.** `TypeOK /\ BlocksTile /\ LiveBlocks` is inductive. The order and even the
finiteness of the free list cannot be part of the argument, since the code destroys both: `prev` and `curr`
are known only to be headers or NULL, and the current block to be free when it is taken. What carries
the proof is the tiling: a split cuts one block at an address inside it, no header lies
strictly inside a block, so the new header is in nobody's way; and a block taken is marked free, so by
`LiveBlocks` no client holds it. `HeldBlocksStay` and the refinement follow: a region handed out is
the inside of a block, and the insides of two blocks are disjoint.

**PhysMem.** The invariant is the specification's own two parts plus types; the work is in
the arithmetic: page `f` is bit `f % BITS` of word `f \div BITS` and of no other (`FrameFacts`), the words
are whole (`PhysMemAssumption`), and if any bit is clear there is a first one (`NaturalOrder`). `AllocationComplete`
uses the last of these: the code looks only for the first.

**Vfs.** `write` and `append` change a table that they may just have extended, so the invariant
is stated of a table and a length, `TableOK(fs, n)`, and proved to be kept by creating, by storing
in a slot and by removing; the actions are then one or two of these. `ErrorsKeepFiles` needs the
invariant because a failed `write` may have created a file in slot `file_count`, which must be none
of those before.

**The file system as `FileStore`.** The abstract store is a map from names to texts, the table an array of slots with a byte array each.
`Represents(map, fs, n)` says that the first `n` slots of `fs` hold exactly the names and strings of `map`; a table represents one map
only (`OneMap`), so each action is proved by giving the map of the new table: a name more
(`NewSlot`), another text for a name (`StoredSlot`), a name less (`RemovedSlot`, where the last slot has moved into the gap).
`CountedNames` turns the code's test of `file_count` into the abstract bound on the number of files,
and the strings of the arrays come from `SizeAgreesWithText`'s invariant, since a
text ends at the first NUL only because nothing before `size` is one.

**LineEditor.** Two invariants that do not need each other. `KeysOK` relates the two flags to the keyboard: the prefix
flag is set exactly while the second byte of a key is on the wire. `EditInv` says that the buffer and every
history row is a string with its NUL inside the array, rows in use are not empty, and the browsed row equals the buffer. Each of the
editing functions is shown once to keep `EditInv` and to be a step of `LineDiscipline`;
the keys are then a split into cases.

**The screen.** `ScreenInv` adds to `EditInv` that nothing stands behind the cursor (`Ahead`) and, while the echo has not
reached the end of the row, that the row is the prompt, the line and empty cells (`Shows`). `CursorOnScreen` alone is not enough: a
line end at the bottom moves every row up, and that the new last row is empty, so that a prompt printed there stands
alone, is `Ahead` of the old screen. The two are carried through `print_char` by kind of character (`PutNewline`, `PutRubout`,
`PutGlyph`), then through a whole text. A recursive function of TLA+ is a `CHOOSE`: that one with the
equations of `vga_write` exists is the lemma `Recursion` of `NaturalOrder`, that `vga_write` is it is `WriteIs`, and what holds
behind every character follows by `AllPositions`, an induction with a set in place of the predicate, which is
the form the provers can use. All four ways to change the line rub out some characters and print some (`Echoed`): n rubouts
take n characters off the row because the row shows at least so many, and a text that fits stands behind the rest.

**Boot.** `InOrder` puts the scancodes on their way in a line: what the caller has received, what it has copied, the latch,
the controller, the last one sent, each sent no later than the next, and strictly earlier where the next place is full and unread. `OneKeyTyped`
is the state of the dead keyboard: the gate is switched before anything is typed, from then on nothing fills the latch, and
one reading empties it for good. For `NoRequestIsLost`, `RequestInv` adds that the layer's handler is registered before an
interrupt can be accepted: a dispatched keyboard interrupt then always reads the controller, and no other step takes the
request back.

**Applications.** `AppsOK` (registered manifests come from `Builtin`, are complete and have different identifiers) is kept
by `register_app`, because `find` looks through all entries before the new one, and by every command, because none
writes the table. That containers differ then rests on `ShortPathKept`: a path that fits into its buffer, with
or without the suffix, is the identifier with its dots replaced, and where the identifier holds no slash it determines it. Other
identifiers are outside of the property, since the code cuts or merges their paths.

**Commands.** `LinesAssumption` says what a line is: words without spaces, texts that do not begin with one. From it
`ParsedLine` computes what the shell's string functions make of a line, without looking at the functions again: the name
buffer gets the word, cut to its size, and the rest is the text. `CommandsAreCalls` shows that every command is
at most one call of the file system with such strings. `ShellProofs` therefore instantiates the file system's
theorems with the strings of the shell, and gets the file system's invariant (`FilesInvariant`) and the step of `FileStore` that each command
is. `OneNameChanges` then speaks of the map only: an operation changes the text of one name at most. For
`RecStoresText`, that the command is the abstract `write` of the parsed name and text gives what the file holds, however long the
line and its runs of spaces are; for `AppendAddsText` the abstract operation is the
store of the old text with the new one behind it (`AppendStores`).

**C library.** `Numeral`, `Powers` and the concatenation of a format's pieces are recursive functions, so first each is shown to satisfy
its equations (`NumeralIs`, `PowersFit`, `FlattenIs`). `LibInv` says how far a `printf` has come (`Halfway`): the characters and
arguments still to be looked at are those of the pieces from some `k` on (or a plain piece entered in the middle), and what has been
printed, followed by what the rest stands for, is `Shown` of the whole format. Inside a conversion the number stands in between: the digits
of `value` and behind them the buffer in reverse (`Number`), which a division leaves as it is (`DigitsStep`). That the division ends before
the buffer does is `Fits`: what is left is below the base to the power of the free places, which `LibCAssumption` gives at the entry and
each digit keeps. The negation of the most negative integer is the same word, and as an unsigned number its magnitude.

`AtoiInv` is about the conversion back. By `LibInv` the text is spaces, a signed numeral and something that does not begin with a digit
(`InFront`); while digits are read, the value is that of those read so far (`ReadAs`, an induction on the numeral). Only the last
digit can overflow, because a value with another digit behind it is below a tenth of the number, and only for the most
negative number, where the wrapped value and the change of its sign cancel.

Overflow of sizes is excluded by an assumption (`HeapAssumption`: no request within a header of 2^32), not proved.

**Model-checked only.** The liveness properties (`MsleepReturns`, `HaltLoopWakes`, `ScancodesReachLatch`, `CallsReturn`), which need fairness.
Every invariant and action property of a passing run is a theorem.

## 5. Not modelled

* Text: the message tables, `pwd`, what `print_*` of the shell writes beside numbers. Of `libc.cpp`: `abort`, which prints and halts, and
  `tolower`, `toupper`, `isalpha`, which nobody calls; formats that end in a lone `%`, which C leaves undefined and nobody uses.
* `has_permission` (reads the context; nobody calls it), `third_party.h` (an interface nobody implements).
* Exceptions (they print and halt), `unregister_interrupt_handler`, `switch_context`, `apic_init`,
  `dump_registers`: unused or without state.
* The five stores of `idt_set_gate` one by one (see Boot above).
* The banner of the main thread interleaved with the echo of an early key: at most one character can fall into
  it (`OneKeyTyped`), and no document says where it should go.
* The colour and the hardware cursor of the console; UTF-8 bytes, which become one character each.
* The pages of the kernel image and of the heap, which the page allocator does not mark either: nobody calls it, and
  `PhysMemClients` shows the same with the page of the bitmap.
* What the screen shows once a line has reached the end of its row: a backspace at the start of a row does
  nothing, so erasing leaves characters behind. No document promises otherwise, so `ScreenShowsLine`
  ends there (`wide`); `CursorOnScreen` and the editor's own properties do not.
* `src/hal` is a copy of `src/kernel/hal` that is not built.
* Memory sizes that are not a whole number of bitmap words, and request sizes whose header sum wraps.
* The latch overwritten by a second key before the first is read: the header promises no queue.

## 6. Plan

Built so far, in this order: heap, pages, file system, editor, HAL, shell with applications, console; proofs of the
first three; boot and the keyboard's path; `list`; the C library; the refinement of `FileStore`; proofs of the editor, of boot and the HAL,
and of the applications; the theorems of the file system carried into the shell; the screen; the C library. What is left, most important first:

1. **Console with two writers**: the banner against the echo at the level of the loads and stores of
   `vga_put_char`, once the handler reads the controller and more than one key can come.
2. **Depth**: applications launched from `Shell` with an entry that calls back into the file system.
