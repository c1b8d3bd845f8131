# Verification of micro-libs

TLA+ models of the C libraries of this repository, the TLC runs that check them
on small instances, and theorems about them that TLAPS proves for every value of
the constants.  Paths below are relative to the root of the repository.

The libraries are used by firmware on single-core microcontrollers.  What is
hard to test is therefore not parallelism but *interrupts*: a handler may run
between any two statements of the main loop, suspends it, and returns before it
goes on.  Where a library is meant to be used from interrupts, its model has one
action per statement that touches shared state, and interrupt levels.

## Inventory

| Part | State | Operations | Hard behaviour | What makes it correct |
|---|---|---|---|---|
| `ring-buffer` | `start`, `size`, `data`, two callbacks | push, pop, read, peek at both ends, clear, three queries | handlers between any two statements; critical section with a shared PRIMASK global; wrap-around | linearizable bounded deque; PRIMASK restored; stored items not overwritten |
| `ucli` FSM, event | state, one-place event, line buffer | `ucli_routine`, `ucli_receive_data`, `ucli_init` | receive interrupt inside a state function; a line takes several routines | every accepted character handled once, in order; goes on listening |
| `ucli` parser, dictionary | 15 buckets of 5 pairs, token array | add, get, contains, parse | full bucket, duplicate names, unterminated tokens | finite map; a line is parsed to its tokens |
| `errorlib` | a counter per error, expired count, first expired error | set, reset, queries, init | long sequences of set and reset; init on used counters | expires exactly at the threshold; nothing changes after the first expiry |
| `min-heap` | array, size | insert, remove at any index, top, find, clear | sifting in both directions after a removal | heap order, the items are a bag |
| `blinky` | pattern, index, time of the last toggle | routine, enable, repeat, reset, set_pattern | 32-bit tick wraps; the pattern changes under the index | each phase lasts its interval; the state is that of the phase |
| `can-manager` | message table, flags per FIFO | init, config, send, receive callback | the callback runs inside every other function | a new flag comes with the data it announces |
| `m95256`, `eeprom-config` | EEPROM pages, status; config with version and dirty flag | page writes with polling, load, store | power loss inside a write, timeouts | what is read is what was written last |
| `priority-queue` (3 variants) | sorted list over a pool of nodes; circular array with anti-starvation; heap in two arrays | insert, pop, peek | ageing wraps; a full queue; the pool | pop returns a highest priority; no starvation; no node lost |
| `generic-queue` | ring of elements, indices, count | push, pop | memory that ends inside an element | bounded FIFO |
| `can-fifo-queue-legacy` | ring of messages, indices | push, pop, empty, full | producer and consumer interleaved without a lock | linearizable FIFO, messages come out whole |
| `llist-legacy` | doubly linked list on the heap | insert and remove at ends, index, item, rank; find, get, export | long sequences of calls; malloc fails | links coherent; the list is a sequence |
| `cli-legacy` | line buffer, history | `cli_loop`, receive | the array is never cleared; lines recalled, edited and recalled again | edits do what the keys say; the history is the lines entered |
| `bms-monitor/ltc6811` | none (arrays of the caller, registers of the chips) | encode writes, reads and conversions for a chain, decode answers | frames shift through the chain; lost frames; bit fields across bytes | entry d of every array is chip d; a command is the one asked for |
| `mcp23017`, `pid`, `pwm`, `logger`, `invlib`, `timer-utils` | little | register access, arithmetic, formatting | - | - |

`Unity`, `CMock` and the vendored test code are third party, `scripts` and
`docs` are not programs.

The libraries hardly call each other: `ucli` keeps the line in a `ring-buffer`,
`eeprom-config` stores with `m95256`, `cli-legacy` uses `llist-legacy`, and `pwm`
uses `timer-utils`.  Everything else meets in the program that uses them: an
interrupt handler calls `ring_buffer_push_back` or `ucli_receive_data` while the
main loop is inside another call, and callbacks (`cs_enter`, `compare`,
`enable_receive`, `send`) go back from a library to the program.

## Modules

| Module | Role |
|---|---|
| `DequeOps` | names of the operations and return codes, shared by the next two |
| `Deque` | abstract: a bounded double-ended queue whose calls take effect at one instant between call and return |
| `RingBuffer` | `ring-buffer.c`, one action per statement, at `MaxLevel + 1` interrupt levels |
| `RingBufferProofs` | its inductive invariants, and that it implements `Deque`, proved |
| `LineEditor` | abstract: characters accepted and handled one at a time, lines answered once |
| `UcliDictionary` | `ucli-dictionary.c`: names and functions in buckets |
| `Ucli` | `ucli-fsm.c`, `ucli.c` and `ucli-parser.c` on it: the state machine, the event, the receive interrupt, the tokens of a line |
| `UcliProofs` | the prompts, the types, and that it implements `LineEditor`, proved |
| `ErrorMonitor` | abstract: an error expires at its threshold, the first one counts |
| `ErrorLib` | `errorlib.c`, one action per function |
| `ErrorLibProofs` | types, and the refinement of `ErrorMonitor`, proved |
| `PriorityBag` | abstract: a bounded bag whose top is a least item, and of which any item can be removed |
| `MinHeap` | `min-heap.c`, one action per call and per turn of a loop |
| `MinHeapProofs` | its inductive invariant, and that it implements `PriorityBag`, proved |
| `M95256` | `m95256.c` transaction by transaction, and the EEPROM chip |
| `ConfigStore` | abstract: a configuration in memory and its copy in the EEPROM |
| `EepromConfig` | `eeprom-config.c` on `M95256`, with power loss |
| `EepromConfigProofs` | its inductive invariant, and that it implements `ConfigStore`, proved |
| `AgingQueue` | abstract: a pop ages what it finds and serves a highest node of it |
| `FastInsert` | `priority_queue_fast_insert.c`: insertions from a handler, the pop turn by turn |
| `FastInsertProofs` | its inductive invariant, and that it implements `AgingQueue`, proved |
| `RegisterBank` | abstract: arrays of entries and a chain of chips, frames that are lost |
| `Ltc6811` | `ltc6811.c`: the encodings and decodings, byte by byte, the commands, the chain, and the error code with its table |
| `CanManager` | `can_manager.c` on an STM32, the receive handler and a main loop that reads |
| `CanManagerProofs` | its inductive invariant and `NothingMissed`, proved |
| `RankedQueue` | abstract: a bounded queue with integer ranks that come forward at every service |
| `GenericQueue` | `generic_queue.c`; a `RankedQueue` of one rank |
| `PriorityQueue` | `priority_queue.c`: the sorted list, its pool, priorities that wrap around |
| `CanFifoQueue` | `can_fifo_queue.c`, one action per statement on each side; a `Deque` of two contexts |
| `ItemList` | abstract: a sequence with the calls of the list |
| `LList` | `llist.c`: head, tail and the links of every node |
| `PriorityHeap` | `priority_queue_heap.c`: a `PriorityBag` of pairs of priority and element |
| `LampSchedule` | abstract: a lamp that goes through the phases of a pattern in real time |
| `Blinky` | `blinky.c` with a time that wraps around |
| `CommandHistory` | abstract: a line with a cursor, keys of several characters, the lines entered before |
| `Cli` | `cli.c`: the array of a line and the loops over it, keys, the history, the receive interrupt |
| `SmallLibraries` | the five containers, the led and the older command line beside each other: a behaviour is about one of them |
| `SmallLibrariesProofs` | the inductive invariant of each of the seven, and that it implements its abstract specification, proved |
| `MC...` | constants of the small instances |

Definitions named in comments as bugs (`IsFullLate`, `DoDropLeaves`, ...) are not
part of any specification.  Each is a plausible mistake in the definition that
follows it, with the same parameters; put in its place it makes the property that
`PROJECT.json` names fail, which shows that the property depends on that code.

### RingBuffer

`start`, `size` and `data` are the fields of `RingBufferInterface`; `data` is a
function on the slots and an item a value, so `data_size` and the byte
arithmetic disappear.  `masked` is PRIMASK, `primask` the global variable of the
critical section in the README of the library, `appMasked` whether the program
itself has masked interrupts.  `pc[l]` and `frame[l]` are the next statement of
interrupt level `l` and the locals of its call.  Level 0 is the main loop.  A
level runs when no higher level is inside a call (`Running`), and a handler
starts only when interrupts are not masked: handlers nest, they do not
interleave.

A statement that reads or writes a shared field is an action: `SavePrimask` and
`DisableIrq` are `cs_enter`, `Check` the test for FULL or EMPTY, then the
statements of each function in the order of the code (`push_front` moves `start`,
grows `size` and copies; `push_back` computes its index, copies and grows), and
`Exit` is `cs_exit`.  Two tests that read the same field in one expression are one
action.  `is_empty`, `is_full` and `size` load the size without critical section
(`Query`), as in the code.

`Protected = FALSE` stands for callbacks that are NULL; then the assumption
leaves only the main loop, since the library promises nothing else.  Calls with a
NULL handler or a NULL item return before they touch anything and are left out; a
pop with a NULL `out` does something, and is in.

### LineEditor and Ucli

`state` is `ucli_state`, `managed` and `event` the fields of
`ucli_triggered_event`, `buffer` the sequence the ring buffer implements, `parsed`
the line between `do_parse` and `do_exec`.  A state function is one action, except
where it calls `ucli_event_status_reset`: that function arms reception and then
sets `managed`, and the interrupt may come in between, so it is two more actions
(`EnableReceive`, `SetManaged`); the transition function follows.  `armed` and
`register` are the UART as the example in the README of `ucli` uses it.
`preemptive` says whether interrupts come inside `ucli_routine` or only between two
calls; it does not change, and both cases are initial states.  `Restart` of the
abstract editor is another `ucli_init`, which drops the line and not the character
that is pending.
`handled`, `prompts` and `reply` are the output of the program, reduced to what
the properties tell apart; echo and message texts are left out.

`AddCommand` may come whenever the main loop is between two routines: the names of `Offers`
are added in any order, also twice and to a full bucket, which drops the pair.  `buckets` keeps
every slot, so that the first pair of a name is the one found; `registry` of the abstract
editor is the finite map that this comes to.  `Lexer` turns the line into tokens, of type
command if the dictionary knows them and argument otherwise; `Parsed` is the command with the
arguments that `do_exec` hands to its function.  The hash is an operator of the instance: two
names in one bucket are the case that matters.

A line of `UCLI_BUFFER_LEN` characters leaves the array handed to the parser
without terminator (`RunsOff`).  What is read behind it is not determined by the
code.  `Tokens` therefore allows the last token to go on as any name that it begins,
or as a word that is no name (`Junk`), and what follows may hold one more word.

### ErrorMonitor and ErrorLib

`errors` are the program's counters, `expired` and `expiredError` the fields of
the handler, `answer` what the last call returned.  The comparison with the
threshold goes through `(int32_t)`, which `Int32` models with a width of its own
(`MaxInt`).  `errorlib_init` clears the handler and not the counters;
`CallerClears` says whether the program clears them then, as the tests do.

### PriorityBag and MinHeap

`data` and `size` are the fields, `cur` is the local `cur` or `index` of the loop
that `pc` names.  The item removed stays in the slot behind the heap while the
direction is chosen, as in the code.  `compare` is a total preorder given by a
key.  A removal answers with its index and the item, so `PriorityBag` says which item that is
at index 0 (a least one), and that it was in the bag at every other index.  In the last step
the code tests the left child and swaps `child`, which may be a different one if both children
exist; `Last` does the same.

### ConfigStore, M95256 and EepromConfig

`M95256` has one action per transaction between chip select low and high, and `pc`
is the transaction to come; what the driver computes before it (how
`m95256_WriteBuffer` cuts a buffer into page writes, `Chunks`) belongs to the
action.  The chip is modelled from how the driver uses it: a write enable latch, a
burst that is being programmed, during which every instruction but RDSR is ignored,
the roll-over at the end of its page, and that an instruction sent while the chip is
still selected is taken for data.  `reliable` separates two worlds: transfers that
succeed and polling that ends in time, or any transfer failing and any wait running
into its timeout.  `HAL_SPI_Transmit` of no byte returns `HAL_ERROR`, as the HAL
does; so a write that begins and ends with a page stores every byte and reports failure, which
`ConfigStore` has as `FillsPages`.  `Error_Handler`, which loops for ever, is `pc = "halted"`.

`EepromConfig` adds the configuration: `layout` is its address and size, `version`,
`data` and `dirty` its fields, `step` the function in progress.  `PowerLoss` may come
at any moment: any subset of the bytes being programmed is stored, RAM is lost, and
the next `Boot` may be of a firmware of another version.  Locals are forgotten when a
call returns.

### AgingQueue and FastInsert

`head`, `tail`, `bufFull` and `pivot` are the fields of `_PQFI_HandleTypeDef`.
`PQFI_insert` is one action, for it is what a handler calls; `PQFI_pop` is one action
per statement or turn of a loop that touches the queue, so a handler may insert between
any two.  `buf_full` is written by both contexts: `_advance_cursor` clears it before it
moves `head`.  A handler that inserts into a full queue in between would leave `head`
equal to `tail` with the flag clear, and every node would be lost.  The model therefore
has two kinds of program, `preemptive` or not: one whose handler inserts during a pop
and always leaves one slot free, and one that fills the queue but inserts between two
pops.  `Age` is the callback `anti_strv_fn`.  `Strict` is the comparison of the caller:
`>` as the header asks, or `>=`.  A pop that begins on a full queue finds `head` equal to
the copy of `tail`, ages nothing and may serve any node; `AgingQueue` says so.  Its bags say of every node how
many times it waits: of those the pop knows, as they are once all of them are aged, and of
those behind them.

### RegisterBank and Ltc6811

A behaviour is about one register group, about the commands, or about the error code.  For a
group, `regs` holds its six bytes in each chip, `given` the array passed to an encode function,
`table` the array passed to the decode function.  `Layout`, `Template` and `Number` are the
chip's documentation; the `Encode...` and `Decode...` operators and `Command` are the
arithmetic of the code, so that the refinement, which reads `regs` through `Layout`, checks
every shift and mask.  `Write` pushes the frames through the chain, `Read` receives one frame
per chip, and any frames are lost (`arrived`).  `Convert` encodes one request, of any of the 12
conversions with all their options or the 24 commands without, and `Fits` is how a chip
recognises it.

The error code has its table of 256 words as the code has it, on 16-bit words, and next to it the
15-bit shift register of the chip.  `Receive` is one frame from a chip with some bits changed
(`Noise`): `NoiseNoticed` says that the table and the register agree on every byte, and that
the change is seen.  Losing a frame in the behaviours about groups stands for this.

`wrsctrl` and `wrpwm` send the first entry first, so that it ends in the last chip; `Sent`
says so.  `RDCOMM` is decoded right for one chip only, and status group B into an array emptied
before, so the instance keeps to these (see Findings).

### CanManager

`library` holds the globals of `can_manager.c`: the peripherals in the order of
`can_mgr_init`, the owner of each FIFO number, the tables with their flags and sizes.
`errorCode` and `halCode` are the two globals with the same names; `answer` is what the
last call returned.  `Callback` is one action: it is the handler, and nothing interrupts it
that shares more than `errorCode` with it.  The main loop clears the flag of a message
and copies it in two steps (`Look`, `CopyHead`, `CopyData`); the library leaves that to the
program, so these steps and the hardware are external.  `NothingMissed` says what makes
this order of the reader work: what it copied while the handler stored something else
has its flag set again.

Programs are assumed to configure a peripheral before they start it, to give each a FIFO
number of its own, and, as the comment above `can_mgr_config` says, to use size 0 with no
table and a filter.  A table NULL without filter makes the handler return with the message still in
the FIFO, and the interrupt pends again.

### The containers

Each is translated on its own, and keeps its pointers and indices: the refinement mapping, not
the model, turns them into a sequence or a bag.

- `CanFifoQueue` has an action for each statement of `CANFQ_push` and `CANFQ_pop`, down to
  the copy of each field of a message.  The two sides interleave freely, which includes an
  interrupt on either side.  The statements of one side take effect in their order; `head` is
  written by the producer only and `tail` by the consumer only, which is why no lock is
  needed.  The abstract side is the `Deque` of the ring buffer, with a context for each side,
  a push that takes effect when `head` moves and a pop when `tail` moves.
- `GenericQueue` counts the element before it copies it, so it serves one context, and each
  call is one action.  The memory given may end inside an element.
- `PriorityQueue` uses the comparison that `PQ_init` installs for integer priorities, a signed difference, and
  after every pop an operation that decrements.  Priorities are unsigned and pass
  below zero; `Signed` is the cast.  `RankedQueue` has integers instead.  Payloads are assumed
  to be no larger than a pointer (see Findings).
- `LList` has a heap of nodes of which `malloc` may return any, and none when it is used up.
  `asked` keeps the last call, so that `ItemList` has to answer the same call.  `Sizes` is
  how many values `size_t` has: `count - 1` on an empty list wraps around.
- `PriorityHeap` exchanges elements through the place behind the last one, which belongs to
  the state.  `Compare` is any of the four comparisons of the header; `Worth` is the number
  that makes it one order for `PriorityBag`.

### LampSchedule and Blinky

`handler` is the struct, `clock` the time that the program passes to `blinky_routine`, modulo
`Modulus` (2^32).  `watch` counts how long ago the last change really was, up to what a counter of
that width can tell, and is what the schedule is about: `LampSchedule` knows neither the
clock nor its wrap-around.  `blinky_routine` is called at any time, also never.
`blinky_set_pattern` keeps the index; where the new pattern has no such phase, `Expired` is either,
for the code reads behind the pattern, and so is `Over` of the schedule.  After `blinky_init` and
`blinky_reset` the last change is taken to be at time 0, whenever that was: the first phase lasts
until an unknown time (`Unknown`).

### CommandHistory and Cli

`cmd` is `current_command`: index, terminator and what lies behind it are kept place by place,
and the refinement reads the line up to the terminator.  `CloseUp` and `OpenUp` are the loops of a
deletion and an insertion, which call `strlen` on the array that they change.  `cli_loop` is
two actions, the reception of a character and the rest, since that is where the receive interrupt is
armed.  A character that comes during the rest is looked at in the next call.  `history` is the
list that `LList` shows to be a sequence, with the empty entry in front; `Junk` is what
`malloc` may leave in that entry besides its index and first character: a state of the keys, and
text, up to the last byte.  Of that memory two things are assumed: `escape_state` is one
of its three values, and the text has none of the characters that `cli_clean` or `cli_char_receive`
test for (`\b`, Esc, `\n`, `\r`), nor blanks.

A deletion closes the line up to the first terminator behind the cursor (`Closes`).  At the end of
a line there may be none: where the line goes back to the empty entry, whose array `malloc` left
without one, the loop runs out of the array, and the model ends there (`LoopLost`, `Lost`).

`\n` and `\r` look at the character before the cursor.  Neither is ever stored, so `\n` has no effect
and `\r` removes nothing; before the first character they look at the byte in front of the array,
one of `escape_state`, which holds neither value.

The abstract side is a line as a sequence with a cursor, and the lines entered.  Each character
is accepted once, each key acts once, and what is recalled is what was entered, with the mode the
keys were in.  Two things it leaves open, because the code does: which mode the empty
entry brings, and what a deletion at the end of the line appends.  `origin` tells a line whose array
ends in a terminator (`"cleared"`) from one that goes back to the empty entry and may not
(`"junk"`); only on the latter, and only at its end, a deletion may lead away (`Lose`).

Lines have no blanks, so `cli_clean` and `_cli_get_args` find one word, and are shorter than the
array by two characters (see Findings).

## Runs

| Run | Instance | Shows |
|---|---|---|
| `ring_buffer` | 2 slots, 2 items, main loop and a handler, fairness | linearizable deque under interrupts; no stored item overwritten; critical sections exclude each other, PRIMASK is restored, and always in the end; the inductive invariant `RInv` |
| `ucli_editor` | a buffer of 4 characters, 2 names in one bucket of 2, 3 pairs to add; interrupt anywhere or between routines, one more `ucli_init` | refines `LineEditor`; one prompt per line; every event managed; goes on listening if interrupts come between routines |
| `ucli_lost_wakeup` | the same, interrupt anywhere | a violation, see Findings |
| `errorlib` | thresholds 3, 1, 0; 3 instances; calls out of range | refines `ErrorMonitor`, with the answer of every call; types |
| `min_heap` | 6 slots, 3 items of which 2 compare equal | heap order, bag, the inductive invariant `IInv` |
| `eeprom_config` | pages of 3 bytes, 6 on the chip, 12 cells, 1-byte version; 8 places of the configuration, 2 of them also with faults | refines `ConfigStore`; the inductive invariant `Inv`: types, the paging of a write, what each step relies on; calls return |
| `eeprom_transfer_fault` | one place, with faults | a violation, see Findings |
| `fast_insert` | 4 slots, 4 messages, 3 priorities, `>=` | refines `AgingQueue`; the inductive invariant `Inv`: types, no node lost to a handler, sorted up to the pivot; pops return |
| `fast_insert_strict` | the same, `>` | a violation, see Findings |
| `ltc6811` | chains of 2 (of 1 for COMM), 3 bit patterns, all commands; one frame with no, one or several bits changed | refines `RegisterBank`; a chip takes a command for the one asked for; the error code tells changed frames |
| `can_manager` | 2 peripherals and FIFOs, tables of 2, 3 identifiers, 2 messages, any HAL call failing | a message without flag has been read whole (`NothingMissed`); each is stored where it belongs, and all that makes it so (`Inv`, inductive); the program comes to hold the latest |
| `small_libraries` | CAN queue of 4 slots with messages of 2 fields; 7 bytes for elements of 2; 3 nodes of 4-bit priorities; 3 list nodes, 3-bit `size_t`; heap of 4 with `PQH_LE`; 3 patterns, time modulo 8; lines of 2 characters in an array of 4, 2 of them kept before the last, `malloc` leaving each state of the keys and an array without terminator | each library refines its abstract one; nodes of the pool and links of the list stay coherent (`MemoryKept`), nobody waits for ever |

Why the bounds are enough to meet the interesting cases:

- Two slots make `start` wrap with the buffer empty, half full and full, and two
  items tell an overwritten item from the right one.  Three slots were checked too, and
  take six times as long; the proofs are for every capacity.  One
  handler that calls every operation between any two statements is enough to interfere
  with a call.  A second, nested one matters for the shared `primask` (a handler that
  interrupts the handler that interrupts `cs_enter`); it is not among the runs, but the
  proofs below are for any number of levels, and for `Protected = FALSE`.
- A line of four characters has room for two tokens with a space, for one
  command that is a prefix of the other, for a full line that runs off its array and for one
  character more.  Three pairs for a bucket of two slots meet a full bucket and a name added
  twice.  `MaxReinits` bounds the calls of `ucli_init`: one may come in every state.
- The thresholds are the two edges and one that takes several sets; two instances
  reach it side by side in any order.
- Six slots are the smallest heap in which a removal moves the last item up (it
  has to come from the other subtree), and contain inner nodes with one and with
  two children.
- The places of the configuration cut the buffer in every way `m95256_WriteBuffer` knows:
  one page, whole pages with and without a rest, a part of a page before whole pages, across a
  page of the chip.  Two byte values and two versions tell old from new.
- Four slots of the queue let the pivot, the copies and `tail` wrap, with room for a node
  inserted during a pop behind one that waits behind the sorted ones.  Three priorities are
  needed to age past each other; two items of equal priority tell ties apart.
- Two messages for two peripherals with a FIFO of one let the second overtake the copying of
  the first, be lost in a full FIFO, or go to the other peripheral.  Identifiers are kept,
  ignored, or given an index behind the table.
- Each bit is set in one pattern and clear in another, and no two bytes of a pattern are
  alike except in the one of zeros, so a byte or a bit in the wrong place shows.  Two chips are enough to exchange,
  lose or repeat a frame.  The noise has every single bit, every pair with the first bit, and
  bursts up to the length of the code; every byte value is sent once, so that every entry of
  the table is read.
- Four slots of the CAN queue let both indices wrap with none, one, two and three messages
  stored, and two fields are what can be torn.  Half an element behind the third tells the end
  of the memory from the end of the elements.
- Three nodes are a head, one in between and a last one.  Priorities of four bits reach up to
  the highest that the assumption admits (5 + 2 < 8), and zero, from which ageing goes below.
- Three nodes of the linked list make its two ends walk different ways to an index
  (`count / 2`), with one in between; two of the three items are equal.
- Four places of a heap have an inner node with one child and one with two.
- Time modulo 8 with intervals up to 3 wraps between two changes and outlasts every interval
  several times.  The patterns have one, two and three phases, one of no length, so that the index
  can be kept over a change to a shorter one.
- Two characters in a line have a place before, between and behind them, and an array of four
  keeps old text behind the terminator.  With two lines kept, and one entered on top, a line
  is recalled, edited, entered and recalled again.  The letters that end a key are typed only
  within keys, so that they do not fill the lines.

Deadlock is checked in every run but `ltc6811`, where a conversion command ends its
behaviour.

### Fairness

- `Ucli`: weak fairness of the main loop, which calls `ucli_routine` for ever, and
  of `Receive`: a UART armed for a character delivers it.  The user is under no
  obligation.
- `RingBuffer`: strong fairness of `Step(l)` for each level.  A handler may start
  between any two statements of a lower level, which disables that level until the
  handler returns, so weak fairness would let handlers starve the main loop.  Strong
  fairness says that interrupts leave the main loop some time, as they must in any
  program that works.  `AppMask` and new calls need not happen.

- `EepromConfig`: weak fairness of the main loop inside a call, and of the chip, which
  ends programming.  Power may fail at any time and need not.
- `CanManager`: weak fairness of each handler, and of a main loop that has begun to copy;
  strong fairness of `Look` at each entry, since a loop that goes through its table comes back
  to every entry although it is elsewhere in between.
- `FastInsert`: weak fairness of the pop.  Insertions during a pop are finitely many, for each
  takes a slot.

## Proofs

Each theorem is of the form `Spec => ...` (or with a named assumption in front) and holds for every
value of the constants that the `ASSUME` of its component admits.  Where the
inductive invariant is a property of a run, the table above says so; those of the seven libraries in
`SmallLibrariesProofs` rest on the proof alone, while TLC checks what follows from them.

### RingBufferProofs

For every capacity, set of items and number of interrupt levels.  `Invariance` is
`Spec => []IInv`; from it `TypeCorrect`, `Exclusion` and `MasksRestored`.  `TypeOK` alone is
not inductive: `++size` keeps it only if the buffer still is not full, which was tested several
statements earlier.  `Flow` says what each statement may rely on (the test still holds, the
computed index is inside the array); that a handler has not changed it in between is `Excluded`: a
level in its critical section has masked interrupts and suspended the lower levels, so no other
level is in one.  `MaskRestored` needs `Saved`: from `primask = __get_PRIMASK()` to `cs_exit` the
global equals the mask of the program, although handlers may overwrite it between `cs_enter`'s two
statements; they run only when interrupts are unmasked, and so store the same value.

`HandInvariance` adds what each level has in hand (`RInv`): the index it will use is the one its
operation means now, the item it has copied is in its slot, and a call that has not taken effect
yet returns nothing yet.  `Linearizable` is the refinement of `Deque`: the contents are the slots
from the start of a window (`Window`), which differs from `start` and `size` while an operation
at the front or a `clear` is half done.  Every statement either leaves the window and what is in it,
and the view of all other calls (`OthersKept`), or is the one at which the call takes effect.
`ItemsStay`: no statement writes a slot inside the window (`StoredItemsStay`).

### UcliProofs

For every set of characters and names, every hash that gives natural numbers, every number and size
of the buckets, every buffer length; `Junk` is assumed to be no name.  `Prompts` follows the prompts
through the states and through the two statements of `ucli_event_status_reset` (`PInv`), for
`PromptOncePerLine` itself speaks only of the end.

`Implements` is the refinement of `LineEditor`, by the invariant `UInv`, which has three parts
besides the prompts.  `TypeOK` (`TypeCorrect`).  `Dictionary`: the used pairs of a bucket come
first, so a name that is added twice comes behind its first pair, which is the one that is found
(`KnownIs`, `AddIs`).  `Flow`: what is in the line, the token list and
the event in each state.  The main argument is that the tokens of `strtok` are the words of the
line (`TokensAreWords`): the n-th word begins at the n-th start of a word, which is found by
counting ranks (`NthExists`), and `EndIs` ties the end that the scan reaches to the end of the same
word.  The token array is long enough, for each further word ends at least two places on.
From there, each reading of the line behind an unterminated array is one of those that the editor
allows (`ParsedIs`), and every step maps to a step of the editor or changes nothing of it
(`StepMaps`).

### ErrorLibProofs

For every number of groups and instances and all thresholds: `TypeCorrect` (no counter passes
`INT32_MAX`, at most one error expires), also for thresholds beyond `INT32_MAX` and counters that
survive `errorlib_init`; and `Implements`: if thresholds fit in `int32_t` and the program clears
counters with `errorlib_init`, the library implements `ErrorMonitor`.  The invariant `Faithful`
ties counters to the first expiry: below its threshold until it becomes -1, and only the remembered
error is -1.  Without the two assumptions the refinement is false.

### MinHeapProofs

For every capacity and every total preorder: `Invariance`, and from it `TypeCorrect` and `Order`.
During a loop the heap order is broken at one place: between `cur` and its parent on the way up,
between `cur` and its children on the way down.  Swapping there keeps the order around it only
because the children of `cur` are not less than the parent of `cur` (`Bridged`), which is the part
that is easy to miss and makes the invariant inductive.

`Implements` is the refinement of `PriorityBag`.  That the first item is a least one (`TopLeast`) is
an induction along the parents, done as a least counterexample.  That no item is lost or doubled is
about the number of slots that hold it: a swap permutes them, an insertion adds one and a removal
takes one away, by the theorems about `Cardinality`.

### EepromConfigProofs

For every geometry of the chip, every place and size of the configuration, and every set of
versions.  `Invariance`: `Inv` is inductive.  `Chunking` is the paging of `m95256_WriteBuffer`: the
pages it cuts a buffer into follow each other, cover it exactly, and none crosses a page of the
chip; this is arithmetic with quotients and remainders (`Products`, `Divided`, `DividedOnce`) over
the five cases of the code.  `Call` and `Progress` say which part of the buffer is on the chip
when the transaction in `pc` begins.  The attempt found that `TypeOK` was too strict: the
address behind the last page of a buffer at the end of the chip is its size.  `Implements` is the
refinement of `ConfigStore`, including power loss inside a page and, where transfers may fail, all
that the abstract store then allows.

### FastInsertProofs

For every capacity, set of priorities and messages, every monotone ageing function, and handlers
that insert during a pop or not.  `TypeCorrect` holds for both comparisons; it needs `Filling`, that
no insertion during a pop makes `head` and `tail` meet.  `Invariance` assumes `~Strict`, the
comparison `>=`, and is false with `>` (`fast_insert_strict`).  `Turns` says that the place
looked for is at or before the node, whose own slot stops the search, and that all before it are at
least as high.  `Sorting` is the sorted prefix, seen through the ageing that is still to come
(`PrioritiesAged`), which is where monotone ageing is used; and in the last statements of a pop,
seen from the next head.  `PopServesHighest`: a pop that did not begin on a full queue takes a
node that is as high as any of those it found; that the first of the sorted prefix is the highest is
again a least counterexample.

`Implements` is the refinement of `AgingQueue`, for `>=` too.  The slots fall into those the pop
knows (`Front`) and those filled since (`Back`), by their distance from `head` (`Reach`), and the
abstract bags count how many slots of each hold a node (`Mapped`).  Counting over slots gives
what each step does to the bags: a swap inside a region changes nothing (`BagSwaps`), a turn of the
ageing changes a node that the bag already counts as aged (`MapAge`), an insertion adds a node
behind the regions (`BagGrows`), and the end of a pop unites them without the first slot
(`BagUnion`).  That the bag of the aged nodes is the aged bag, and that its nodes are as many as
the slots, follows from a bijection between the copies of a bag's nodes and the slots that hold
them (`CopiesAreSlots`).  `Chosen` carries the choice of the node to the end of the pop.

### CanManagerProofs

For any number of peripherals and FIFOs, any table sizes, identifiers and index functions, and
however much comes in.  `Invariance`: `Inv` is inductive.  `NoMessageMissed` (`NothingMissed`), that
a message without flag was read whole, needs `Copying` (as long as its flag is down, the half of
a message that is copied is still the one of the table) and `Assigned` (the handler of a
peripheral finds its own table whatever other peripherals were initialised).

### SmallLibrariesProofs

The seven libraries share nothing, so `Kept` is the conjunction of an inductive invariant of each,
and each refinement is proved from its own part.  `LibrariesKept` is `Spec => []Kept`; from it
follow `NoMemoryLost` (`MemoryKept`), `NobodyOvertakenForever` (`WaitBounded`) and the seven
refinements.

- `CanFifoLinearizable`, for every size of the array, set of messages and number of fields: what a
  side has copied so far is the message it copies, the result of its test still holds whatever the
  other side does in between, and the slots between `tail` and `head` hold whole messages
  (`Can!Inv`).  They are a sequence, which grows at its end when `head` moves and loses its first
  message when `tail` moves; no statement of one side changes the call of the other.
- `GenericInOrder`: `tail` is always as far behind `head` as there are elements counted (`GenInv`),
  modulo as many as fit whole; memory for none of them is a case of its own.
- `PriorityInOrder`: there is an order of all nodes of the pool such that the first ones are the
  list and the others the free nodes (`PqPool`), and ranks for the listed ones, sorted, less than
  `Capacity` apart from zero on either side, whose residues are the priorities (`PqRanked`).  Within
  that distance the signed difference of two residues is the difference of the ranks, which is what
  the assumption on `Priorities` is for.  `PoolKept` and `WaitBounded` follow from it.
- `ListInOrder`: one order of the allocated nodes is read along `next` from `head` and, backwards,
  along `prev` from `tail` (`LlAt`), and has `count` nodes.  Each of the ways in which an insertion
  or a removal changes up to four links is shown to put a node in this order or to take it out
  (`LlPutsIn`, `LlTakesIn`); a walk from either end reaches the same node.
- `HeapServesBest`: between two calls no entry precedes its parent; while one moves, only its own place
  is out of order, and its children do not precede its parent (`HpInv`).  That the top is
  preceded by none is a least counterexample along the parents; the bag counts, for each pair of
  priority and element, the places that hold it.
- `BlinkyInTime`: the time kept since the last change equals the difference of the two ticks modulo
  the width (`LedInv`), and the state is the one of the phase.
- `CliRecallsLines`: the line ends two places before the end of its array or earlier, whatever is kept
  behind its terminator, the last place included (`ClWhole`), and the cursor is on it; every entry of the history but the first is such a
  line with the cursor at its end, kept outside a key (`ClKept`).  What the loops of an insertion and a
  deletion do to the array is what `ClOpened` and `ClClosed` say, place by place; from that the
  line is the sequence the editor has (`ClLineOpened`, `ClLineErased`), and a deletion at the end
  leaves what was before it (`ClLineLeft`).  Nothing ever writes the last place (`ClClosed`, `ClOpened`), so
  a deletion finds a terminator at the latest there if the array began with one, and one
  that finds none is at the end of a line that goes back to junk (`ClLostRefines`).  The proof found that a line `?`, which text left behind
  an old terminator may become, cannot be told from an empty line by what is run;
  `CommandHistory` now says that an empty line runs `?`, as the code does.

What the recursive functions of the models (`From`, `Follow`) give is not proved by induction over
data: `WalkIs` shows that only one function satisfies their recursion, by a least difference, and a
function read off the order of the nodes does.

### Only model-checked

- What needs `Bitwise`, whose operators are recursive: `Ltc6811`, with `TypeOK`, `ConvertsAsAsked`,
  `NoiseNoticed` and the refinement of `RegisterBank`.
- Liveness (`InterruptsComeBack`, `EveryEventManaged`, `ListensWhenPolled`, `CallsReturn`,
  `PopReturns`, `CatchesUp`): `tlapm` proves neither liveness under fairness nor `ENABLED`.

Induction over numbers and sets, where a proof needs it, is a least counterexample: a non-empty set
of naturals has a least element (`LeastOf`, by `WFMin`), for the induction theorems of the
library take an operator, which the provers cannot instantiate.

## Findings

- `ucli_event_status_reset` arms reception before it sets `managed`.  A character that
  arrives between the two statements is dropped by `ucli_event_trigger`, the
  interrupt has disarmed reception, and no state function ever arms it again: the
  interface stops listening.  `ucli_lost_wakeup` shows the behaviour; the README of
  `ucli` recommends this use of interrupts.  When characters arrive only between
  two calls of `ucli_routine` (`ListensWhenPolled`), it does not happen.
- `EEPROM_config_write` may return true although nothing was stored, when a transfer fails or a
  wait times out: `memcmp` compares the version only, a failed read-back falls through to
  `return true`, and the driver ignores the result of its waits (`eeprom_transfer_fault`).
- With the comparison that `priority_queue_fast_insert.h` asks for, the search for the place
  of a node has nothing to stop at when all others are as high: it goes on through slots outside
  the queue, and `PQFI_pop` serves a slot in which nothing was inserted
  (`fast_insert_strict`).  Nothing in the repository calls `PQFI_init`; with `>=` the
  search ends at the node itself.

Seen while modelling, without a run of their own:

- `m95256_WriteBuffer` ends an aligned buffer of whole pages with a page write of no byte, which
  the HAL refuses: `EEPROM_config_write` returns false although every byte was stored
  (`m95256.c:130`).  `ConfigStore` has it so.
- `wrsctrl` and `wrpwm` send the first entry first (`ltc6811.c:489`, `:587`), `wrcfg` the last
  one; since frames shift through the chain, each chip gets the data of its mirror image, and
  what is read back comes in reverse.  `RegisterBank` is checked with that order.
- `ltc6811_rdcomm_decode_broadcast` reads every entry from the first frame (`ltc6811.c:1008`);
  `ltc6811_rdstat_decode_broadcast` adds the flags of group B to those the entry holds
  (`:451`); `ltc6811_adow_encode_broadcast` passes the mode where the pull-up belongs
  (`:671`).  The models do the same; the passing run promises nothing of it.
- `PQ_insert` copies the payload over the pointer that `PQ_init` filled: a payload
  larger than a pointer, as in the tests, runs into the next field, and the memory allocated for
  it is neither used nor freed.  The model takes payloads that fit.  `PQ_init` does not look at
  what `malloc` returns.
- The default comparison of `PQ_init` is a signed 16-bit difference: with priorities from
  2^15 less the length of the queue on, it turns round (`priority_queue.c:26`).
- `PQH_top` of an empty queue reads memory that no insertion wrote; the model says that it is empty.
- `GENQ_push` counts the element before it copies it, and `CANFQ_push` is safe for a single
  producer only.
- `PQFI_pop` neither ages nor, without an earlier pop, sorts a full queue, and a handler that
  inserts into a full queue during a pop loses every node.
- `can_mgr_config` and `can_mgr_start` store the status of their HAL call as error code and test
  the status of an earlier one: a failed start returns 0, and a good one after a failed
  transmission -1 (`can_manager.c:72`, `:85`).
- `errorlib_error_set` counts with `++` on shared counters (`errorlib.c:48`), so a call from an
  interrupt may be lost; the model has one calling context.
- `blinky_set_pattern` keeps the index, so that `blinky_routine` reads behind a shorter pattern
  (`blinky.c:60`).  A phase of no length ends at the first look at it.
- The Delete key at the end of a line overwrites the terminator and brings the text behind it back
  (`cli.c:164`).  On the empty entry of the history, or a line edited from it, what is behind is
  memory from `malloc` (`cli.c:37`, `:215`): if it has no zero byte up to the end of the array, the loop goes
  on behind it.
- `llist_find` and `llist_get` leave `*index` and `*node` as they are when they fail, where `llist.h:165` and
  `:175` say 0 and NULL.  The README of `llist-legacy` (line 18) asks for a comparator that returns
  1 if `a < b`, `llist.h:37` for the opposite sign; `llist_insert_priority` puts a node in front of
  the first one for which the comparator is not negative (`llist.c:278`), so the two lead to opposite orders.
- Going down to the empty entry of the history copies a `buffer_t` of which `cli_buf_init` set the
  index and the first character only: `escape_state` comes from `malloc`, and a key may seem to have
  begun or ended (`cli.c:38`, `:216`).  The partial line, for which the comment at `cli.c:35` says that
  entry is, is not kept: nothing stores it there.
- Esc followed by Enter runs the line and goes on waiting for a key; the next character is
  swallowed, and the line carries that mode into the history.
- The insertion of a character into a line of `BUF_SIZE - 1` characters, and the deletion in it,
  touch the place behind the array (`cli.c:314`, `:285`); a `buffer_t` has its `escape` there.  The
  echo of a recalled line has room for 56 characters (`cli.c:122`).
- `cli_loop` starts `HAL_UART_Transmit_IT` on `tx_buf`, an array on its stack, and returns
  (`cli.c:245`).
- `docs/min-heap/operations.md` states the direction in which a removal restores the
  heap the wrong way round; the code is right.

## Not modelled

NULL handlers and arguments (they return before any change), echo and message
texts, `data_size` and byte copies.  `printf`-like formatting and
floating point arithmetic (`pid`, `pwm`, `timer-utils`) are outside what TLC checks.
Of `m95256`: `m95256_init`, `m95256_deinit`, `EEPROM_SendByte` and
`sEE_WriteStatusRegister`; of `eeprom-config`: a set from an interrupt, which nothing in the
repository does.  Of `ucli`: names and tokens of `UCLI_ARGS_LEN_MAX` characters and more, and
the arithmetic of the hash.  Of `ltc6811`: the dummy bytes behind `STCOMM`, what chips answer to
`PLADC` and `DIAGN` and `ltc6811_pladc_check`, addressed commands.  Of the containers: failing
allocation in `PQ_init` and `CANFQ_init`, lists without callbacks, and what the out-parameters of
`llist_find` and `llist_get` hold when the call fails.  That the loop and the recursion of the heap of
priorities end is not checked: the one goes on at the parent, the other at a child.
Of `cli-legacy`: lines that fill the array but for one
character or more, blanks and arguments, `cli_print`, the echo, what commands answer, and what
happens behind a deletion that leaves the array.
`Unity` and `CMock` are third party.  Of the components without a module,
`PROJECT.json` gives the reason for each (`mcp23017`, `logger`, `invlib` among them).

## Plan

1. `Ltc6811` with shifts and masks as quotients and remainders instead of `Bitwise`, so that what it
   encodes can be proved for chains of every length.
2. Full lines and arguments of `cli-legacy`; the rest of `m95256`; the register access of
   `mcp23017`; the list of sounds of `pwm`.
