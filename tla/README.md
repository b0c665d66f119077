# Formal model of the esp32-components collection

The repository is a collection of ESP-IDF components. Nearly all of its bulk is
vendored code (mongoose 6 with the sqlite3 of its examples, the ST VL53L0X API)
or submodules whose sources are not part of it (mongoose 7, frozen, cedux,
libyuarel). Its own code is small: about 1300 lines of C in `webserver-task`,
`utilities`, `logger`, `ledstrips` and `rtc`, and thin wrappers in `vl53l0x` and
`mongoose6`. There are no tests and hardly any documents: what a function
promises is in its header comment.

The project has TLA+ modules for the six parts that keep state, TLC runs on small
instances of them, and TLAPS proofs of every safety property that a passing run
checks.

## Inventory

| component | state | operations | interacts with |
| --- | --- | --- | --- |
| webserver thread (`webserver-task/mongoose7_webserver_thread.c`) | `webserverThreadHandle`, `stoppingTaskHandle`, `gManager`, `gHandler`; the FreeRTOS notification value of each task | start, stop, is_running, set_event_handler; the poll loop of the thread and its event dispatch | called by the webserver task's event handlers or by the application; calls FreeRTOS, mongoose and the application's handler |
| webserver task (`webserver-task/webserver_task.c`) | `webserverControlSemaphore`, registered handlers | webserver_init, two network event handlers | called by the ESP-IDF event loop; calls start and stop under its mutex |
| slist (`utilities/slist.c`) | nodes, `first`, `last`, `count`, `conf`; iterators | new, delete, copy, add, remove, remove_at, clear, count, iterators | used by map and logger |
| map (`utilities/map.c`) | a list of entries | new, copy, add, get, remove, count, iterators | calls slist |
| logger (`logger/logger_service.c`) | list `sinks`, buffer `logger_service_timestamp` | init, log, register_sink, unregister_sink | any task logs; sinks are callbacks; calls slist |
| LED strips (`ledstrips/ledstrips_rmt_driver.c`) | the device, its item buffer; the RMT peripheral | add_device, remove_device, set_colors, set_sequence | the RMT driver transmits the buffer while the caller goes on |
| DS1307 (`rtc/ds1307.c`) | registers and RAM of the chip, which counts on its own | add, remove, get_time, set_time, read_ram, write_ram | I2C driver |
| VL53L0X wrapper (`vl53l0x/vl53l0x.c`) | a handle | add, remove | nothing calls its register access |
| mongoose 6 glue (`mongoose6/esp_crypto.c`) | none | random bytes | mbedTLS |

What is hard in this code:

- The webserver's start and stop take no lock and share two task handles, a
  mongoose manager (mongoose is not thread safe) and FreeRTOS notifications,
  which are counters that any task may raise and that a wait clears. A stop is
  a handshake of two notifications in opposite directions. A failed start has to
  undo what it did. The HTTP event handler is read twice while any task may set it.
- The event handlers wrap this in a mutex and wait without a timeout in the
  task that runs all event handlers of the system. Events come in any order.
- The logger's list of sinks and its timestamp are shared by every task,
  without a lock; a sink may register and unregister sinks while it is called.
- The list's `first`, `last`, `count` and `next` pointers must agree after every
  order of calls; iterators keep pointers across changes of the list.
- The LED driver returns while the peripheral still reads the buffer.
- The clock counts between the calls, a transfer to it may stop in the middle,
  and its registers follow one another without a border between clock and RAM.

What makes each of them correct: the webserver's manager has one user at a time
and is initialised when used, a stop that returns has really stopped the thread,
a start or a stop leaves the server entirely up or entirely down, no
notification is lost, left over or sent to a task that is gone, every stop
returns, and the server ends up as the last network event says. The list is a
sequence, and each call does to it what its header says. The map finds the
first entry with the key, or none. Each registered sink gets each message once,
with its own timestamp. The LEDs show what the calls asked for, and no call
writes outside of the buffer or into a transmission. The clock shows the time
that was set and counts on from it, and the RAM keeps what is written there.

## Modules

| module | models | builds on |
| --- | --- | --- |
| `WebserverThread` | start, stop, the thread and its events, one action per access to shared state | |
| `ManagerOwnership` | abstract: who owns `gManager`, and in which order it is handed on | implemented by `WebserverThread` |
| `WebserverTask` | setup, mutex, event handlers, event loop | `WebserverThread` (INSTANCE) |
| `SList` | the list, one action per write of a `next` or of `first`, and per free | |
| `AbstractList` | abstract: what `slist.h` says; each call takes effect at one moment | implemented by `SList` |
| `Map` | map_add, map_get, map_remove, one action per round of the search loop | the list as `AbstractList` has it |
| `LoggerService`, `MCLoggerService` | logging, registering and unregistering by several tasks | `SList` (INSTANCE) |
| `Ledstrips`, `MCLedstrips` | the LED driver with the peripheral and the chips beside it | |
| `DS1307` | the clock driver, over the chip with its counters and the bus | |
| `WebserverThreadProofs`, `WebserverTaskProofs`, `SListProofs`, `RemoveAtLemma`, `MapProofs`, `LoggerServiceProofs`, `LedstripsProofs`, `DS1307Proofs` | theorems | the module each is named after; `LoggerServiceProofs` also `SListProofs` (INSTANCE) |

Names of variables, actions and operators are those of the source where TLA+
allows. A call that spans several actions has a place per task (`call`, `pc`,
`log`), whose values name the next access. Definitions under "Mutants", and the
ones called a mutant of another, are deliberate mistakes with the parameters of
the definition that they replace; no specification uses them. They exist so that
it can be tested that every property notices a mistake.

### WebserverThread

`call[c]` is where task `c` is in start or stop, `thread[t]` where thread `t`
is in its loop, and `notified` is the notification value of every task.
`xTaskNotifyGive` counts up and faults on a NULL or deleted task;
`ulTaskNotifyTake(pdTRUE, ...)` clears. `gManager` is free, empty, or listening,
since the result of `mg_http_listen` is ignored. A set of task control blocks
bounds how many threads exist; a block is used again after its thread is deleted.
Within a poll, events arrive at `mongoose7_event_handler`, which tests `gHandler`,
reads it again and calls it, while other tasks may set it.

`Next` lets every caller call at any time and the handler be any at any moment.
`SerialSpec` adds the rules that the headers leave unsaid: one start or stop at a
time (`AtMostOneCall`), and a server that runs keeps a handler once it has one
(`HandlerKept`); the handler does not stop the server that called it. All
properties are claimed under them. `WebserverTask` shows that the only caller in
the repository keeps the first (`UsesServerSerially`).

### WebserverTask

The event queue, the WiFi driver (`Post`) and the mutex are external. Both
events may repeat, and early events (before registration) are possible with
`EarlyEvents`; so are handlers that could not be registered ("register" in
`MayFail`), since the code does not look at the results. `network` is the last event posted. ESP-IDF has one task for the
default event loop; the model has a set of them, since the handlers take a mutex
as if there could be more. `SetHandler` is the application.

### SList and AbstractList

`Nodes` is the memory for nodes; `allocated` says which of it is in use, and
every dereference of something else raises `fault`. `call[p]` holds the place, the
arguments and the local variables of the call that task `p` makes. A call is cut
where a task that iterates at the same time could see the difference; what it
does in between is one action. `order` is the auxiliary list of nodes that are
linked. `SList` is a refinement of `AbstractList`: an add takes effect when the node
becomes the last one, a removal when it is unlinked (or when the search ends
without a result), a clear when the last node is freed. `SerialSpec` has calls of
several tasks one at a time, with iterators that stay open while items are
added; nothing is removed while one is open. What an iterator promises is in two
properties: until it is at its end it is in its place (`InPlace`), and it comes to
its end only past every item of that moment (`MissesNone`). It does not promise
more: once at its end, or made for an empty list, it never sees an item that is
added later (`slist.c:302`). `slist_clear` is called by
`slist_delete` only, as everywhere in the repository ("clear" in `Ops` would have it
called on its own).

### Map, LoggerService, Ledstrips

`Map` takes the list as a sequence, since `SList` implements one, and keeps the
assertion of `remove_node` as a parameter. Failing allocations, whose results
map.c does not look at, are a fault.

`LoggerService` runs the actions of `SList` for all tasks at once, without
`SerialSpec`. A sink that is called may register new sinks, and may unregister any
handle, itself included, as the code lets it (`MayChange`). `CarefulSpec` has three
rules for the callers, which the code leaves unsaid: one task registers or
unregisters at a time (`OneChange`); none unregisters while another one is calling
the sinks (`RemovalAlone`); and a sink that is called does not unregister the one
whose turn is next (`NextSinkStays`). Without any one of them TLC finds a fault
(`SinkListSafe` fails); with all three nothing else needs to be excluded. A sink
that logs itself is not modelled: it would call itself again.

In `Ledstrips` a buffer entry is the bits of one LED and the peripheral sends one
LED per step; what the chips show is the decoded bits after a reset. Pulse
timings are abstracted away. Every device is on one RMT channel, so that a second
one aborts.

### DS1307

The chip is external and modelled from its data sheet: seven BCD counters, each
moved on by the carry of the ones before it, a stop bit, a 12-hour mode, 56
bytes of RAM, and a register pointer that goes from the last register to the
first. A transfer arrives whole, or stops after some bytes and is an error. The
driver's conversions are on bytes, bit by bit as in the code. A time is a day
since 2000-01-01 and a second; `localtime` and `mktime` are the C library's, in a
zone without summer time. A clock that was set in part shows a time nobody set;
the model calls it `Unset` and stops it there until it is set again. Writes to the
RAM end where the RAM does (`Fits`): `ds1307_write_ram` looks at the first address
only, and a longer write would go on at the clock.

## Runs

| run | what it checks | instance |
| --- | --- | --- |
| `thread_serial` | type, `ManagerExclusive`, `ManagerLifetime`, `StopMeansStopped`, `NoFault`, `AllOrNothing`, `NoStrayNotification`, `StopReturns`, refinement of `ManagerOwnership` | 3 callers, 2 threads, 2 handlers, listen and task creation may fail |
| `task_safety` | type, `ServerSafe`, `UsesServerSerially` | 2 event tasks, 2 threads, queue of 2, failures (of registrations too) and early events |
| `task_follows` | `FollowsNetwork`, `HandlersReturn` | 1 event task, 2 threads, queue of 3, no failures, no early events |
| `list_serial` | type, `NoFault`, `WellFormed`, `CountCorrect`, `NoLeak`, `InPlace`, `MissesNone`, refinement of `AbstractList` | 2 tasks, 3 nodes, 2 items, no assertions |
| `list_assert` | violation of `NoFault` | 1 task, 2 nodes, assertions enabled |
| `map_search` | type, `GetCorrect`, `RemoveCorrect` | 3 keys, 2 values, 3 entries, memory may run out |
| `map_absent` | violation of `SearchReturns` | the same without failures |
| `logger_careful` | type, `SinkListSafe`, `Delivered` | 2 tasks, 3 nodes, 3 sinks, 2 moments, sinks register and unregister sinks |
| `logger_timestamp` | violation of `TimestampCorrect` | 2 tasks, 1 sink, 2 moments |
| `led_calls` | type, `StaysInBuffer`, `ShowsGoal`, `BufferStable`, `CallsReturn` | 4 LEDs, 2 colours, arrays of 0, 1, 5, sequences of 1, 2, 5, 2 chip types, memory may run out |
| `led_repeat` | violation of `StaysInBuffer` | 3 LEDs, a sequence of 2 |
| `clock` | type, `ClockRuns`, `TimeKept`, `RamKept` | 5 days, 3 seconds of a day, 2 seconds of counting, transfers that fail after 0, 3 or 7 bytes, RAM access at 7, 63 and 64 |

Why the bounds are enough. Two callers are all that a handshake or an overlap
takes, and there is a third one; the second thread lets a new server start before
the old thread is deleted; two handlers can be exchanged for one another. A queue
of two or three events has an event behind the one that is handled. Three nodes
have a first, a middle and a last one and leave all removals and the way back to
the empty list; two items occur twice in a list of three. Three sinks have a sink
that unregisters itself with one before and one after it, and one that unregisters
the last but not the next. A strip of four LEDs
has sequences that repeat and are cut. The map's three entries have equal keys
before and after one another. The days of `clock` are the first day of 2000, 28
February 2000, the last day of 2000, 28 February 2001 and the last day of 2099;
its seconds are just before 10:00 and 13:00 and two before midnight, and two
seconds of counting go over each of these borders. `MaxTime` and `MaxElapsed` bound
clocks, and `QueueLength`, `MaxLen`, `Nodes`, `Sinks` and `Threads` are the sizes of
memory. The theorems below need none of these bounds.

`logger_careful` uses symmetry of tasks, nodes and sinks (`MCLoggerService`). No
action, and none of its three invariants, names one of them or chooses one by an
order, and the run has no liveness property, so that this is sound.

Deadlock is not checked in `map_search`, `led_calls` and `led_repeat`: a program that
went wrong (a NULL pointer, an abort, a write outside of the buffer) stops there.
In the first two these states are reached on purpose, since the properties are
about what happens before.

## Fairness

- `WebserverThread`: weak fairness of each call's steps and of each thread, which
  the FreeRTOS scheduler runs (the thread has priority `tskIDLE_PRIORITY+12`), and
  strong fairness of `PollReturns`: `mg_mgr_poll` returns after at most its timeout
  of 100 ms, with the events of one round, so that events that keep coming do not
  hold it. The weak fairness of `HandlerReturns` is that of the application's
  handler. No one has to begin a call.
- `WebserverTask`: the same for setup, dispatch and handlers, and strong fairness
  for taking the mutex, which FreeRTOS gives to the waiting task of highest
  priority and among equals to the one that has waited longest. No one has to
  post an event.
- `Ledstrips`: weak fairness of the caller and of the peripheral, which
  transmits what it is given. No one has to begin a call.
- `SList`, `Map`, `LoggerService` and `DS1307` have safety properties only.

## What the violations show

- `list_assert`: `remove_node` looks at `prev->next` when `prev` is NULL, so that
  with assertions enabled the first item of a list cannot be removed
  (`slist.c:52`). `list_serial` and the runs over it are those of a build
  without assertions.
- `map_absent`: the loop of `map_get` and `map_remove` takes one entry more than
  there are, so that the search for an absent key reads a NULL entry
  (`map.c:94`). `GetCorrect` and `RemoveCorrect` speak of searches that end.
- `logger_timestamp`: the shared timestamp buffer changes between the moment a
  task writes it and the moment it prints it (`logger_service.c:62-71`).
- `led_repeat`: the last repetition of a sequence is written past the end of the
  buffer when its length does not divide that of the strip
  (`ledstrips_rmt_driver.c:208-214`). `led_calls` uses lengths that do, or that
  are cut to the strip.

Seen in the code on the way and not under a run:

- A stop from the HTTP event handler notifies its own task, takes this as the
  answer and frees the manager of the poll around it
  (`mongoose7_webserver_thread.c:171-177`).
- A sink that unregisters the one whose turn is next has its node freed while the
  iterator of the log that called it points there (`logger_service.c:117`, `:78`).
- An iterator that is at its end, or was made for an empty list, never sees an item
  that is added later (`slist.c:302`): a sink that is registered while the last one
  is called does not get that message.
- `slist_clear` leaves `first`, `last` and `count` as they were (`slist.c:256`): a
  list that is used after it counts, and follows, freed nodes.
- The copy of a list has no allocator (`slist.c:118`), so that copying anything but
  an empty list calls a NULL function.
- In the 12-hour mode `ds1307_get_time` leaves 12 AM at 12 and makes 0 of 12 PM
  (`ds1307.c:125-151`). `TimeKept` excepts the two hours that begin at 12; the
  driver itself never sets that mode.
- `ds1307_get_time` hands `mktime` a `tm_isdst` of 0: an hour off in summer time.
- A sequence of length 0 never ends (`ledstrips_rmt_driver.c:208`); WS2812 and SK6812
  devices have no item buffer (`:125`; `led_calls` reaches the write through NULL
  and its properties except it); the high and low times of WS2812
  (`ledstrips.h:9-12`) look exchanged.
- Memory that is never freed: the item buffer of a removed device
  (`ledstrips_rmt_driver.c:185`), unregistered sinks, the iterators and the removed
  entries of a map. The result of `xSemaphoreCreateMutex` is not looked at.

## Proofs

TLAPS checks the theorems for every value of the constants. What they assume of
them are the named assumptions of the modules (`TasksAssumption`,
`EventAssumption`, `ListAssumption`, `MapAssumption`, `LoggerAssumption`,
`LedstripsAssumption`, `ClockAssumption`), which TLC evaluates in the runs, and what is said below.

`WebserverThreadProofs`. Of the properties only the typing is inductive. What
carries them is `IInv`, which says for every place of a call what the two
handles, the manager, the thread and the notification values are. Between calls
the server is entirely `Down` or entirely `Up`; a task that waits in a stop is in
one of the three stages of `Handshake`: its notification is on the way to the
thread, the thread is leaving, or the answer is on its way back, exactly one of
them, which is why the exact count the thread looks for (`stop == 1`) is the one
it finds. `StopIsComplete` rests on this: the wait ends only with the answer,
because no other notification exists. The thread's part of `IInv` has a handler
whenever an event has found one. `Invariance` proves `IInv` with one step per
action, and `TypeCorrect`, `ManagerIsExclusive`, `ManagerIsLive`, `StopIsComplete`,
`NothingFaults`, `NothingIsLeftOver` and `CallsAreAtomic` read the properties off it.
Under the same invariant every step of `WebserverThread` is a step of
`ManagerOwnership` or leaves the owner alone (`Implementation`).

`WebserverTaskProofs`. `MutexInv` says that a task is in start or stop only while
it holds the mutex, and that no handler runs before there is one. So every step
is a serial step of `WebserverThread` (`SerialUse`), and the invariant `IInv` comes
with it (`Safety`, `TypeCorrect`).

`SListProofs`. All six invariants of `list_serial`, and `MissesNone`, for any number of tasks, nodes,
items and open iterators, in builds without assertions (`list_assert` shows that
this is needed) and without `slist_clear` on its own. `Shape` says how `order` and
the pointers differ at each place of a call: while an add finishes, the last node
(or `first`) points to a node that is not in the list yet; while a removal
disposes, `last` may be the node that is gone and `count` is one more; a search is
at the node after `prev`; a clear has freed the first `at` nodes. At rest it is
`WellFormed` and `CountCorrect` together. That nothing faults follows from it, since
every place names a node that `MemoryOK` has allocated. There is one lemma per
action, and `StepKeeps` is what they share: only one call is under way. The
invariant has two parts: `ListInv` does not mention the iterators, and `ItersOK`
says that an open one which is not at its end stands at its index of the list
(`IteratorsStayInPlace`) and that nothing is removed around it. That it only comes to
its end behind the last node (`IteratorsMissNone`) follows from `ItersOK` and the shape
of the list at rest. Where iterators stay open over a removal, as the logger's do, the first
part still holds.

The same module proves the refinement, `ListImplementsAbstract`. `Shape` does not look
at what a call was asked for, so `RInv` adds `Progress`: a node on its way into the
list holds the item of the call; a search for an item has passed no equal one, a
search for an index is not beyond it; nothing is returned before the end. With it
each step of a call is the one step of `AbstractList` for its function, or changes
nothing that a caller can see (`AddSimulates`, `RemoveSimulates`, `ClearSimulates`).

`RemoveAtLemma` is a lemma on sequences that the list, the map and the logger share.
`MapProofs`:
a search has passed only entries with other keys of the list that the call began
with, so that where it ends is the first one (`FoundFirst`); `GetsTheFirst` and
`RemovesTheFirst` follow, the latter because the index of the iterator is one
behind its position. They hold with failing memory, absent keys and in both builds.

`LoggerServiceProofs`, in builds without assertions. The list of the logger is the
one of `SListProofs`, used by one call at a time (`OneChange`), so that `ListInv`
comes with it; its iterators are the hard part. `Inv` says of each one that it is
at its end, or at a place of the list (`AtNode`): the nodes from there on, and the
one that a task has linked but not counted yet, hold sinks that this log has not
called, and every sink that it must call is among them or was called. A
registration only adds a node behind the place, also one by the sink that is being
called. While something is removed the only open iterator is that of the task that
removes it (`RemovalAlone`), and the node ahead of it is another one
(`NextSinkStays`): if the node that goes is before it, its place moves by one, and if
it is behind it, the nodes from its place on are one less, none of a sink that it
must call. From this come
`SinkListIsSafe` (the node ahead is always allocated) and `MessagesAreDelivered` (at
the end nothing is due; a node ahead is never one called before, and no sink has
two nodes).

`LedstripsProofs`. Data is on its way only while the caller waits to send its
reset (`SendsData`); so no call writes into a transmission (`BufferIsStable`),
whatever it was given. `WritesStayInBuffer` assumes `WholeRounds`, that the strip ends
where a repetition of each sequence does, without which `led_repeat` is the
counterexample: the loop is at a multiple of the length of the sequence, and
where a round begins within the strip it ends there (`RoundFits`). `DriverTyped` and
`StripShowsGoal` assume nothing of the kind: `ShowInv` says how far the loop that
fills the buffer has come and what the entries behind it hold, that LEDs which
have received their bits have those of the buffer, and that with the call over
and the channel idle the strip shows the goal. `ReceivedExact` is its base: the
bits of a colour, most significant first and in the order of the chip, decode to
that colour, for every byte.

`DS1307Proofs`. `CodesAreExact`: a number of two digits survives the way to a
register and back. `RamIsKept`: no tick, no setting of the clock and no failed
transfer changes the RAM but where it was told to. The rest is the calendar:
every day of the century has one year, month and date (`DateExists`,
`DateIsUnique`), so that the CHOOSE of `localtime` is known (`LocalTime`), and the
parts of the next second are those of this one with their carries (`NextSecond`,
`NextDate`). `Shows(r, t)` says that registers hold the codes of the parts of `t`, in
either mode of the hours. The invariant `ClockInv` is that the registers are bytes
and show `Now` unless the clock is `Unset`: the chip's count keeps it (`CountedShows`),
`ds1307_set_time` establishes it (`SetShows`) or leaves nothing or a part behind, and a
transfer that ends where the RAM does never reaches the registers of the clock.
`ClockTypes`, `ClockRunsOn` and `TimeIsKept` follow, the last one because `mktime`
undoes `localtime` (`TimeIsRead`). They hold for every day of the century and every
second of the day, where the run has five and three. What they rest on is the
model of the chip and of the C library's two functions, as the run does.

Only model-checked: all liveness (`StopReturns`, `HandlersReturn`,
`FollowsNetwork`, `CallsReturn` and the fairness of `ManagerOwnership`), which the
prover cannot reach. The four violations are counterexamples and need no proof.

## Not modelled

- The copies of lists and maps (a copy of a list that is not empty calls a NULL
  function), map iterators, which only forward to those of the list, and
  allocators other than the system's.
- What mongoose does within a poll, a listen and a free (not in the repository);
  a failing creation of the webserver's mutex.
- The rules for callers named above: what happens when they are broken.
- A second caller of the LED driver, and pulse timings.
- A sink that logs (it would be called by its own message).
- Time zones with summer time, and years outside of 2000 to 2099.
- The VL53L0X wrapper (it allocates and frees a handle) and the mongoose 6 glue (no
  state), build files.
- Vendored libraries, which are more than 99 of 100 lines of the repository:
  mongoose 6 and the sqlite3 of its examples, and the VL53L0X API with its platform
  layer. They are not the collection's own logic, and so most lines of the
  repository have no model.

## What is left

1. The safety that liveness rests on, as theorems: that a task which waits in a
   stop always has a thread that will answer it, and that after each event the
   server is as that event asked unless its start failed. Both are near `Handshake`
   and `MutexInv`.
2. The map over the list itself: `Map` takes the list as `AbstractList` has it, and
   `ListImplementsAbstract` is why it may, but no theorem puts the two together.
3. The copies of lists, should they be given an allocator.
