# A formal model of systems-design

This directory models the logic of the repository in TLA+, checks the models
with TLC and proves the most important results with TLAPS. Paths below are
relative to the repository unless they start with `tla/`.

## The system

Three programs that share no code at run time:

- `src/`: a library for an order gateway (`src/lib`) and a `Tensor` class
  (`src/app/main.cpp`);
- `networking/`: a TCP client and server that exchange one integer
  (`networking/src/chat/client.cpp`, `server.cpp`) and an ImGui chat window on
  top of a thread-safe session (`networking/src/chat/chat_session.cpp`,
  `networking/src/app`).

`exercises/` and `systems-design-prep.md` are study notes.

### Inventory

**SPSC ring buffer** (`src/lib/spsc_queue.hpp`, `SPSC_NonBlocking`).
State: an array of slots and two wrapping 64-bit atomic counters, `head_` and
`tail_`. Operations: `push`, `pop`, `empty`, `full`, `size`. One thread calls
`push`, another `pop`; all communication between them is through the two
counters. Hard: memory orders, values that are stale when they are used, the
wrap at 2^64, masking as slot arithmetic. Correct when it is a FIFO that loses
and repeats nothing, no slot is accessed in a data race, `full`/`empty`/`size`
do not promise what a later call refuses, and what is published is popped.

**Order gateway** (`src/lib/order_gateway.hpp`). State: the
`OrderGatewayContext` (an ingress queue, one queue per symbol, a response queue
and `quit_signal`), and each thread's local state. Threads: users that call
`submit_order`, the ingress worker that routes or rejects, one worker per
symbol, the response worker. They interact only through the queues and
`quit_signal`. Hard: four user threads push into a queue made for one
producer; queues at their limit; termination when a reject cannot be queued;
threads that see `quit_signal` at different times. Correct when every order
the user was told is queued is processed once or rejected once, the orders of a
user keep their order, `send_reject` terminates the process only under overload,
and `quit_signal` stops every thread. (Memory that runs out in a thread ends the
process as well; that is not modelled.)

**Gateway lifetime** (`OrderGatewayExperiment`, `User`, lines 174-213 and
363-389). State: the threads started so far, user ids from the static
`next_id_`. Operations: construction, destruction (member by member, joining
each `std::jthread`). Hard: nothing in the class ever stores `quit_signal`, so
the joins have nothing to wait for; a constructor that throws half way joins
too. Correct when destruction returns and no thread outlives the context.

**Logging** (`src/lib/logger.hpp`). State: a map of loggers under a mutex, one
message buffer per logger without a lock, one mutex for the output. Correct
when every message is printed once, a thread's messages in order, and no buffer
is used by two threads.

**Tensor** (`src/app/main.cpp` lines 99-347). State: `data_`, `dims_`,
`names_`, `hashes_`. Operations: construction with checks, copy, move, lookup.
Hard: overflow of the storage size, a copy that throws in the middle, state
after a move. Correct when `validate_storage` holds after every operation and
lookups by name and by hash agree.

**Chat session** (`networking/src/chat/chat_session.cpp`). State: a transcript
and the user's messages not consumed yet, under a mutex. Correct when every
consumed batch continues the last one, nothing is in two batches, and the
pending messages are those of the transcript that were not consumed.

**Chat window** (`networking/src/app/chat_window.cpp`). State: input buffer,
focus flag, count of messages rendered last. Interacts with the session once
per frame and with ImGui. Correct when a frame that shows new messages scrolls
to them, input is submitted once, and focus returns to the input.

**Integer transfer** (`networking/src/chat/client.hpp`, `server.hpp`,
`client.cpp`, `server.cpp`). State: the sockets and the bytes in between. Hard:
partial sends and receives, byte orders, a peer that disconnects in the middle,
a client in the backlog that is never served, descriptors through moves and
constructors that fail. Correct when the server returns the integer that was
sent, or reports a disconnect before it, or throws, and every descriptor is
closed exactly once.

**Address resolution** (`networking/src/chat/net.hpp`). State: the list that
`getaddrinfo` allocated and the entries converted so far. Correct when an
address survives its two conversions, and the list is freed on every way out.

**Not state machines**: the networking `common.hpp`, the theme
(`imgui_theme.cpp`) and the utility headers of `src/lib`.

## Modules

| module | models | role |
|---|---|---|
| `BoundedFifo` | what `SPSC_NonBlocking` promises its two callers | abstract specification |
| `RingIndex` | the two wrapping counters and the slot of an index | arithmetic of the two below |
| `SpscQueue` | `SPSC_NonBlocking`, one action per access | detailed specification |
| `IndexMask` | `is_power_of_2` and the index mask | pure arithmetic |
| `OrderContract` | what the gateway promises of the orders it acknowledges | abstract specification |
| `OrderGateway` | the gateway's threads and queues | detailed specification |
| `GatewayLifetime` | `OrderGatewayExperiment`: starts, joins, destruction | composed with `OrderGateway` |
| `TerminalLogging` | the loggers of the gateway's threads | detailed specification |
| `TensorShape` | `storage_size_from_dims`, `print` | algorithm, one step per dimension |
| `Tensor` | construction, copy, move, lookup | detailed specification |
| `ChatOutbox` | what `ChatSession` promises its callers | abstract specification |
| `ChatSession` | `ChatSession`, one action per access under the mutex | detailed specification |
| `ChatWindow` | frames of the window and the main loop | composed with `ChatOutbox` |
| `SocketOwner` | the three socket classes and their descriptors | detailed specification |
| `ByteOrder` | integers in memory, `htonl` and the like | operators of the two below |
| `IntegerTransfer` | both programs and the network between them | composition |
| `AddressResolution` | `get_address_infos` and the address conversions | detailed specification |
| `MCSequential` | | instance for TLC of the single-threaded parts |
| other `MC...` | | instances for TLC, one per module |
| `RingIndexProofs`, `SpscQueueProofs` | `RingIndex`; `SpscQueue` and its refinement of `BoundedFifo` | theorems |
| `OrderGatewayProofs` | `OrderGateway` and its refinement of `OrderContract`, `GatewayLifetime` | theorems |
| `TerminalLoggingProofs` | `TerminalLogging` | theorems |
| `SequentialProofs` | `IndexMask`, `Tensor`, `TensorShape` | theorems |
| `ChatSessionProofs` | `ChatSession` and its refinement of `ChatOutbox` | theorems |
| `ChatWindowProofs` | `ChatWindow` | theorems |
| `NetworkProofs` | `ByteOrder`, `IntegerTransfer`, `AddressResolution`, `SocketOwner` | theorems |

`MCSequential`, `SequentialProofs` and `NetworkProofs` extend several specifications at
once; the names of `MaskSpec`, `SocketSpec`, `AddressSpec`, `ShapeSpec` and of their parts
differ for that reason.

A definition commented as a mutant is what a plausible bug would make of the
definition that follows; the specifications do not use it.

### SpscQueue

`buffer`, `head` and `tail` are the members of the class. `push` is
`PushFull` (refused) or `PushClaim`, `PushWrite`, `PushStore` (the test, the
copy at line 42, the store at line 43); `pop` likewise. `TestFull`,
`TestEmpty`, `ProducerSize` and `ConsumerSize` are the const members, called by
the side to which their answer is of use.

Memory model. A thread always sees its own counter exactly. A load of the other
counter returns any value from the last one this thread saw (`tailView`,
`headView`) up to the current one, which is what C++ coherence allows for a
location with one writer. The memory orders of the source are definitions
(`PushLoadOrder`, `PopStoreOrder` and so on): only an acquire load that reads
from a release store moves `tailSync` or `headSync`, up to which the slot
accesses of the other side happen before this one's. `SlotRaceFree` is then the
absence of a data race on the plain accesses of lines 42 and 54. Making any of
the four orders relaxed breaks it; one of these is among the mutants.

History variables: `pushed` and `popped` hold the last results, `room` and
`items` count the calls that a previous answer of `full`, `empty` or `size`
promised to succeed.

`Modulus` stands for 2^64, and `BufferSize` divides it, which the requires
clause of the class implies. `BufferSize < Modulus` is what lets `full_` tell a
full ring from an empty one. Slots are remainders here. That the code's mask
computes this remainder, and that the size divides the modulus, for every size the
requires clause lets through, is `RequiresClauseSuffices`, a theorem about
`IndexMask`; a size of 2^64 itself, which no array has, is the one it leaves out.

### IndexMask

`And` is the bitwise and, from the last digit on, as a recursive function.
`IsPowerOf2` and `MaskedSlot` use it as `is_power_of_2` and lines 42 and 54 do. The
state is a counter that runs through all its values, `Advance` its increment.

### BoundedFifo

A queue `q`, the number `seen` of its messages the consumer knows of, and the
number `lag` of pops the producer has not noticed. `push` may answer "full" only
if every slot holds a queued message or an unnoticed pop, `pop` may answer
"empty" only if every message the consumer knows of is taken. Under the
refinement mapping `q` is what lies between `tail` and `head`, `seen` is the
distance of `headView` from `tail`, `lag` that of `tail` from `tailView`.

### OrderGateway

The ingress ring is modelled access by access because several threads push into
it: `UserBegin` (quit check, `order_id_++`, load of `head`), `UserTest` (load of
`tail`, test), `UserWriteHeader` and `UserWriteOrder` (the copy, in two parts),
`UserStore` (store of `head`, the acknowledgement). The ingress thread is
`IngressPoll`, `IngressReadHeader`, `IngressReadOrder`, `IngressStore` and then
one of `Route`, `RejectFull`, `RejectInvalid`. Symbol and response queues have
one producer and one consumer; each appears as `BoundedFifo`, with a sequence
and a lag. What `BoundedFifo!seen` adds is a pop that finds nothing, which only
makes a worker come back later. `SymbolWork` and `ResponseWork` are one turn of
the loops of those workers; a turn that finds nothing changes nothing and is a
stutter.

An order is its user and its `client_order_id` (price and quantity differ
between the tasks, so the record identifies the user even though it has no
connection id); a message adds connection id and symbol. `NoMessage` is the
value-initialised `OrderMessage{}`: connection 0, symbol `Invalid`.

`quit_signal` is stored by `RaiseQuit`, the owner of a context; in
`OrderGatewayExperiment` nobody does (`MayQuit = FALSE`). Its relaxed load may
return the old value, so no action requires `~quit` and `Exit` is possible at
every check once it is set. `terminated` is `std::terminate` in `send_reject`:
nothing happens after it. `raced` records that the pushes of two users have
overlapped. With overlapping pushes the slot is written by two threads without
synchronisation; the model lets the accesses interleave one at a time, which is
one of the outcomes such a program has, and enough to show the loss.

Accesses to the ring see the current value of the counters: an ingress `pop`
that reads an old `head` finds fewer messages, and a push that reads an old
`tail` is refused earlier, both of which delays already cover.

### OrderContract

The gateway as a user may think of it. Acknowledged orders are `pending`, first
in, first out; each leaves for the `lane` of its symbol (`Accept`) or for the one
of the rejects (`Reject`), and `settled` counts how far a lane was processed or
delivered (`Settle`). There are no threads, no queues and no slots, only the
limits they cause: no more unsettled orders in a lane than it holds; a
reject only if as many orders entered the lane of the symbol as it holds
(`Loaded`), and `std::terminate` (`Die`) only if that is also true of the rejects.
A lane keeps what was settled, and a user's ids ascend, so that no order is ever in
two places of the lanes or acknowledged again.

The contract is `void` once two pushes overlap. Under the refinement mapping
(`Contract` in `OrderGateway`) `pending` is `Pending`, what lies in the ring and in the hand of
the ingress thread; a lane is what was taken from a queue followed by what is in
it; `void` is `raced`.

### GatewayLifetime

Extends `OrderGateway`: every action of a thread is conjoined with "the thread
is started", and the owner of the object adds its own. `StartThread` is one
construction of a `std::jthread` in the constructor, in the order `StartOrder`
(users, ingress, one thread per symbol, responder); `StartThrows` is any
allocation or thread start that throws in between. `Destroy` is the beginning
of the destructor. Both ways lead to "destroying", where the members go in the
reverse of their declaration (`Rank`) and each `Join` waits until its thread has
left its loop; `DestroyContext` is the context, which goes last. `Quit` is
whoever stores `quit_signal` from outside while the object exists; the class
itself never does, which is what `ReturnsAfterQuit` is about.

### TerminalLogging

A thread passes through `TakeId` (constructor of `User`: an atomic
`fetch_add` on `next_id_`), `Find`, `Emplace`, `Got` (`get_logger` under its mutex), and
then calls `log`: `Log` (`push_back` and the test of the buffer size),
`PrintName` and `PrintText` (a line under the output mutex, in two of its
insertions) and `Clear`. `k_buffer_size` is 1 in the code, `BufferSize` here.
A line is two elements of `out`. A worker's logger name is a constant of the
thread, a user's is the id that its name is formatted from; that no worker is
named like a user is `LoggingAssumption`.

### TensorShape and Tensor

`TensorShape` runs `storage_size_from_dims` one dimension at a time
(`Multiply`, `ShapeReturn`) in the arithmetic of `usize` with a small maximum, and
states `print` as the sequence of indices it passes to `data_.at` (`Slice`,
`Matrix`, `Printed`).

`Tensor` keeps, for each place an object may live in, the four vectors as a
record; of `data_` its length and the labelled shape it was made for, which is a
history variable. `Construct` is `initialize` with all its checks, a refused
construction leaves nothing. `CopyConstruct`, `CopyAssign`, `MoveConstruct`,
`MoveAssign`, `Destroy` are the special members. `CopyThrows` is a copy
assignment in which one of the vectors throws: the ones before it are the
source's already, and of the names a first part may be. `torn` are the objects
to which that happened, and those that were copied or moved from them.

`copy_from` has no stronger guarantee to hold it to: the repository says nothing
of exceptions. That a torn tensor fails its own `validate_storage` is therefore
a note here and no finding (and `get_dim` may then index `dims_` past its end, if the names
are those of a tensor of higher rank); the properties speak of the tensors outside `torn`.
The same goes for a shape such as `{2^32, 2^32, 0}`: it is refused as overflowing
though it has no elements, while `{0, 2^32, 2^32}` is accepted. `SizeExact` says
this exactly.

### ChatOutbox and ChatSession

`ChatOutbox` is the promise: a transcript that only grows, the messages not yet
handed over, and the ones handed over; `Show`, `Queue`, `Take`.

In `ChatSession` a caller's call is `Enter` (lock), one action for each access
to the two lists (`PushTranscript`, `PushPending`, `Copy`, `Move`, `Clear`) and
`Leave` (unlock). `OutOfMemory` is a `push_back` or a copy that throws, at each
place where one can; the lock is released on the way out. Between the two
`push_back`s of `queue_user_message` the message is in the transcript and will
not be sent; `half` collects these. Blank messages return before the lock and
are not calls of the model; whitespace is part of `ChatWindow`.

Under the refinement mapping a message is in the abstract transcript when its
place in both lists is decided, so that the second `push_back` is the step
that is `Queue`, or `Show` if it throws.

### ChatWindow

One action per part of a frame: `Poll`, `BeginHidden` or `BeginVisible`
(collapsed or not), `Snapshot`, `Child` (the transcript, drawn or hidden),
`Input`, `NotSent` or `Send`. What ImGui answers (visibility, what is typed,
Enter, a click) is nondeterministic; a widget that gets the focus has it until a
click elsewhere or Enter. The session appears as `ChatOutbox`, which
`SessionImplementsOutbox` justifies: `Others` lets peers add messages and the
network take some between any two steps. `drawn`, `scrolled` and `hidden` are
history variables.

`main()` in `networking/src/app/main.cpp` (line 108) does not call `main_window` at
this commit; the module models `main_window` as if it did.

### SocketOwner

Each object is absent, under construction (`todo` counts the set-up calls left)
or built, and holds a descriptor or `k_invalid_fd`. `Socket`, `SetUp`,
`SetUpFails` are the constructors of `ClientSocket` and `ServerSocket`;
`AcceptConnection` is `accept_connection`; `Steal` is a move, construction and assignment alike,
which closes what the target holds first; `Destroy` is the destructor. The
kernel gives any closed descriptor to the next `socket` or `accept`, so that a
second close of the same number would hit another object's. Self-moves are
excluded, as `operator=` returns for them.

### IntegerTransfer

A client connects, sends its four bytes in any number of `send` calls, and
leaves; the server listens, accepts one client, receives in any number of `recv`
calls and ends with an integer, a clean end, or an exception. `wire` holds bytes
the kernel took and has not delivered, `Reset` drops them and breaks the
connection, `Die` is a client that fails or is killed between two sends. The
kernel queues a connection while `Len(backlog) <= k_backlog`, so that a second
client can be connected, have sent everything and never be accepted. Bytes have
`ByteBase` values and an integer is laid out as the host does (`ByteOrder`);
`Wire` is `htonl` of the cast, `Decoded` its inverse.

### AddressResolution

`found` is any answer of `getaddrinfo`. `Resolve`, then one `Convert` per entry,
`Throws` at any entry (unsupported family, no address, no memory),
`AddressReturn`; `held` says that the list is allocated, which the `ScopeGuard` ends. An entry
without an address is `"null"`. `to_raw_addr` is what `connect` and `bind` are
given.

A `sockaddr_in6` also has a scope id and flow information, one field `scope` here. An
`IP6Address` has neither, so `to_socket_address` drops them and `to_raw_addr` leaves
zeroes: a link-local IPv6 address comes back without its interface. `AddressKept`
says that this is all that is lost. The programs of this commit ask for IPv4 only,
where the round trip is exact.

## Runs

| run | checks | bounds |
|---|---|---|
| `spsc` | `IInv`, `SlotRaceFree`, `PushPromiseKept`, `PopPromiseKept`, `ImplementsFifo`, `EveryMessagePopped` | 2 slots, counters wrap at 8, 2 messages |
| `gateway_safety` | `IInv`, `Conservation`, `InOrder`, `TerminationNeedsOverload` | 2 users with a symbol each, 2 orders each, ring of 2, other queues of 1, counters wrap at 4, shutdown at any moment |
| `gateway_settles` | `EveryOrderSettled`, `ImplementsContract` | 2 users with one symbol, 2 orders each, ring of 4, other queues of 1, counters wrap at 8, no shutdown |
| `gateway_lifetime` | `ReturnsAfterQuit`, `DestructionReturns`, `EarlyOrderSettled` | 2 users with one symbol, 1 order each, ring of 2, 5 threads started and joined, shutdown at any moment |
| `logging` | `BufferOwned`, `LinesWhole`, `InstaFlush` | 2 users, 1 worker, 2 messages each, ids wrap at 2 |
| `chat_session` | `IInv`, `SentAsShown`, `ImplementsOutbox`, `EveryMessageTaken` | 3 callers, 2 calls of each that does not consume |
| `chat_window` | `ScrolledOrHidden`, `SentOnce`, `EveryMessageDrawn`, `FocusReturns` | 2 texts typed, 1 message of a peer, any number of frames |
| `integer_transfer` | `RightInteger`, `EndExplained`, `ServerEnds`, `SentIsReceived` | 2 clients, 4 bytes of one bit, a backlog of 0 |
| `socket_owner` | `OneOwner`, `NothingLeaks` | 3 objects, 3 descriptors |
| `sequential` | `MaskIsRemainder`, `PowersNeeded`; `SizeExact`, `PrintsAll`; `DimOfName`, `LookupsAgree`, `StorageMatches`; `AddressKept` | 8-bit counters and ring sizes to 16; `usize` of 4 bits, rank to 3; 2 tensors, 5 shapes, 4 lists of names; 2 entries |
| `gateway_overlapping_pushes` | `AcknowledgedIsQueued`, violated | as `gateway_safety`, without shutdown |
| `address_several` | `SingleAddress`, violated | as the last part of `sequential` |

Why the bounds are enough.

- Rings. Two slots are the smallest ring in which the producer can be ahead of
  the consumer and refused. The counters wrap during every run: nothing bounds the
  number of pushes in `SpscQueue`, and the four orders of two users reach the
  modulus of the ring in `gateway_safety`.
- Gateway. Two orders per user are what order and duplication need; queues of one
  slot fill at once, so rejects and termination are reached, in `gateway_safety` also
  after `quit_signal` and when the response thread has left already. The ring of four in
  `gateway_settles` has slots nobody wrote yet when raced pushes have put `head`
  behind `tail`: the ingress thread then pops `OrderMessage{}` and rejects it for
  its invalid symbol (`RejectInvalid`). With the starts and joins in play one order per user keeps the run small; every thread can still find its
  queue empty, full or half used when it leaves.
- Logging. Ids that wrap at the number of users are the tightest that
  `LoggingAssumption` allows. Three threads are more than any lock or buffer is
  contended by.
- Session and window. Two calls of each caller let a message be queued before,
  during and after a batch is taken. Frames are not bounded; two texts are what
  sending one twice or out of order needs.
- Transfer. Bytes of one bit keep all splits of a four-byte integer and both
  byte orders; a second client is what a backlog needs.
- Sockets. Three objects are a source, a target and a third that gets the number
  a closed descriptor had.
- Sequential. Every shape to rank 3 over 0 to 15 overflows in every place; the
  names contain two with the same hash, alone and together in one tensor. An IPv6
  address has a scope or none.

Deadlock checking is off where the system really stops: users that reached
`MaxOrders`, exited threads, a terminated process, a finished program, a
destroyed object, a thread that has logged its `MaxMessages`. It is on for
`spsc`, `chat_session` and `socket_owner`.

### What the two violations show

`gateway_overlapping_pushes`: the ingress queue is a single-producer queue by its
name and by the relaxed load of `head_` in `push`, but each user thread pushes
into it. In the counterexample both users load the same `head`; the first writes its
order, stores `head + 1` and is told that the order is queued; the second still has the
old `head` and overwrites the slot, so that the first order is nowhere. (The trace ends
there; the store of the second, which follows, publishes nothing new.) This is why the other properties of the gateway are stated up to `raced`:
they say what holds until two pushes overlap for the first time, and why the
contract is void from there on.
`DestructionReturns` and the capacities of the symbol and response queues in
`TypeOK` hold even after. `Conservation` counts what a shutdown leaves in the
queues as pending, which is what the code does with it: nobody drains them.

`address_several`: `get_address_infos` returns one entry per address of the host,
and `get_ipv4_tcp_address_info`, `get_ipv4_udp_address_info` and
`get_ipv4_tcp_connect_info` assert that there is exactly one. The client of this commit
passes "127.0.0.1", which has one; it takes a caller with a host name to run into it.

## Fairness

- `SpscQueue`: weak fairness of the consumer's steps. The workers call `pop` in
  an endless loop, and C++ requires that a store becomes visible to loads in a
  finite time. None for the producer.
- `OrderGateway`: weak fairness of the steps of a push that was begun, of the
  ingress thread and of the workers (each is a thread in an endless loop that
  never blocks for good), none for beginning an order, and none
  for leaving the loop: the run that uses it stores no `quit_signal`.
- `GatewayLifetime`: the same for the threads that were started; strong fairness
  of `Leave` (a thread comes back to the check of `quit_signal` again and again, and
  cannot read the old value forever); weak fairness of a destructor that was
  entered, whose `Join` returns once its thread has ended. None for the
  constructor and none for `Quit`.
- `ChatSession`: weak fairness of a caller inside the mutex (it only pushes and
  copies) and of `Enter` for those who consume. No fairness of `std::mutex` is
  assumed: the other callers make finitely many calls.
- `ChatWindow`: weak fairness of the loop, strong fairness of a visible window
  and a visible transcript. A user may keep the window collapsed forever, and then
  nothing is drawn; the two liveness properties are about what the frames do
  with the visible ones. None for peers, the network and typing.
- `IntegerTransfer`: weak fairness of both programs; the kernel delivers what it
  took unless the connection is reset.

`TerminalLogging`, `SocketOwner`, `Tensor`, `TensorShape`, `IndexMask` and
`AddressResolution` are checked for safety only.

## Proofs

Nothing is proved for the small instances only: every theorem holds for all
values of the constants that satisfy the assumption of its module.

| assumption | says |
|---|---|
| `SizeAssumption` | `BufferSize` and `Modulus` are positive, the first smaller and a divisor of the second |
| `MaskAssumption` | a counter has a power of two of values, as 64 bits do; any bound on the ring sizes looked at |
| `GatewayAssumption` | the queue sizes are positive, the constants have their types; any users and symbols |
| `StartAssumption` | threads start in the order of the constructor |
| `LoggingAssumption` | finitely many users, no more than `IdModulus`, and no worker is named like a user |
| `SessionAssumption` | each caller calls operations of the class; any callers, however often they call |
| `WindowAssumption` | an empty and a blank input are no text |
| `SocketAssumption` | the constants have their types; any objects and descriptors |
| `ByteOrderAssumption`, `TransferAssumption` | a byte has at least one value; integers fit four bytes, two's complement |
| `AddressAssumption` | ports are numbers; any hosts, any length of the list |
| `ShapeAssumption`, `TensorAssumption` | `usize` holds more than zero; dimensions are numbers, and there are names enough for `make_auto_names` |

The assumptions of `IndexMask`, `Tensor`, `TensorShape`, `AddressResolution` and `ChatWindow`
are hypotheses of the theorems, and `MCSequential` and `MCChatWindow` have TLC
evaluate them. Every inductive invariant below was checked by TLC first.

`RingIndexProofs` holds the arithmetic: `Dist` and `Inc` written out by cases,
then what advancing a counter does to distances (`DistIncAhead`,
`DistIncBehind`), what a newer view does (`NewerView`, `NewerHeadView`), and that
the slots of indices less than `BufferSize` apart differ, also across the wrap
(`SlotsApart`, `SlotOfWrapped`, `FreeSlot`).

`SpscQueueProofs`:

- `Invariance`: `Spec => []IInv`. Neither race freedom nor the refinement is
  inductive by itself. `IInv` adds that around the ring the counters stand in
  the order `tailView`, `tail`, `headView`, `head` within `BufferSize` steps
  (`CounterOrder`), that a call between its test and its store still owns its
  slot, and the content of that slot (`ClaimsHeld`), and that promises are backed
  by views (`PromisesBacked`).
- `RaceFreedom`, `PushPromise`, `PopPromise` follow from `IInv` in one step.
- `Refinement`: `Spec => ImplementsFifo`. Loads map to `NoticePops` and
  `NoticePushes`, the copies to stutters, the two stores to `Push` and `Pop`.

`OrderGatewayProofs`:

- `GatewayInvariance`: `Spec => []IInv`, one lemma per action. The
  capacities of the symbol and response queues (in `TypeOK`) are inductive as
  they stand, since the producer tests against the pops it has noticed. The
  ingress ring needs more, and only up to `raced`: a push under way is the only
  one and loaded the true head (`AlonePushing`), so that a test that passed
  leaves room until the store, and a pop that found a message still has it at
  its store (`RingBounded`). Without `AlonePushing` nothing relates `uhead` to
  `head`, which is exactly what goes wrong in `gateway_overlapping_pushes`.

- `OrdersConserved`, `OrdersStayInOrder`, `OverloadBeforeTermination`:
  `Conservation`, `InOrder` and `TerminationNeedsOverload`. They say where orders
  are, and none is inductive: they share `FlowInv`. `SlotsHold` says that the ring
  holds whole messages from `tail` to `head`, and how much of the slot at `head`
  and of `tmp` is written when a push or a pop stands between its two copies;
  `AckedTaken` and `LagsPopped` tie ids and lags to what was done. `Flow` is the
  rest, stated of plain sequences: orders go from `Pending` (the ring and the
  worker's hand) into one of the lanes (a lane for each symbol, and one for the
  rejects), each user's in ascending order, each in one lane, and together they are the acknowledged
  ones. Four things happen to it: an order is pushed (`FlowPush`), moves from the
  front of `Pending` to the end of a lane (`FlowMove`), vanishes in
  `std::terminate` (`FlowDrop`), or nothing (`FlowFrame`). Sorted sequences have
  no duplicates (`SortedOnce`), which makes `Places` a singleton; and the orders
  in the lanes can be counted (`FlowCount`), which is what overload needs.

- `GatewayImplementsContract`: `Spec => ImplementsContract`. It needs all of
  `FlowInv`: that ids ascend, for the guard of `Acknowledge`; that the message in the
  hand of the ingress thread is a whole one at its route, so that `Route` and
  `RejectFull` are `Accept` and `Reject` of the first pending order; and that a lag
  counts pops that happened (`LagsPopped`), so that a full queue is a loaded lane. Each action keeps `FlowInv`
  and is a step of the contract by the same case analysis, so each lemma states
  both (`ContractStep`). The store that ends a push is `Acknowledge`; the other
  steps of a push and a pop are stutters, and so is the pop itself, which only moves the order
  from the ring to the hand. `RejectInvalid` is impossible before `raced`.

The lifetime, in the same module:

- `LifetimeImplementsGateway`: `LifetimeSpec => Spec`. Every step of a thread is
  one of `OrderGateway`, every step of the owner a stutter there; starting
  threads late only removes behaviours. `LifetimeInvariance` is the invariant of
  the gateway by way of that.
- `LifetimeConserves`, `LifetimeImplementsContract`: no order is lost, duplicated or
  overtaken while threads start and stop, and the contract is kept, by the same way.
- `DestroyedAfterQuit`: `LifetimeSpec => []ReturnsAfterQuit`. The inductive
  invariant (`Joining`) says that whatever was joined was started and has exited,
  that whatever exited did so after `quit_signal`, and that a gone object has
  joined all it started.

`ChatSessionProofs`:

- `SessionInvariance`: `Spec => []IInv`. What a caller may see in a snapshot
  (`SeenIsQueued`, the theorem `SeenMessages`) is not inductive. `IInv` adds that
  the mutex is held by whoever is inside (in `TypeOK`), that a message between the
  two lists is the last of the transcript (`Places`), and that all the others of
  the transcript are decided (`Kept`).
- `SessionImplementsOutbox`: `Spec => ImplementsOutbox`. The first `push_back` of
  a queued message is a stutter, the second is `Queue`, or `Show` if it throws;
  `Move` is `Take`, everything else is a stutter.

- `SentMessages`: `Spec => []SentAsShown`, the order of what is sent. `OrderInv`
  adds that a message is pushed into the transcript once (a caller's count has
  passed it), and that what became of a message is decided before the next one
  is shown, so that appending to `pending` appends to the order of the transcript.

`ChatWindowProofs`, which meets the session through the outbox:

- `WindowInvariance`, and from it `NoMessageMissed` (`ScrolledOrHidden`) and
  `TypedTextSentOnce` (`SentOnce`). What the input holds is unsent because it is
  newer than everything sent (`InputIsNewer`), which also keeps the order when it
  is sent.

`TerminalLoggingProofs`:

- `LoggingInvariance`: `Spec => []IInv`. Ids are distinct because `next_id_` is
  the number of users that took one, up to the wrap, and there are no more users
  than ids (`NamesApart`). Hence each thread has a buffer of its own once it is
  past `get_logger` (`OwnLogger`), which holds its last messages (`Buffered`); who
  holds the output mutex has written the name of a line and not its text
  (`TerminalHeld`); and the texts on the terminal are those up to what the loop
  of `flush_buffer` has printed (`TextsInOrder`).
- `LoggersAreOwned`, `LinesAreWhole` follow; `LogFlushesAtOnce` for
  `BufferSize = 1`, the value of `k_buffer_size` (`logger.hpp:20`). With a larger
  buffer the property is not true; what is left of it then is `NoLineLostOrOvertaken`:
  the messages that are not on the terminal are the last ones, in the buffer.

`NetworkProofs`:

- The bytes: four bytes and the number they lay out determine each other for any
  number of values of a byte (`WordDigits`, `IsWord`, `NumberOfBytes`,
  `BytesOfNumber`), and what one host writes with `htonl` another reads with
  `ntohl` as the same signed integer (`RoundTrip`), whichever byte orders they have.
- `TransferInvariance`: `Spec => []IInv`. For each connection, what arrived and
  what is on the wire are consecutive parts of what its client has sent
  (`Streams`), unless it was reset, which only drops the end. With `RoundTrip`
  that gives `IntegerIsRight`, and with what the client did before it left,
  `EndIsExplained`.
- `AddressesAreKept`: `AddressKept`, from the same for the two bytes of a port
  (`AddressRoundTrip`), and an invariant that says what was converted so far.
- `SocketInvariance`: `SocketSpec => []SocketIInv`, and from it `OwnedOnce`, `NoLeak` and
  `FitForUseAlways` (a built socket that holds a descriptor holds one that is
  listening or connected, as its class says). The three need each other, and
  `UnderConstruction`: a socket whose set-up calls are not done has an open
  descriptor that is nothing yet, so that closing it leaks and steals nothing.

`SequentialProofs`:

- The mask. `And` halves its arguments, so its facts go by halving
  (`HalvingInduction`: a set of numbers with 0 that has a number whenever it has
  its half has all of them). `x & (x - 1)` is 0 for an even `x` exactly when it is
  for its half (`PowerByHalves`), and `k & (ring - 1)` is twice the same of the
  halves plus the last digit (`AndHalves`), as the remainder is
  (`RemainderOfDouble`); so masking is the remainder (`MaskLemma`), and one power of two divides every
  greater one (`PowersDivide`). `MaskingIsRemainder` and
  `RequiresClauseSuffices` are the two together.
- `OnlyPowersWork`: the slots of consecutive counters are all slots of the ring, also
  across the wrap, since the size divides the modulus (`WindowOfPower`). For the converse,
  masking is idempotent (`AndAgain`): slots that are all different are all of
  0 to `ring - 1` only if `ring - 1` masks each of them to itself, which makes `ring` a
  power of two (`PowerByMask`).

- `TensorInvariance`: whatever was copied and moved, a tensor outside `torn` is
  one that a constructor made, or the empty one (`Constructed`); the empty one is
  the tensor of no dimension. `StorageAlwaysMatches`, `LookupsAlwaysAgree` and
  `DimensionsAreKept` follow from how the parts of a constructed tensor fit and
  from what `linear_search` returns (`SearchFindsFirst`).
- `SizesAreExact`: a factor is refused exactly when the product would not fit
  (`OverflowsExact`), so the product never wraps, and without zeros it only grows
  (`ProductsGrow`), so a refusal half way is a refusal of the whole.
- `EveryElementPrinted`: rows within the storage are runs of consecutive indices,
  and runs of equal length that follow each other flatten to one (`FlattenRuns`).

The products of a shape and the flattening of rows are recursive functions. Their
facts are proved without an induction rule: of the numbers for which such a fact
fails there would be a least one (`LeastNumber`), and it follows from its
predecessor.

Only model-checked is liveness (`EveryMessagePopped`, `EveryOrderSettled`,
`DestructionReturns`, `EarlyOrderSettled`, `EveryMessageTaken`,
`EveryMessageDrawn`, `FocusReturns`, `ServerEnds`, `SentIsReceived`), as the
prover reasons about neither fairness nor ENABLED here. Every other property of the
passing runs is a theorem.

## Plan

Done: the ring with its index arithmetic and its proofs; the gateway, its
invariant, its contract and its lifetime; the session with its outbox and its
proofs, and the window on top of it; the socket classes with their proofs; the
transfer; logging; tensors; addresses.

What would be worth doing next: the refinement of `BoundedFifo` by the symbol and
response queues of the gateway. It is not a plain mapping: the ingress
thread notices pops and pushes a message in one action, which are two steps of
`BoundedFifo`, so that the gateway would have to be split or given a stuttering variable.

## Hazards that no property covers

Three things the code does cannot be stated as properties that hold, and nothing in
the repository says otherwise, so they are no findings:

- A copy assignment of a `Tensor` that throws leaves `data_`, `dims_`, `names_` and
  `hashes_` of different tensors (`main.cpp:336`). The properties of `Tensor` except
  these; they show that nothing else leads to such a tensor.
- The count of rendered messages is remembered also when the transcript was not
  visible (`chat_window.cpp:88`): the messages it counts are drawn later, which
  `EveryMessageDrawn` checks, but scrolled to only with the next one that arrives.
- `send` succeeds when the kernel has taken the bytes (`client.cpp:16`): a client that was
  never accepted, or whose connection is reset, has reported its integer as sent.
  `SentIsReceived` shows that these two are the only ones.

## Not modelled

The theme, fonts and layout of the window; the random fills of tensors and the
text that printing produces; wording of log lines and the number of the queue
size that a log line shows; the random sleeps (any interleaving is allowed
instead). Copies of a `Logger` and the flush in its destructor: the program logs
only through references into `loggers_`, whose buffers are empty whenever `log`
returns. The logger and the aliases of `networking/src/chat/common.hpp`, used by
one thread. Printing of an address. `EINTR` and signals in general, beyond a
process that dies. The kernel itself appears only as far as the programs rely on
it.
