# A verification project for sndnet

sndnet is a C library for an overlay network. A node has a 32-byte address,
keeps a Pastry-like router (a prefix table and two leafsets) and forwards
signed packets over UDP until they reach the node whose address is nearest to
their destination. This directory holds TLA+ modules translated from the C
source, TLC configurations that check them, and proofs checked by TLAPS.
`PROJECT.json` lists every run, mutant, mapped definition, finding, hazard and
theorem. Paths below are those of the repository.

## Inventory

| Component | Source | State | Operations | Modelled by |
|---|---|---|---|---|
| Addresses | `src/net/addr.c` | 32 bytes | cmp, dist, index, to and from hex | `Addr` |
| Entries | `src/net/entry.c` | set flag, address, network address | array_len, closest, cmp, ser | `Routing` |
| Router | `src/net/router.c` | self, table 64 x 16, left and right leafset of 8 | init, add, remove, nexthop, queries, raw setters | `Routing`, `Router`, `NearestLeaves`, `RouterRace` |
| Packets | `src/net/packet.c`, `include/wire.h` | header and payload on the heap | pack, sign, check_sign, send, recv | `Network`, `NodeLife` |
| Node, messages | `src/node.c` | router, socket, keys, upcall | send, send_typed, forward, deliver, background loop | `Network` |
| Deliver handlers | `src/handler.c` | none | user, reply, ping | `Network`, `NodeLife` |
| Node, life | `src/node.c` | thread, mutex, reply vector, socket | at_socket, at_port, destroy | `NodeLife` |
| Callbacks | `src/node.c`, `src/callbacks.c` | pointers to upcall and log closure | set, load, call | `NodeLife` |
| Closures | `src/util/closure.c` | curried arguments | init, curry, call | `Closure` |
| Library initialisation | `src/sndnet.c` | one atomic flag | sn_init | `SnInit` |
| Prototype program | `prototype/main.c` | a node | main | `Process` |
| Vector | `src/data/vec.c` | buffer, size, capacity | init, push, at, remove_at, destroy | `Vec`, `Collection` |
| Network addresses | `src/io/naddr.c` | a sockaddr | parse, print, ser, deser | `Naddr`; a value elsewhere |
| Sockets, signatures | `src/io/sock.c`, `src/crypto/sign.c` | kernel, libsodium | wrappers | external |

### How the parts interact

A program calls `sn_init`, then creates a node on a port. `sn_node_at_socket`
starts one background thread, which loops over recv, the signature check,
`forward` and free. `forward` lowers the TTL, asks the router for a next hop,
and either sends the packet on or calls `deliver`, which calls the handler of
the type: the upcall of the application, an assertion, or a reply through
`sn_node_send_typed`, which calls `forward` again. Application threads call
`sn_node_send`, change the router through `sn_net_router_add` and
`sn_net_router_remove` with no lock, and replace the upcall and the log closure
through relaxed atomics and fences. `sn_node_destroy` cancels the thread
wherever it is, joins it, and releases what the node holds.

### What is hard, and what makes each part correct

* Addresses: unsigned bytes wrap, and the distance is a ring distance only up
  to that. Order, level and column must describe the same keys.
* Router: leafsets are arrays with a filled prefix, edited in place and sorted
  with `qsort`; a full one evicts. The range test reads one entry past the
  last leaf. Whatever that read gives, the next hop must be progress. A
  removed peer must not be routed to.
* Router, shared: another thread may read any mixture of old and new fields.
  What it answers must still be nearer, or of the right slot.
* Network: datagrams are lost, copied and overtaken, nodes die and come back
  with empty routers, routers disagree. A message must not multiply, must
  reach upcalls unchanged and checked, and must stop travelling.
* Node: creation fails half way, the kernel and malloc fail in every step of
  the loop, cancellation strikes anywhere. Nothing may be used after its
  release or be left behind, and no datagram may block those behind it.
* Vector: realloc may fail and may move; size, capacity and buffer must agree.
* Library: several threads initialise it at once.

`PROJECT.json` lists these as hazards, each at its line and with the
properties that cover it.

## Modules

* `Addr`: addresses as functions from positions to bytes. The radix `HexBase`
  and the length `AddrLen` are parameters, so that all carries, complements and
  digit boundaries occur in addresses small enough to enumerate. `Before` is
  `sn_net_addr_cmp(a, b) < 0`; `Carries`, `Subtract` and `Dist` are
  `sn_net_addr_dist` with its 8-bit wrap; `Level` and `Column` are
  `sn_net_addr_index`.
* `Naddr`: a network address as what its bytes mean, and the four conversions
  of `naddr.c` as sets of outcomes: the port that is not written, the path that
  is cut when it is read back, the byte that is not terminated.
* `Routing` (extends `Addr`): the record `sn_net_router_t` and the functions
  over it. Where C leaves the outcome open (`qsort` of equal entries, a read
  past a full right leafset, bytes never written) the operator returns the set
  of outcomes. One past a full left leafset lies the first entry of the right
  one, by the layout of the structure. `Consistent` is the predicate that the
  functions rely on and keep.
* `Router` (extends `Routing`): the variable `snr` and `fault`, one action for
  add and one for remove. `fault` records that a call ran into the assertion of
  `sn_net_router_set` or indexed past the table; nothing happens afterwards.
* `NearestLeaves`: the abstract leafset, a bag of keys with a capacity. `Router`
  instantiates it once for each side.
* `RouterRace` (extends `Routing`): a writer and a reader of one router. A call
  of add or remove becomes a `plan`, the states of the router after each of its
  assignments; `Store` carries out one cell of the current assignment, in any
  order: the set flag, one byte of the 32 of an address, or the network
  address. The reader scans, copies an entry cell by cell (`Copy`), and compares
  the copies at the end, as `sn_net_router_nexthop` does. While a write is under
  way the range test and the comparisons inside a scan may answer anything,
  the scan may settle on any entry, and a network address may be read as any
  network address.
* `Network` (extends `Routing`): a router for each node, the processes that
  run, the datagrams in flight, and histories of what was sent and delivered.
  One iteration of the background loop is one action (`Receive`, or
  `ReceiveCopy` when the network keeps a copy); so is a call of
  `sn_node_send_typed` (`Send`). A call of `forward` or `deliver` is an
  operator that returns the set of its outcomes: what it sends, the upcall it
  makes, its return value and the defects it leaves (a packet not freed, a read
  past the payload, an assertion).
* `Closure`: `sn_util_closure_t` with its argument limit and the currying that
  stops at the first argument that does not fit.
* `NodeLife` (extends `Closure`): one node in its process. The application's
  actions are `AtPort` (creation, with the step that fails), `Cancel` and
  `Join` (the halves of `sn_node_destroy`), the setters, and the life of a
  closure of its own. The background thread makes one action of each call that
  can fail, block or be a cancellation point: `Peek`, `Discard`, `Alloc`,
  `Recv`, `Verify`, `Route`, `Send`, `LoadLog`, `LoadUpcall`,
  `CallbackReturns`, `Free`, and `End` where it acts on its cancellation. A
  ping makes it allocate a second packet (`Answer`), send it (`SendReply`),
  log, and free it (`FreeReply`), all while it holds the first (`packet`,
  `reply`); a reply that is delivered ends the process (`Abort`), whoever sent
  it. `packets` counts the packets that this thread allocates. A failure of the
  kernel or of malloc that has consequences is counted in `faults`.
* `SnInit`: `sn_init` as load, compare-and-swap and `sodium_init`.
* `Process` (extends `SnInit` and `NodeLife`): `prototype/main.c` from
  `sn_init` to its return, with other threads that call `sn_init`.
* `Vec` and `Collection`: the vector with its buffer, its recorded capacity and
  an allocator that may refuse; the bag of elements that it implements.
* `MCAddr`, `MCRouter`, `MCRace`, `MCNetwork`, `MCVec`, `MCNode`, `MCProcess`:
  instances for TLC. In each module the operators next to a definition, with
  its name and a suffix (`InsertFarther`, `ForwardKeepingTTL`), or with a
  neighbouring name (`CancelNobody`), are the mutants that `PROJECT.json`
  refers to; no specification uses them.
* `AddrProofs`, `MCAddrProofs`, `RoutingProofs`, `RouterProofs`, `RaceProofs`,
  `NetworkProofs`, `VecProofs`, `NodeProofs` (also of `Process`): the proofs,
  below.

## Runs

| Run | Shows | Bounds |
|---|---|---|
| `addr` | distance is the ring distance while no borrow is lost, index agrees with order, levels are an ultrametric, strings read back, and what a chain of conversions does to a network address | all 4096 pairs of 3-byte addresses, radix 2; paths of up to 5 characters in 4 bytes |
| `router` | types, table places, leafset shape, no fault, progress of next hops, order of queries, removal, both refinements | 16 addresses, 5 peers, leafsets of 2, any number of calls (5720 states) |
| `router_known` (violated) | a leaf is not the next hop for itself | 3 adjacent peers |
| `router_query` (violated) | the answer does not fit its buffer | as `router`, with entries that can be serialised |
| `race` | what a next hop read during a write can be; that the stores of a call are a step of `Router`; that a quiet read is the atomic one | 2 calls, 2 peers of 2 bytes, 2 destinations, leafsets of 2 (869998 states) |
| `network` | types, no multiplication, faithful upcalls, aborts only through pings and replies, silence in the end | 2 nodes, 39178 states, see below |
| `network_leak` (violated) | packets that are never freed | 1 send |
| `network_reply` (violated) | replies are delivered to `assert(0)` | 1 send |
| `vec` | an allocator that fails at any request leaves a bag; overruns only after a refused growth | sizes up to 5, capacities 0, 2, 5 |
| `node` | every failure of creation and of the loop, pings answered, cancellation anywhere, callbacks replaced meanwhile; every datagram gets out of the way | 2 datagrams of 5 kinds, 1 failure (306890 states) |
| `process` | one initialiser, a clean exit, no node before the library, quitting ends | 2 threads, 2 datagrams of 3 kinds, 2 failures (61623 states) |
| `init_ready` (violated) | a thread is told that the library is ready while it is not | as `process` |

Why the bounds are enough.

* `addr`: three bytes are the least in which a borrow is lost in a byte that
  has one below to cause it and one above to miss it; radix 2 has both digits
  of a byte at both of their extremes. A path of four bytes with a prefix of
  two has room for paths that are short, full and too long for either buffer.
* `router`: leafsets of two are the least with a nearest and a farthest leaf.
  Three peers on the right compete for two places and two of them for one slot
  of the table; of the two on the left one shares a digit with self and the
  other is as near without sharing one. The state space is finite without any
  bound on the number of calls, since leafsets hold copies up to their size.
  `NexthopProgress` quantifies over all 16 destinations and checks leafset and
  table routing in every state, whether or not the range test picks them.
  Every peer has the same network address, which can be serialised; that
  queries skip those that cannot is left to the proof.
* `race`: addresses of two bytes are the least that can tear. The two peers
  share a slot of the table and differ in both bytes, so that a mix of the two
  is the address of nobody. Two calls fill a leafset, give the slot of the
  table to its second owner, or take it away, while the reader is between any
  two of its bytes. One destination is a mix of the two peers, in their slot;
  the other is in a slot further down. A leafset that is full when a leaf is
  added is in the run `router`, and in the proofs of this module.
* `network`: `MaxSends` = 1 message of any type to a node or to a key nobody
  owns; messages do not meet in any state but the routers and the processes,
  which change by themselves in the model. `MaxChanges` = 3 changes of the
  routers, which is what the two nodes need to know each other and one to
  forget (a message that comes back to its sender), `MaxDuplicates` = 1,
  `MaxRestarts` = 1, `DefaultTTL` = 3 hops. The lengths are one shorter than a
  ping, one longer than `MaxLen`, and one longer than the header can say
  (`LenModulus`). The keys are such that the two nodes, once they know each
  other, send packets for the unowned key back and forth, so that silence
  does depend on the TTL. Node A signs and has no upcall; node B checks
  signatures, has an upcall and does not sign.
* `vec`: with a default capacity of 2 a vector of five elements has grown twice
  and shrinks twice on its way back; a capacity of 5 is odd when it is halved.
* `node`: two datagrams are a first one and one that it might block; each is
  good, cut short, unsigned, too long, or too short to have a length, and if it
  is good it is forwarded, delivered to any handler or dropped. One
  failure falls on any call. The closure takes two arguments, and the lists
  curried are such that the second may not fit. The node is created again after
  its end, any number of times.
* `process`: two threads are enough for a race of `sn_init`; two failures, for
  one of creation or of the show command and one in the loop.

Deadlock is not checked in `network`, `vec`, `node` and `process`, which may
stop: when nothing is left to receive or change, after a write past the buffer,
when a reply has ended the process, and when main has returned.

### Fairness

* `network`: weak fairness of `Receive(n)` for each node, since the background
  thread of a running process never stops receiving, and of `Discard(n)`, since
  the kernel drops datagrams for a closed port. Nothing is assumed of the
  network (datagrams need not be delivered, lost or copied), of applications,
  or of crashes.
* `node`: weak fairness of the background thread (it is scheduled, and
  callbacks return) and of `Join` (`pthread_join` returns once the thread has
  ended). `DatagramsConsumed` rests on it and on the bound on failures; it
  excepts the datagrams behind a reply that ends the process.
* `process`: weak fairness of the steps of main that do not wait for a command,
  of each thread inside `sn_init`, and of the background thread. Nobody has to
  type a command; `QuitReturns` says what follows if somebody does, unless a
  reply ends the process first.

## What was found

Each of the first five is a run that TLC violates, quoted in `PROJECT.json`
with the line of the repository that says otherwise.

* `sn_net_addr_dist` complements instead of negating (`src/net/addr.c:98`), so
  that the neighbour below a destination ties with the destination and a known
  peer need not be its own next hop (`router_known`).
* `sn_net_router_query_table` allocates one level too few (`router_query`).
* Packets are not freed when `forward` fails or a signature does not check
  (`network_leak`).
* Replies are sent, and their handler is `assert(0)` (`network_reply`).
* `sn_init` sets its flag before libsodium is initialised and leaves it set
  when that fails (`init_ready`).
* `sn_net_addr_dist` loses a borrow (`src/net/addr.c:90`). The premise of
  `DistIsRingDistance`, `BorrowsKept`, is what it takes for the distance to be
  one.
* Adding a peer twice and removing it once leaves it in a leafset
  (`src/net/router.c:432`). The premise of `RemoveUnlearns` is that there is
  one copy.
* A refused realloc leaves a doubled capacity behind, and the next push writes
  past the buffer (`src/data/vec.c:65`). `OverrunsOnlyAfterDenial` says that
  nothing else does.
* An internet address loses its port, and a local path that fills its buffer
  its last characters, when they are passed on (`src/io/naddr.c:123`, `:75`).
  `PassedOnFaithfully` says what is kept.
* A packet is not freed when receiving fails after peeking (`src/net/packet.c:46`),
  a reply when it cannot be sent (`src/node.c:221`), and up to two of them when
  the thread is cancelled. `PacketsAccounted` counts them.

In spite of the first, next hops are progress in every case (`NexthopProgress`,
proved): the comparison of candidates uses one and the same distance
throughout, so an error in it moves the goal and does not create a loop within
one router's choice. Routers that use different kinds of routing for one
destination can still send a packet back and forth; `network` shows that the
TTL ends it.

The unlocked router is better than it looks. What is chosen by distance is
compared again after it was copied, so it is nearer than self however torn it
is (`TornHopsNearer`). What is taken from the table directly is not compared:
its address may be that of nobody. From a slot that was once written it is
still an address of that slot, since any mix of two addresses that share the
digits of a slot shares them, and so the packet makes progress; while a slot is
written for the first time, each byte is one that the slot allows or the zero
that was there before (`TornHopsOfSlot`; an entry that comes out unset has the
packet delivered locally).

## Proofs

All proofs hold for every value of the constants that satisfies the named
assumptions of the modules, which TLC evaluates in the runs: radix `HexBase` at
least 2, `AddrLen` and `LeafsetSize` at least 1, any sets of peers, nodes,
threads, datagrams and elements, any bounds. For `Network`, no node has the
zero address, and the length field can say more than `MaxLen` (`MaxLen < LenModulus`).
Only the meaning of distances asks for more, an even radix, since half the
values of a byte must be half of the ring. For `RouterRace`, self is not the zero
address and not among the peers (`RaceAssumption`). Every safety property that a passing
run checks is proved: the invariants, the action properties and the three
refinements.

* `AddrProofs`: `Before` is a strict total order in which every set of
  addresses, finite or not, has a least element (by the well-foundedness of the
  lexicographic order); `Level` is the length of the longest common prefix and
  an ultrametric; an address other than self has a place in the table, and two
  addresses with the same place share one digit more.
* `MCAddrProofs`: the properties of the run `addr` for every radix, length and
  alphabet. `AddrLevelIsUltrametric`, `AddrIndexAgreesWithOrder` and
  `AddrHexRoundTrip` hold of any two addresses. For `AddrDistIsRingDistance`
  the numeral of the first k bytes (`NumeralFacts`), the carries out of the
  last ones (`CarriesFacts`) and so the value of a difference and of a
  complement (`DifferenceUpTo`, `NegateUpTo`) are shown by induction on
  the position of a byte. `NaddrPassedOnFaithfully` needs an invariant: a local
  path begins with a NUL or an ordinary character, and the first NUL after
  that is followed by nothing else (`WellFormed`). Without it a path could read
  as another one when it is printed.
* `RoutingProofs`: sorting, inserting and extracting keep a leafset well formed
  (`InsertWellFormed`, `ExtractWellFormed`); add and remove keep a router
  `Consistent`; `sn_net_entry_closest` returns the first of the nearest
  candidates, from which the progress of both kinds of routing follows. The
  strictness of "nearer" rests on self being the first candidate: a tie is won
  by self, and then there is no next hop.
* `RouterProofs`: `Consistency` is inductive, so `RouterConsistent`, and from it
  `RouterTypeOK`, `RouterTableWellPlaced`, `RouterLeafsetsWellFormed` and
  `RouterNexthopProgress`. The parts of `Consistency` need each other: that the
  sorted prefix is all there is of a leafset needs the absence of holes, and
  the progress of table routing needs the places in the table. It is the
  conjunction of the invariants that the run `router` checks and of the
  constancy of self. `RouterNoFault` needs more: that the address of
  self occurs in no table entry, not even an unset one, which holds if self is
  not the zero address of a zeroed entry and is never added or removed.
  `RouterRemoveUnlearns` counts leaves: sorting permutes them, so that insertion
  and extraction change the number of copies of one or two keys by one
  (`InsertCount`, `ExtractCount`); and a removal that the assertion stops is
  one of a peer that no leaf holds, since the slot of every leaf was written
  (`LeafSlotsWritten`). `RouterQueryLeafsetAscends` follows an answer around
  the ring; that it is complete needs that every leaf was added with an address
  that can be serialised (`LeavesAsAdded`). The refinements
  `RouterLeftIsNearest` and `RouterRightIsNearest` map every step to an offer, a
  drop or a stutter. Their invariant says that a leafset and its bag are of one
  size (`Sized`), so that both are full at once; the leaf that gives way is the
  last of a sorted array, which is a farthest of its bag.
* `RaceProofs`: `RaceInv`. `PlanInv` says of the router between two stores
  that each of its table entries is a mix, byte by byte, of addresses of its slot
  and of zero (`TornRouter`), that the cells in which it differs from the state
  the plan leads to next are those the current assignment writes, and that the
  states of the plan are sound: a store writes one cell, and from a state that
  is sound. That the stores of a call come to the step of `Router` that makes
  that call (`RaceWritesAreAtomic`) is shown by comparing the last state of a
  plan with `AddEntry` and `RemoveEntry`, through an instance of `Router`.
  `ReaderInv` says that the reader's copy is such a mix in the cells copied so
  far: each byte is taken from a mix, so the whole is one (`Mixed`), whatever
  was stored between two bytes. Hence `TornHopsOfSlot`. `TornHopsNearer` needs nothing of
  the copies but their types, only that self is the first of the candidates.
  `RaceQuietReadsExact` rests on `QuietInv`: while nobody writes, no assignment
  is pending, the cells copied so far are those of the entry, each best is what
  `sn_net_entry_closest` returns for its scan (`FoundIsResult`), and
  the scans left are the rest of those of leafset or of table routing. At the
  end the candidates are the ones that `LeafsetHop` or `TableHop` compares.
* `NetworkProofs`: `NetworkInv`. Every packet in flight tells the truth about
  the message it carries or is the answer to a ping (`TruePacket`), and a
  handled packet leaves one datagram, one upcall or neither (`Outcome`, shown
  of `Forward`, `Deliver`, `SendTyped` and the loop in turn). `NotMultiplied`
  counts upcalls and datagrams of a message together; a new message starts at
  zero since no datagram or upcall has an id that was not sent yet. The
  invariant of the routers is `Consistent`, from `RoutingProofs`; it is what
  makes a next hop a node.
* `NodeProofs`: five invariants. `LifeInv` ties what the node holds to where
  the application is: a failed creation has given back what it acquired, and
  nothing is given back before the thread has ended, which is what
  `NodeNoUseAfterRelease` and `NodeNothingLeftBehind` need. `ThreadInv` says what
  each step of the thread knows: the queue of the socket is the end of what
  arrived, in order, the packet in hand is the datagram received last, and
  every packet that is not freed is matched by a rejection, a failure or the
  thread, which has two in hand from packing a reply to freeing it or losing
  it, and only then: what is left to do tells which (`Plain`, `Answering`,
  `Aborting`). `NodeHandledFaithful` and `NodePacketsAccounted` follow.
  `NodeClosureOutlivesCalls` has its own: what is installed is not freed.
  `NodeLogArguments` needs that besides `ArgumentsInv`, that a closure holds the
  arguments curried into it below its count; a currying that fails has written
  above the count only. `NodeTypes` needs that the packets in hand are among those not
  freed (`BoundsInv`), so that the count of packets never goes below zero.
  Of the process: every step of the program on its node is a step of
  `NodeLife` or a failure, so the invariants of the node carry over; `MainInv`
  ties the place of main to that of the node (`ProcessCleanExit` excepts the
  command show, which returns with the node up, `prototype/main.c:107`), `CallInv` says what main knows
  while no other thread has called `sn_init` (the premise under which
  `ProcessLibraryBeforeNode` promises a library that is ready), and `LibInv` that the flag is set
  by the one thread that is in `sodium_init`, or was.
* `VecProofs`: `VecInvariant` says that size, recorded capacity and buffer agree
  until a growth is refused, and that the elements lie within the buffer even
  then; growing, removing and shrinking (by half, once half is enough) keep it.
  `VecIsCollection` counts the places at which an element lies (`Held`): a push
  adds one, a removal moves the others (`TakenOutHeld`), and resizing keeps
  those below the size.

Theorems with an operator for a parameter, such as induction over the naturals,
cannot be instantiated by the provers used here. Inductions are made over the
set of positions for which a fact holds (`LeastNatural`, `EveryNatural`), and a
recursive function is shown to exist in the same way before its equation is
used.

Model-checked only: liveness (`EventuallyQuiet`, `DatagramsConsumed`,
`QuitReturns`), which is out of the provers' reach. The five violated runs are
counterexamples and have nothing to prove.

## What is not modelled, and why

* `sn_net_router_table_set` and `sn_net_router_leafset_set` store anything
  anywhere, so that nothing above survives them; only tests call them.
* Printing (`to_str`, logging) and the copying accessors. This leaves out the
  size arithmetic of `sn_net_router_to_str` (`src/net/router.c:151`).
* The removal of a peer that shares a slot of the table with another unsets the
  other's entry (`src/net/router.c:399`). It is in the model; no property says
  that it should not, for no document does, and next hops stay progress.
* Weak memory. Callbacks are published by a relaxed store before the release
  fence (`src/node.c:149`); the models are sequentially consistent, with
  one byte as the unit of a store and a load in `RouterRace`. That module has
  none of the states inside `qsort`: the sort is an assignment of the sorted
  leafset, its cells in any order.
* The bytes of a network address in `RouterRace`: the router never looks at them,
  and the address read with an entry while somebody writes is any. There is one
  writer and one reader, who do not share anything else.
* A callback that destroys its own node (`src/node.c:136`): nothing says whether
  it may.
* `Network` takes each use of the router, and each iteration of the loop, as
  atomic; `RouterRace` and `NodeLife` have what happens inside. `NodeLife` in
  turn lets a packet go any way, and counts only the packets of the background
  thread. The length at which a ping is read (`src/handler.c:71`) is
  recorded as a defect in `Network`, and no document bounds it.
* The byte that `strncpy` writes behind a local address (`src/io/naddr.c:42`)
  and the stack bytes that main takes for an address when parsing it fails
  (`prototype/main.c:98`): memory outside the objects is not modelled.
* The layout of packets, signatures and the kernel: a packet is signed by its
  source or is not, and a datagram arrives, is lost or is copied. The retry of
  `close` after an interruption adds no state.
* The reply subscriptions of `node.c` are declared and never used, `sn_node_join`
  is a stub, and all forward handlers are NULL.
* The parsing of commands in `prototype/main.c`.

## Plan

Done: the modules and proofs above. What is left, in order:

1. A model of the callbacks' publication with stores that become visible late,
   and the states inside `qsort` for `RouterRace`.
2. A composition of `NodeLife` with the routers of `Network`, so that the ways
   of a packet through a node that is being destroyed are those its router
   chooses.
