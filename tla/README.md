# A TLA+ verification of MininetCodingSwitch

MininetCodingSwitch is a set of cooperating experiments around a network-coding
switch: a learning switch and a coding forwarder on DPDK, an OpenFlow
controller for POX, Mininet topologies, and the Go library `go-openvswitch`
that talks to Open vSwitch. This directory models the parts that keep state and
run concurrently, checks them with TLC on small instances, and proves what
matters most with TLAPS.

Contents: [inventory](#inventory), [plan](#plan), [modules](#modules-and-the-code),
[runs](#runs), [proofs](#proofs), [not modelled](#what-is-not-modelled).

## Inventory

Paths are relative to `src/`; `go/` stands for `ntlink/go/go-openvswitch/`.

| Component | State | Operations | What is hard | What makes it correct |
|---|---|---|---|---|
| OVSDB client `go/ovsdb/client.go`, `rpc.go`, `result.go` | map of callbacks under `cbMu`, atomic request counter, channel `echoC`, context, statistics | `New`, `rpc` (behind `Echo`, `ListDatabases`, `Transact`), `listen`, `doCallback`, `echoLoop`, `echoTicker`, `Close` | four kinds of goroutine; timeouts that race replies; a select under a lock; close while calls are half way | a reply reaches its own call, nothing stays in the map, nobody panics or waits for ever, Close is final |
| JSON-RPC connection `go/ovsdb/internal/jsonrpc/conn.go` | encoder and decoder with sticky errors, socket | `Send`, `Receive`, `Close` | errors that repeat; peer that closes | listen tells the end of the connection from a bad message |
| DPDK learning switch `l2fwd_daniel/main.c` | MAC table and counter, TX buffers, port lists, `force_quit` | port setup, link check, lcore loops, learn/forward/flood, drain, shutdown | lcores share everything without locks; an mbuf has one owner; buffers wait for a drain; quit at any time | table sound and in bounds, mbufs conserved, frames forwarded, ports closed last |
| Port ranges `go/ovs/portrange.go` | none | `BitwiseMatch` | 16-bit arithmetic at both ends of the space | exact and coarsest cover |
| Flow transactions `go/ovs/openflow.go` | pending flows, sticky error, commit flag | `Add`, `Delete`, `Commit`, `Discard`, `AddFlowBundle` | call sequences nobody wrote down | all or nothing |
| Command execution `go/ovs/client.go` | shared flag slices, child process pipes | `exec`, `pipe` | bounded pipes, aliasing of slices | a command gets its own arguments and ends |
| Flow, match and action texts `go/ovs/{flow,match,action}*.go` | none | constructors, `MarshalText`, `GoString`, parsers, `MatchFlow` | nested parentheses, integer widths, spellings of addresses | parsing inverts formatting, a deletion selects its flow |
| Dumps `go/ovs/{openflow,table,flowstats,portstats}.go` | none | `DumpPorts`, `DumpTables`, `DumpFlows`, `DumpAggregate` | output cut off or mixed with warnings | a beginning of the true list, or an error |
| vswitch commands `go/ovs/vswitch.go` | none | one command each | - | - |
| Coding controller `pox/pox/misc/coding_switch.py` | MAC-to-port map; flows in the switch | `_handle_PacketIn`, `launch` | what is installed outlives what is known; reconnection | flows agree with where hosts are |
| Coding forwarder `skeleton1/basicfwd.c` | mbufs, rings; encoder, decoder | `port_init`, `lcore_main` | every burst has to be freed or sent; a read behind an array | every mbuf has one owner and comes back, frames go to the port of their address |
| Netlink client `go/ovsnl/` | connection, services | `New`, `init`, `initFamily`, decoding of datapaths and packets | kernels with other families or attribute sizes | a whole client or a closed connection, whole datapaths |
| Topologies, scapy scripts, shell setup | none | - | - | - |

Interactions: the users of `ovsdb.Client` share one connection with its
background goroutines; `listen` is the only reader and hands replies to callers
through the callback map, and echo requests to `echoLoop` through `echoC`. In
the switch, `main` starts ports and lcores, the lcores share table and TX
buffers, and a signal handler sets `force_quit`. Flows that the controller or
`go-openvswitch` installs are read by Open vSwitch, outside this repository.

The hazards of this code, each at its line and with the properties that watch
it, are listed in `PROJECT.json`.

## Plan

Done, in this order of importance:

1. `OvsdbClient`, the concurrent core of the Go library, with its proofs.
2. `L2Fwd`, the switch: setup, forwarding, races, shutdown.
3. `RpcCalls`, what the client promises its callers, and `OvsdbRefinement`,
   which maps `OvsdbClient` to it.
4. `FlowBundle`: `FlowTransaction`, `AddFlowBundle` and `shellPipe` with a child
   process and bounded pipes.
5. `Commands`: goroutines that run commands of one shared client.
6. The text formats and their parsers (`OvsText`, `PortRange`, `OvsMatch`,
   `OvsMatchParser`, `OvsAction`, `OvsActionParser`, `OvsFlow`), the dumps
   (`OvsDump`) and netlink (`OvsNetlink`), composed in `OvsLibrary` and `MCOvs`.
7. `CodingSwitch`: the POX controller composed with switch, connection and hosts.
8. `BasicFwd`: bursts and mbufs of the coding forwarder.

Then the proofs:

9. `OvsdbClientProofs`: the client's invariants, and that it implements `RpcCalls`.
10. `CodingSwitchProofs`, `BasicFwdProofs`, and `OvsExecProofs` for commands and
    bundles.
11. `L2FwdProofs`: the switch for any number of lcores, then for one.
12. `DataInduction`: induction on numbers and on recursive functions, in a form
    the provers can use.
13. `OvsTextProofs` and `OvsLibraryProofs`: what the operators of the library
    compute, for every input.

Left: `DumpSound` beyond the cutting of lines, and liveness, which stays with TLC.

## Modules and the code

### `OvsdbClient` (and `MCOvsdbClient`, `OvsdbClientProofs`)

One module for the client and its connection, because every step of the one is
a step of the other. `pc[p]` is the position inside `rpc()` of each goroutine
that performs it: the callers and `echoLoop`. A step is what happens between
two points where another goroutine can interfere: taking an ID (`Begin`),
registering (`AddCallback`), writing (`Send`, `SendError`), the `select`
(`AwaitCanceled`, `AwaitResponse`, `AwaitClosed`), the deferred delete
(`Cleanup`). `doCallback` is three steps, `Lookup`, `Deliver`, `Finish`, since it
keeps `cbMu` across a `select`; the other critical sections are single steps
guarded by `~cbMu`. The rendezvous on `echoC` is a joint step of sender and
`echoLoop` (`ListenEcho`, `TickerEcho`). `Close` is its three calls.

A caller's one-slot response channel is `chVal[p]`, `chClosed[p]`: a new one is
made by each `Begin`, and after `Cleanup` no reference to it is left, so one per
goroutine is enough. A panic (`crashed`) ends the process: three exist, a request
ID registered twice, a send on a closed channel, and a null ID dereferenced in
`listen`. The decoder's error is sticky: after a syntax error, or a message cut
short, `json.Decoder` repeats it, `listen` "keeps trying", and no step of it
changes the state again. A message that is valid JSON of the wrong type is
consumed, and only that message is lost. The encoder is sticky too (`encErr`): a
write that failed is the answer to every later `Send`; arguments that cannot be
marshalled fail their own call only.

The server is the environment. It answers requests in any order or never, and
sends what the constant `Unsolicited` allows: echo requests, responses with an
ID that is old, guessed or unknown, notifications, malformed input, end of file.
Payloads are abstracted to the four outcomes that `rpcResult` tells apart.

### `L2Fwd` (and `MCL2Fwd`, `L2FwdProofs`)

`main` walks through port setup, link check, running, waiting and closing; each
lcore has its local variables in `lc[l]`, with a `pc` that follows
`l2fwd_main_loop` and `l2fwd_learning_forward`. Every access to shared memory is
a step of its own: one table entry compared, a TX buffer's length read, then
written, an address, a port and the counter stored. The compiler may re-read
`mac_counter` for the port and for the increment or reuse the value it has, and
`LearnPort` and `LearnCount` allow both. What an lcore wrote back after it was overtaken overwrites what the
other wrote.

DPDK is external and modelled from its use: `rte_eth_tx_buffer` appends and
flushes when full, a flush hands mbufs to the NIC, which returns them to the
pool, and a refused frame calls the error callback that `main` installs, with
the pointer 1. A memory error ends the process (`fault`). `seen` and `sent` are
history variables that only the properties read; `sent` records what was queued
and what the mbuf held when it left. Entries never written hold the address
zero; the constant `ZeroAddress` says whether frames may bear it.

`packet_counter`, a number printed on the console, is left out.
`l2fwd_arp_reply` and `port_ip_lookup` are never called.
Argument parsing is represented by the constants it sets; `SwitchAssumption`
excludes what makes the search for an lcore run off its array.

### `RpcCalls` and `OvsdbRefinement` (proved in `OvsdbClientProofs`)

`RpcCalls` knows calls, IDs, contexts and the answers that exist, and none of
the machinery: a call is started, gets an ID no other call had, and returns
once. It may return nil only if an answer with a result and its own ID exists,
the context's error only if its context is done, another error only after the
request. `OvsdbRefinement` maps the client to it: a call is over when `rpc` has
set its return value, and the answers are those in the socket, in the hands of
`listen`, in a response channel or taken from one (`Status`, `Done`, `Answers`).
Registration, locking,
delivery and clean-up are then steps that change nothing, or that only throw
answers away.

### `OvsText`, `PortRange`, `OvsMatch`, `OvsMatchParser`, `OvsAction`, `OvsActionParser`, `OvsFlow`

Pure operators, one per constructor, marshaller and parser. A text is a
sequence of pieces: a number in the base it is written in, an atom that stands
for an address or word in one spelling, or a character that a parser looks for.
So a decimal number read as hexadecimal, a truncated number, a second spelling
of an address or a comma inside parentheses are all what they are in the code.
The widths of machine integers are constants; the configuration scales them
down (4, 5, 6, 8, 10 bits for 8, 12, 16, 32, 64) and keeps their order, so every
comparison and every conversion meets its boundary. Error values are one value
`Fail`; a panic of the code is `Panic`. `BitwiseMatch` is a recursive function
on integers of `U16` bits.

### `OvsDump`, `OvsNetlink`

`OvsDump` reads the lines that `ovs-ofctl` prints: `parseEach` with its pairs of
lines, `parseEachLine`, and the three `UnmarshalText` that count and split
words. `parseEach` joins two lines with nothing in between, so words merge when
the second is not indented, as a warning is not (`AppendLine`); a line over the
scanner's 64 KB ends the scan with an error (`Scanned`). Output is cut between
lines: half a line can look like a whole one with smaller numbers, and no parser
could tell. `OvsNetlink` has the choice of families in `New` and the decoding of
messages: a fixed header by its size, attributes by type and size. Attributes
that do not parse (`torn`) are an error; the panic of `nlenc.Uint32` is told from
an error.

### `OvsLibrary` (and `OvsTextProofs`, `OvsLibraryProofs`)

Asks these operators one question at a time; `query` holds it. The inputs are
boundary values: zero, the largest number and one above it, negative numbers,
each spelling of an address, masks, two actions in a row, flows that were used
before, outputs that are whole, cut or interrupted by a warning, lists of
families, attributes in both orders and of wrong sizes. What Open vSwitch, the
Go compiler and the kernel mean by a text is written next to the property that
needs it.

### `FlowBundle` (and `OvsExecProofs`)

The function given to `AddFlowBundle` makes any `MaxCalls` calls on the
transaction, with flows that do or do not marshal. `shellPipe` then copies the
flows to standard input, closes it, reads standard output to its end, then
standard error, and waits. The child is external: it reads, speaks on either
stream and waits for room, applies the bundle or refuses it, or dies at any
point. `asked` and `late` record what was called, for the property.

### `Commands` (and `OvsExecProofs`)

A Go slice is a length and a capacity, and `append` writes into the spare
capacity when the words fit. The options given to `New` decide how much there
is. Goroutines append their words to the client's flags, `exec` copies what the
slice holds by then. `overlapped` records which of them were between their
append and `exec` at the same time. `CommandIntact` says that a command has its
caller's own words unless it was overlapped and the words fit behind the flags:
commands built one after the other may reuse the same spare capacity, and
without room even overlapping ones stay apart. The case that is left is real
(SetSSLParam then FlowFormat leave room for two words), and `PROJECT.json` lists
it as a hazard.

### `CodingSwitch` (and `MCCoding`, `CodingSwitchProofs`)

The controller has one table per connection. The switch is external: frames no
flow matches go to the controller with the frame kept in a buffer, `flow_mod`
and `packet_out` come back in order and release it. The match is made from the
packet alone, so it names no input port. What is appended to an action list
after the output does not change what was sent. A reconnection loses what was
under way, empties the flow table (POX does this) and starts a new controller
object. `got`, `lost` and `moved` are read by the properties only.

### `BasicFwd` (and `MCCoding`, `BasicFwdProofs`)

One pass of `lcore_main` is one step per port: a burst is received, the last
octet of its first frame decides, the burst is transmitted, or forgotten. The
search runs to `sizeof(dst_macs)`, past the array; what lies there is any value,
and a port that does not exist ends the run (`crash`). A burst that is neither
sent nor freed is `stranded`. The encoder and decoder
of kodo only print and are left out.

## Runs

All bounds are constants of the configurations. State counts are for orientation.

| Run | Instance | Shows |
|---|---|---|
| `ovsdb_safety` | 2 callers, 3 RPCs, 1 stray reply, `echoLoop` idle; 1.40 M states | RepliesMatch, NilMeansResult, NoCallbackLeak, DeliverNeverBlocks, NoPanic |
| `ovsdb_background` | 1 caller, ticker, `echoLoop`, any one message of the server, errors in replies, loss of connection, Close; 1.31 M | TypeOK, QuietAfterClose, ImplementsRpcCalls |
| `ovsdb_liveness` | 1 caller, an answering server, the ticker, one message of any kind but malformed; 325 k | CloseReturns, CanceledCallReturns, AnsweredCallReturns, EchoTakenOrStalled |
| `ovsdb_echo_stall` | the ticker and one server echo | EchoRequestHonoured fails |
| `ovsdb_close_hang` | one malformed message | CloseReturns fails |
| `l2fwd_single` | 1 lcore, 2 ports, 2 hosts, 2 mbufs, 3 frames; 621 k | TypeOK, TableSound, NoTableOverrun, MbufConserved, NeverReflected, EveryFrameForwarded |
| `l2fwd_shutdown` | 2 working lcores and an idle one, failing setup, refusing NIC, a signal at any time; 101 k | NoUseOfClosedPort, QuitTerminates |
| `l2fwd_tx_queue` | 2 lcores | DedicatedTxQueue fails |
| `l2fwd_flood` | 1 lcore, 3 ports | SentIntact fails |
| `ovs` | scaled integer widths, boundary inputs; a bundle of up to 4 calls, pipes that hold 1 write; 2 callers; 171 k | ExactCover, CoarsestInOrder, MatchRoundTrip, NumbersKept, GoStringDenotes, ActionsRoundTrip, FlowRoundTrip, DropAlone, MatchFlowSelects, DumpSound, ClientReady, DatapathWhole, NilMeansApplied, CommandIntact, BundleReturns |
| `coding` | the controller: 2 hosts, 2 ports, 3 frames, 1 move, 2 connections; or the forwarder: 2 ports, bursts of 2, 3 mbufs; 3.2 M | TypeOK, FlowsLeadHome, EveryFrameSettles; OneOwner |
| `basicfwd_burst` | the forwarder, frames for either port | ByOwnAddress fails |

### Why these bounds are enough to be interesting

Three RPCs of two callers let one goroutine be in its second call while a reply
to its first is on the wire and another call is in flight: the shortest way to
mix replies up. One stray reply makes every duplicate and every guess. In the
background run one unsolicited message and one tick meet one call; the malformed
message, the notification and the end of file end the conversation anyway. In
the liveness run a server echo can meet an `echoLoop` that is busy with its own,
so the circle of the two is entered.

For the switch, two mbufs and three frames force an mbuf to be reused, two entries
fill the table, a TX buffer of two can be left half full, and two hosts can each
be known or unknown when the other writes. Two lcores suffice for every pairwise
race; the third one has no ports and shows that main waits for it too. With six
bits `BitwiseMatch` recurses several levels deep and meets every alignment of
start and end and both ends of the space. It only ever recurses to the left: the
block it picks ends with the range, so the code for a remainder on the right is
never reached (a step of the proof below).

In `ovs` the questions, the bundle and the commands share no state that one of
them writes, so `MCOvs` runs one of them in a behaviour. Four calls are enough
for a valid flow, an invalid one, Commit and something after it. A pipe that
holds one write blocks its writer, and the child's streams never hold more than
fits (`MaxOutput` = `PipeCap`): beyond that `shellPipe` and the child can wait
for each other, since standard error is read last.

In `coding`, too, `MCCoding` runs one of two programs that share nothing. Three
frames teach the controller a host, install a flow and use it, while a move and
a reconnection come in between. In the forwarder a third mbuf is received while
two are on their way, and the octets name no port, both ports and a port that
`dst_macs` names but the machine does not have.

### What the failing runs show

* `ovsdb_echo_stall`. `listen` waits in an unbuffered send on `echoC`; if the
  ticker has just made `echoLoop` send its own echo, `echoLoop` waits for a reply
  that only `listen` can read. Both wait until Close, and the server's echo,
  which "the Client will always reply to", is not answered.
* `ovsdb_close_hang`. "For any other connection errors, just keep trying": after
  a malformed message the decoder repeats its error for ever, also when the
  connection is closed, so `listen` never exits and Close waits for it.
* `l2fwd_tx_queue`. "Each logical core is assigned a dedicated TX queue on each
  port", yet one queue is configured and every lcore uses queue 0.
* `l2fwd_flood`. A flooded mbuf is queued for several ports with one reference.
  The first transmission frees it, the next frame is received into it, and the
  second port sends that frame. With two ports there is one copy only, and
  `l2fwd_single` shows MbufConserved.
* `basicfwd_burst`. "forward data according to received DST mac to a specifc
  port": only the first frame's address is looked at, and the whole burst goes to
  its port.

### Other claims that the code refutes

These configurations state a comment or a message of the code as an invariant
too, and TLC finds it violated. They need a single unusual input, or
a second lcore, rather than a long interleaving, and are kept beside the runs.

| Configuration (module) | Invariant | What happens |
|---|---|---|
| `OvsdbNullId` (`MCOvsdbClient`) | NoPanic | "Handle any JSON-RPC notifications" (`client.go:283`): only echo is; another one falls through to `doCallback(*res.ID, ...)` with a null ID |
| `L2FwdZero` (`MCL2Fwd`) | NeverReflected | "Check if MAC forwarding table has port entry for dst" (`main.c:181`) compares entries never written: a frame to 00:00:00:00:00:00 equals all of them and is queued on port 0 as often, also if it came from there |
| `L2FwdLearnRace` (`MCL2Fwd`) | TableSound | "Add MAC address to MAC table" (`main.c:214`): two lcores that read the same counter leave an entry with the address of one host and the port of the other |
| `L2FwdTableFull` (`MCL2Fwd`) | LearnedInTable | the counter is never compared with `MAC_ENTRIES`; one more host is written behind the table |
| `OvsHexCut` (`OvsLibrary`) | HexReadWhole | "parseHexUint16 parses a uint16 value" (`matchparser.go:350`): it parses 32 bits and keeps 16 |
| `OvsResubmitLimit` (`OvsLibrary`) | ResubmitPortLimit | "resubmit port must be between 0 and 65279 inclusive" (`action.go:47`); the code's limit is 0xfffffeff (`action.go:444`). Both limits are scaled like the widths they belong to |
| `OvsDropCase` (`OvsLibrary`) | DropAloneInCapitals | "Action "drop" must only be specified by itself" (`flow.go:317`): the parser reads DROP as drop, the test compares the raw text |
| `BasicFwdDeaf` (`BasicFwd`) | NeverDeaf | "Free any unsent packets" (`basicfwd.c:299`): a burst that starts with a broadcast, or is for no port, is neither sent nor freed; when every mbuf has gone that way nothing is received any more |
| `BasicFwdCrash` (`BasicFwd`) | NoCrash | "Run until the application is quit or killed" (`basicfwd.c:189`): the search runs behind `dst_macs`, and a hit there names a port that does not exist |

Deadlock checking is off in the configurations because the programs may stop:
callers that have no call left, a closed client, an exited process.

### Fairness

* `OvsdbClient!Fairness`: weak fairness of each goroutine's steps. The Go
  scheduler runs every runnable goroutine, and its mutexes hand over to waiters
  after a millisecond. A caller need not call, cancel or close; once Close is
  called it goes on. The server owes nothing.
* `AnsweringSpec` adds that the server answers a request it has received. What
  is said of answered calls and of echoes (AnsweredCallReturns,
  EchoTakenOrStalled, EchoRequestHonoured) is about such a server. The first two
  except the circle in which `listen` and `echoLoop` wait for each other
  (`EchoStall`), and show that there is no other way to get stuck.
* `L2Fwd!Fairness`: weak fairness of main and of each lcore (a CPU each), strong
  fairness of `LoopDrain`: whether a turn of the loop drains depends on a clock
  that always advances, so a drain falls due infinitely often. No fairness for
  the signal, the links or the network.
* `FlowBundle!BundleFairness`: `shellPipe` goes on when it can, and so does the
  child with reading, with a write that has room and with the bundle once its
  input has ended. The child need not speak and need not fail.
* `CodingSwitch!Fairness`: POX's event loop handles a packet_in that is there, the
  switch obeys a message it has received. Hosts need not send, nothing has to
  move, and no connection has to be made.

## Proofs

`OvsdbClientProofs` proves, for any set of callers, any server allowed by the
constants and any bounds, from `ClientAssumption` alone:

* `TypeCorrect`;
* `RepliesMatchThm`, `NilMeansResultThm`, `NoCallbackLeakThm`,
  `DeliverNeverBlocksThm` from the inductive invariant `IndInv`;
* `NoPanicThm`, with the assumption that the server sends no notification but
  echo: with one the code dereferences a null ID, and so does the model
  (`OvsdbNullId.cfg`);
* `QuietAfterCloseThm`, an action property.

None of the four invariants is inductive. That a reply meets the right call
needs that IDs are never shared and never ahead of the counter (`RequestIDs`);
that a nil error comes with a result needs that a channel found closed and empty
belongs to a done context (`EmptyMeansDone`), which in turn needs that a reply
which was not dropped is still in the channel when it is closed (`Channels`),
that `cbMu` is held across delivery (`CallbackLocked`), and that the goroutine
has not moved on (`NoCallbackLeak`, `Returns`). `IndInv` is the conjunction. The
step lemma has one case per action; the cases that carry the argument are
`Begin` (a fresh ID is above all others), `AddCallback`, `Deliver` and `Finish`
(one owner per callback) and `Cleanup` (a call leaves only after its own delete).
`IndInv` was checked by TLC before it was proved.

`ClientImplementsRpcCalls`, in the same module: for every value of
the constants each behaviour of `OvsdbClient` is one of `RpcCalls` under the
mapping of `OvsdbRefinement`. Each action of the client is shown to be one of
the abstract actions or a step that at most loses answers. `IndInv` is needed
again: that `AwaitResponse` returns an answer to its own request rests on
`Channels`, that `AwaitClosed` returns only after the context ended on
`EmptyMeansDone`, that a fresh ID is fresh on `RequestIDs`. One more invariant,
`OnlyIssued`, says that the server has no request with an ID that was never
issued, so the answers it makes up are to calls that exist.

`CodingSwitchProofs` proves `TypeCorrect` and `FlowsLeadToHosts`, for any hosts,
ports, buffers and connections. FlowsLeadHome is not inductive: a flow is
installed from a message, made from a table entry, learned from a packet_in. The
invariant follows the port along that way (`HomeInv`), and needs that packets
and messages under way are about frames that were sent (`Channels`). A host that
moved while the connection was up is excepted at every stage, as in the property.

`BasicFwdProofs` proves `OneOwnerOfEachMbuf` for any number of ports, mbufs and
any burst size. `Owned` says with quantifiers what OneOwner counts: each mbuf is
somewhere, and no two places hold the same one. `OwnAddressInBurstsOfOne` finds
the boundary of what `basicfwd_burst` refutes: with bursts of one frame, and no
more ports than `dst_macs` has entries, every frame waits at the port of its own
address (`AtOwnPort`), whatever the memory behind the array holds, because a hit
there names a port that does not exist. With more ports than entries it would
name one that does.

`OvsExecProofs` proves `CommandsIntact`, for any number of goroutines and any
capacity of the flags. While a caller that was not overlapped prepares its
command its words are in its slice, shared or not (`Own`), because whoever
appends in between marks it; a caller whose words did not fit has a slice of its
own (`Apart`).

It also proves `NilMeansBundleApplied`, for any number of calls and any pipe: the
invariant is that what the child has read, what is in the pipe and what
`shellPipe` has still to write are together the flows of the transaction, in
order. `NilMeansApplied` reads its last stage off it.

`L2FwdProofs` proves, for any number of lcores and ports, `TypeCorrect` and
`PortsOpenWhileUsed`. Type correctness needs a stronger invariant (`TypeInv`): an
mbuf that is in a queue, a burst or a local variable has been filled with a frame
(`Full`), and inside `l2fwd_learning_forward` the local variables are in a sane
combination (`Sane`). With shared buffers and no locks this is all that can be
said of an mbuf. `MainInv` says what main has done when lcores run.

Its second part adds the hypotheses of one lcore and of no frame that bears the
zero address (`NoZeroAddress`). `TableNeverOverrun` holds
for any number of ports: the table is filled from the bottom without gaps and
without an address twice (`TableInv`), entries compared so far differ from the
source unless `mac_add` is set (`ScanInv`), so an address is only ever added
after the whole table was compared, and the pigeonhole principle leaves it a free
entry. `TableIsSound`, `MbufsConserved`, `FramesNotReflected` and
`FramesSentIntact` also assume two ports, for any number of hosts, mbufs and
table entries and any burst size. The invariant gives every mbuf exactly one
place at every step, also inside `l2fwd_learning_forward` (`OnePlace`): pool, RX
queue, burst, held by the lcore, TX buffer. Its content agrees with its place
(`QueueContent`, `MyContent`): a frame in an RX queue came in there, a frame in a
TX buffer is the one that was queued and may leave there. Why a frame is queued
once is the core of it: a second match in the table would be a second entry with
that address, and of two ports flooding serves one. All hypotheses are needed.
With a frame to the zero address every empty entry matches (`L2FwdZero.cfg`).
With three ports a flooded mbuf is in two TX buffers, is freed twice, and all
four fail (run `l2fwd_flood`); with one port a frame that is flooded is queued
nowhere and never freed; with more lcores two of them may enter the same host or
overwrite each other's TX buffer (`L2FwdLearnRace.cfg`). Each part of these invariants was an invariant
of a TLC run on the instance of `l2fwd_single` before it was proved.

### The stateless library

`OvsTextProofs` and `OvsLibraryProofs` prove what the operators compute for every
width of the machine integers and every input of the Go types, and apply it to
`LibrarySpec`: eleven of its twelve invariants are theorems
(`LibrarySpec => []ExactCover` and so on), each from a general theorem about the
operators that names no question and no constant beyond the widths.

Induction. The library's induction theorems take a predicate as parameter, which
the provers cannot instantiate. `DataInduction` goes another way: every set of
natural numbers has a least element (well-foundedness of `<`), so what is proved
by induction is stated as a *set* of numbers (`InductionOnSet`,
`StrongInductionOnSet`, `InductionUpTo`), and the loops of the code are recursive
*functions* over positions, whose defining equation comes from the same lemma.
Laws of powers of two and of division follow.

* `MaskedPortsCover`, `BitwiseMatchCoarsest`, `NoSmallerCover`. Strong induction
  on the end of the range. The block picked is aligned, inside the range and ends
  with it; what is left is a range with a smaller end. `BitwiseMatch` is a
  function of 16-bit records, so each step also shows that no subtraction wraps.
  For the size of the cover: aligned blocks are nested or apart, hence in any
  exact cover by aligned blocks the one that holds the start of a maximal block
  lies in it, and two maximal blocks do not share it. Masks with a wildcard
  above a fixed bit are not aligned blocks; with those a smaller cover can exist,
  and `BitwiseMatch` does not look for it.
* `MatchesRoundTrip`, `NumbersAreKept`. One case per type of match. A number is
  read in the base it was written in; a mask, an address in canonical spelling
  and a list of three-letter flags are themselves after parsing. `TypedMatch`
  holds the arguments to their Go types.
* `ActionsReadBack`. The reader passes a text whose parentheses nest to its end
  with the stack at its old height, and cuts at a comma only with an empty stack;
  by induction on the number of actions it cuts a joined list where it was
  joined. Then one case per type of action. `TypedAction` says what is left out,
  and each omission is a property of the code: `setTunnel` has no parser, a
  negative number in `resubmit(p,t)` is not matched by its regular expression, an
  operand of load or set_field must not contain the words the regular expression
  looks for, and the arguments of `ct` must nest and hold no space.
* `FlowsReadBack`. A loop over the fields of the text; each known key sets its
  field and no other, each match appends itself. The text leaves out a protocol,
  an input port and a cookie that are not set, and `UnmarshalText` then keeps
  what the Flow had: `CanHold` says which Flows may be read into, and every new
  one is among them.
* `DropIsAlone`. The code compares texts, so this needs that no other action has
  the text `drop`.
* `DeletesOnlyItsOwn`. A flow is compared with the text of a deletion as a set of
  fields.
* `CutDumpIsPrefix`. Induction on the lines: `parseEach` consumes whole groups.
  The output has no line that is too long for the scanner.
* `NewClientReady`, `ReplyDecodedWhole`. Loops over families, messages and
  attributes. With distinct families and four counted, the four known ones are
  all there; an attribute of a wrong size, or a message whose attributes do not
  parse, makes the whole reply an error. A panic comes from a features attribute
  that is not of four bytes, and `PktList` has none.
* `MatchSourceDenotes`, `ActionSourceDenotes`. One case per constructor, for
  arguments of any value.

### Only model-checked

* The liveness properties (CloseReturns, CanceledCallReturns,
  AnsweredCallReturns, EchoTakenOrStalled, EveryFrameForwarded, QuitTerminates,
  BundleReturns, EveryFrameSettles): fairness and ENABLED are out of the
  prover's reach.
* `DumpSound`: it compares sample outputs of ovs-ofctl, built with the library's
  sequence folds, with the records they describe. How a cut output is grouped is
  proved in general (`CutDumpIsPrefix`); that each of the sixteen words of a line
  ends up in its field is left to the run.
* That the runs which expect a violation find one.

## What is not modelled

* Back-pressure: a `Send` that blocks, whatever its context, because the server
  does not read.
* `Client.Stats`, which only reads; logging and debug wrappers.
* In the switch, command-line parsing and the console output.
* `VSwitchService` in `go/ovs/vswitch.go` and `ovs.Error`: one command with the
  caller's arguments and its output passed on; no state and no decision.
* In `go/ovs/client.go`, sudo, the debug output and the slice of the `--timeout`
  flag, which has no spare capacity with fewer than three options.
* In `go/ovsnl`, the socket calls of `List` and `PktList` and the printing of
  features; the constants, which are generated from kernel headers.
* The kodo encoder and decoder in `basicfwd.c`, whose results are only printed.
* Topologies, scapy scripts, netlink experiments and shell setup: they configure
  external tools and keep no state.
