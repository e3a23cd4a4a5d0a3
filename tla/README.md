# peer2peer_cpp: TLA+ models and proofs

The program is a small peer-to-peer messenger in C++: a coordinator that tells
nodes of each other, nodes that connect to each other over authenticated and
encrypted TCP connections, a daemon with a control socket, and a shell. This
directory holds TLA+ models of it, the TLC configurations that check them, and
proofs that TLAPS checks. Source paths below are relative to `src/src/`.

## 1. Inventory

| Component | State | Operations | Hard part |
|---|---|---|---|
| Coordinator (`coordinator/`) | `peers_`: entries with a key, an address and `last_seen`, under `mu_`; memory only | REGISTER, GET_PEERS, one thread per connection | stale clock reading, concurrent registrations, restart with nothing known |
| Coordinator clients (`node/node.cpp` 23-68, 109-142) | the refresh thread's sleep | `coordinator_register_and_get` every 10 s, `coordinator_get_peers` for inbound connections | failed attempts against the 30 s TTL |
| Handshake (`session/session.cpp` 91-222) | ephemeral keys, identities | HS_INIT, HS_RESP, HS_FINISH, OK | a connection lost or a peer giving up between any two messages, no timeouts |
| Session (`session/session.cpp` 51-87) | two keys, `send_ctr_` | `send`, `recv` | nonces unique and in order although the receiver checks neither |
| Peer connection (`node/node.hpp` 26-55) | session, socket, `send_mu`, `chunks` | `send_msg`, `send_chunked_msg`, `recv_msg` | several sending threads; a failure in the middle of a transfer |
| Chunked transfer (`transfer/`) | `map_` of open transfers, each with slots and a count | `make_chunk_frame`, `parse_chunk_frame`, `send_chunked`, `add`, `ingest`, `prune` | order, duplicates, contradictory totals, 16-bit counts |
| Receive loop and ring (`node/node.cpp` 219-249, 448-460) | `received_msgs_`, at most 200 | push, drain | the ring when full, a drain between pushes |
| Node (`node/node.cpp` 84-277) | `peers_`, under `peers_mu_` | accept, connect, add, remove, broadcast | check then connect; both ends connecting; positions that shift |
| Control protocol and shell (`node/node.cpp` 281-460, `control/`, `main.cpp`) | line buffers | LIST, SEND, SENDFILE, BROADCAST, RECV, QUIT | every request needs exactly one reply |
| TCP framing and wire messages (`net/`, `protocol/`) | sockets | `send_frame`, `recv_frame`, builders, parsers | partial reads, caps, 16-bit counts |
| Cryptography (`impl/crypto/`) | hash buffers, limbs | ChaCha20-Poly1305, SHA-2, X25519, Ed25519 | carries, padding, boundaries |

How they interact. A node's process runs one accepting thread, one thread per
connection (handshake, then `recv_loop`), the refresh thread and one thread per
control client. Connection threads share `peers_` and `received_msgs_` with the
control threads under two mutexes; control threads and the interactive loop send
through a `peer_conn` under its `send_mu`. Nodes talk to the coordinator by
short request and reply connections, and to each other by framed messages.

What makes each part correct:

- *coordinator*: one entry per key; no expired entry in a list; every daemon that
  has been up for long enough in every list; entries only ever refreshed;
- *handshake*: the two sessions agree; nobody gets a session with a forged
  identity; the initiator is the last to get one; both ends finish;
- *peer connection*: messages delivered whole, once and in order, whatever threads
  send; a failed send never delivered; nobody blocked for ever; the return value
  of a chunked send tells whether everything was sent;
- *chunked transfer*: a payload is the first chunk of each index, in order, as
  soon as all have arrived; nothing forgotten early, nothing left over;
- *node*: the table is the set of connections that are served; a second connection
  to the same peer has a known cause; daemons that stay up end up connected;
- *control*: one reply per request; an escaped text comes back as it was; an index
  means the peer that was listed there unless a peer before it has left;
- *cryptography and wire*: the limb and word arithmetic computes what the
  mathematics says, whatever the operands; what one side builds the other reads.

`PROJECT.json` lists the hazards line by line.

## 2. Plan

Done, in this order: `Chunker` and `TransferRegistry`; `MessageChannel` and
`PeerLink`, which implements it and reuses `Chunker`; `Handshake`; `Coordinator`;
proofs for the registry and the coordinator; `NodeNetwork`, which composes the
coordinator's list, the handshake and the tables of several nodes, each abstracted to
what the others see of it; `Control`, a daemon's control socket with several shells;
`LimbField`, `ScalarField`, `Curve`, `Sha2`, `Aead` and `Wire`, the algorithms, which
`Primitives` instantiates (`Aead` itself instantiates `LimbField`); `PeerTable`, the
erasure that `NodeNetwork` and `Control` share; proofs for the handshake, the
network of nodes, the connection with its refinement, the control socket, and the
hashes, boxes and frames of `Primitives`.

Left, in this order:

1. proofs about `LimbField`: that `Normalise` and the two reductions keep the value
   modulo `P`, for every width of a limb;
2. a byte-level module of `send_all`, `recv_all` and the cap of `recv_frame`, shown to
   implement the two-item frames of `PeerLink`.

## 3. Modules and their correspondence to the code

**Chunker** (`transfer/chunker.{hpp,cpp}`): operators only. A byte string is a
sequence of cells, and a 9-byte header is one cell, a record; so the byte order of
the header is left out, and what remains is whether a plaintext begins with a valid
header and what it says. `UINT16` is the modulus of `uint16_t`. `add`,
`add_completes` and `assembled` are the three results of `chunk_reassembler::add`
(new state, whether it returns, what it returns); `ingest` and its companions are
the same for `transfer_registry::ingest`. Operators called `X_Something` with the
comment "Faulty variant" are `X` with a plausible bug. No specification uses
them: each shows that some property would notice the bug.

**TransferRegistry**: one registry that gets any chunk `parse_chunk_frame` lets
through, in any order, and `prune` at any time. Sender and connection are left out,
so this is more than one sender would ever produce.

**PeerLink** (`node/node.hpp`, `session/session.cpp`, `net/tcp.cpp`, `recv_loop` and
`ctl_recv` of `node/node.cpp`): one direction of one connection. A sending thread
waits for `send_mu`, seals (taking the nonce), writes the length prefix, writes the
body, and goes on with the next chunk or returns; each is a step, so every
interleaving of threads at these points is explored. `Put` blocks on a full buffer.
A lost connection keeps any prefix of the stream and may swallow writes before a
write fails. The receiver sets up the peer, reads frames, ingests or delivers, and
on a refused frame or the end of the stream leaves and removes the peer. The socket is
closed when the last `shared_ptr` to the `peer_conn` goes: at the end of `setup_peer`
(`RemovePeer`), unless a thread of the receiving node has copied it out of `peers_` to
send the other way (`Hold`); then when that send has returned (`Release`). The AEAD is ideal: a frame read as written opens, a frame put together from
two does not. The closing of the sender's own side (its own `recv_loop` ending) is
covered by `Break`.

**MessageChannel**: what a connection promises, a FIFO of whole messages.

**Handshake** (`session/session.cpp`, called by `setup_peer`): both ends step by
step, each step ending at the next `send_frame` or `recv_frame`. Signatures and the
key exchange are symbolic: `sign`, `verify` and `exchange` stand for the calls, and
`Curve` models what they compute. `Init` ranges over every assignment of claimed and real
identities and over strangers at either end, which write frames that no step
expects, keys that the exchange refuses, or a premature OK, and hang up. `Cut`
loses the connection and any tail of both streams. Nobody replays a frame of another
run or relays between two nodes.

**Coordinator** (`coordinator/coordinator.cpp`, the two client functions and the
refresh thread of `node/node.cpp`): client and handler of one connection take turns,
so one program counter serves both. What is done under `mu_` is one step; the clock
reading of GET_PEERS, which comes before the lock, is a step of its own. Addresses
are left out: an entry's address is that of the node in its key. A REGISTER whose
sender has died or given up may still be handled (`orphans`).

**NodeNetwork** (`node/node.cpp` 84-277): daemons at several addresses, each start with
a fresh identity. A *slot* is room for one TCP connection with an end at each node;
`st` says where the thread of an end is (dialling, handshake, has a session, in
`recv_loop`, out of it with the socket still open). `peers_` is the vector of the code. `Visit` is one turn of the loop over
the coordinator's list: the look into `peers_` and the start of the dialling thread,
after which everything else may happen before the peer is added. `Connect` meets
whoever runs at the address. `Disconnect` and `RecvEmpty` are the two ends of
`recv_loop`, for a connection that is gone and for an empty message over one that is
not; both remove the peer, and the socket is closed later, by `LastOwner`. `Close` frees a slot, and clears what it held, when both
ends are gone. The coordinator is the set of keys it lists; that a running daemon's
own key does not expire is what `Coordinator` proves. Faults: a process is killed and
its address started again, a connection is lost, an empty message arrives, the coordinator cannot be reached at
a start or restarts empty. `hasty` is history: the slots dialled while another dial to
the same key was still on its way. A node that meets itself has no slot for it; that
the port is taken (the bind fails) ends a process at its start and is not modelled.

**PeerTable** (`node::remove_peer`): what `std::remove_if` and `erase` leave of
`peers_`, as the recursion over the vector that `remove_if` is. `NodeNetwork` and
`Control` extend it.

**Control** (`node/node.cpp` 281-460, `control/control.hpp`, `run_shell` of `main.cpp`):
shells with one outstanding request each, the daemon's thread for each, and peers
that come, go and send. Replies are byte streams cut at newlines, so that a wrong
escape, a missing header or a leftover row shows as a reply read by the wrong request.
`Write` to a shell that has gone ends the daemon (SIGPIPE): that is what the code
does, and the run `control_sigpipe` reports it; the other properties hold with it. So
does `SendFileThrows`: SENDFILE of a path that opens but cannot be read, a directory,
throws in a thread that catches nothing. `shown` is what `do_recv` reads and unescapes;
`Display` is what it puts on the screen of that: the size of a binary text, else at
most `MAX_LINES` lines and the size if there are more.
`std::to_string` is a constant, a function from the numbers that occur to words: that
it is injective and gives no line break is all the properties depend on.

**Algorithms.** Each module takes the constants of its code as parameters, and
the run calls them with narrow ones, so that every carry, borrow, wrap and
padding case is met by small numbers. `Primitives` fixes those of the arithmetic
(`LimbField`, `ScalarField`, `Curve`); those of the hashes, the boxes and the frames are
constants of `Primitives`, which `MCPrimitives.cfg` sets and the proofs leave open. Two
hash objects live on: they are fed the bytes of `Stream` in pieces whose lengths are
in `Piece`, and are used again after `finalize`.

| Module | Code | Narrowing |
|---|---|---|
| `LimbField` | `field_25519`, `field_1305`, `choice` | five limbs of 4 bits, `P = 2^20 - 5`, words of 10 bits for a limb and of 20 for a column of a product: 6 bits above a limb and 12 above a product of two, no more room than in the code (13 and 26 in `field_25519`, 38 and 12 in `field_1305`) |
| `ScalarField` | `field_q` | limbs of 3 bits, `L = 16461`, scalars of 18 bits: the same four spare bits as 256 over 2^252 |
| `Curve` | chains of powers in `field_25519`, `montgomery_point`, `edwards_point`, `x25519`, `eddsa` | the field of 61 elements, a curve of 8 * 7 points with a twist of 4 times a prime; exact field arithmetic; the chains keep their real exponents |
| `Sha2` | `sha_256`, `sha_512` | blocks of 8 cells, the length in one cell (`sha_256`) or two (`sha_512`), words of 128 values, so that the count of bits carries; the compression is injective, and only its calls are modelled |
| `Aead` | `chacha_20`, `poly_1305`, `chacha20_poly1305` | keystream blocks of 4 cells, 8 counters, padding to 2, tags of 2; bytes are sets of atoms; the MAC's arithmetic apart, over a narrow `LimbField` |
| `Wire` | `protocol/wire` | bytes of 2 values, so that a `uint16_t` has 4; keys of 2 bytes, signatures of 4 |

## 4. Runs

Bounds are constants named in the modules. Deadlock is not checked where a model
legitimately stops (all calls made, clock at its end).

| Run | Configuration | Bounds and why they are enough | Result |
|---|---|---|---|
| `registry` | `MCTransferRegistry.cfg` | two ids, two payloads, totals 1..3, five ingests, clock to 2 with ttl 1: a transfer of three chunks with two duplicates or strays, two transfers interleaved, an entry at and past its ttl. 2.0 million states | passes |
| `peerlink` | `MCPeerLink.cfg` | two threads, three messages out of an empty text, a text of exactly one chunk's size, a text of three chunks and a file of one; a buffer of three items (less than two frames, so senders block); a ring of two; the connection may break; the receiving node may have a send of its own under way. 328 000 states | passes |
| `handshake` | `MCHandshake.cfg` | two identities (equal, different, mismatched), up to three frames of a stranger. 17 000 states | passes |
| `coordinator` | `MCCoordinator.cfg` | two nodes with two identities in all, one lookup, one restart, clock to 4, TTL 2, refresh 1, one failure in a row. 2.1 million states | passes |
| `node` | `MCNodeNetwork.cfg` | two daemons, one of which may start twice; two slots one way, one back, so that both dial at once and one dials twice; one fault; one set-up slower than a refresh period. 594 000 states | passes |
| `control` | `MCControl.cfg` | a user who types every kind of line and a second shell; two connections, two messages, one with all special characters and one longer than `MAX_LINES`, ring of two; every shell may be killed at any time. An `ASSUME` goes through the displays of all short texts, binary ones included. 518 000 states | passes |
| `primitives` | `MCPrimitives.cfg` | limbs at their edges in every position, multiples of `L` and their neighbours, all points and encodings of the curve, all scalars, messages of every length over two blocks cut anywhere, lists over the count. 34 000 states | passes |
| `partial` | `MCPeerLinkPartial.cfg` | one file of three chunks, the connection may break | violated: finding |
| `lookalike` | `MCPeerLinkLookalike.cfg` | a text that begins like a chunk, no break | violated: finding |
| `empty` | `MCPeerLinkEmpty.cfg` | an empty text, no break | violated: finding |
| `control_sigpipe` | `MCControlSigpipe.cfg` | as `control`, without SENDFILE | violated: finding |
| `borrow` | `MCPrimitivesBorrow.cfg` | as `primitives` | violated: finding |

What the passing runs show.

- `registry`: `CountsFilledSlots` (duplicates and strays are not counted),
  `FirstChunkWins` (what `ingest` returns), `NoStall` (delivery is not delayed past
  the last index) and `LeavesDoneOrExpired` (nothing is forgotten early).
- `peerlink`: `ImplementsChannel` is the refinement of `MessageChannel`;
  `NoncesInOrder` is why the receiver need not check nonces; `FailedNeverDelivered`
  makes resending safe; `NoLeftoverTransfers` is why it does no harm that nobody
  calls `prune`; `RingKeepsLatest`; and, as liveness, `EventuallyDelivered` and
  `CallsReturn`. Both except one case, `Orphaned` for ever: the receiving node has left
  `recv_loop` (an empty message is enough), and a thread of its own never returns from a
  send over the same connection. Its socket then stays open with nobody reading it. When
  both nodes are in that case, each with a full buffer, they wait for each other; the
  program has nothing that ends it. The texts of this run do not begin like a chunk: the run
  `lookalike` shows what happens otherwise.
- `handshake`: `Agreement`, `NoForgedIdentity`, `InitiatorLast`, and as liveness
  `BothEnd` and `HonestSucceed`.
- `coordinator`: `UniqueKeys`; `DeadAreForgotten`, that a daemon which died leaves the
  lists `PEER_TTL` later, unless a REGISTER that it left behind is handled after that;
  `LiveAlwaysListed`; `EntriesOnlyRefresh`. Times are scaled: the code refreshes every 10 s with a TTL of
  30 s, and `MaxGap <= PEER_TTL`, on which `LiveAlwaysListed` rests, holds there
  with one failed attempt in a row and attempts of at most 3 s each
  (3 + 2 * 13 = 29). Attempts take no time in this instance; the theorem of section 5
  covers every length. With two failures in a row a live daemon can miss from a list.
- `node`: `TableIsThreads`; `ExtraSessionsExplained`, that a node dials one peer twice
  only because of a stale entry of an earlier run or because a set-up outlasted the
  refresh period (two nodes that dial each other at once do get two connections: they
  are of different makers); and as liveness `ConnectedEventually` and `DeadLeave`.
- `control`: `ShownAsDrained`, that every message taken from the ring appears once and in
  order, whole or as `do_recv` summarises a long or binary one; `QuietAtPrompt`,
  `SentToListed`, and as liveness `RequestsAnswered`. The last excepts requests whose argument is a carriage return
  only: `read_line` strips it, no command matches, no reply comes, and the shell waits
  for ever. `SentToListed` says how much an index is worth: it is looked up in the
  table of the moment, so a disconnection of an earlier peer makes it mean a later one.
- `primitives`: each algorithm against its mathematical reference. `FieldsComputeModP`
  is about words too: products are taken of unreduced sums, whose limbs are longer
  than the comment at `field_1305.cpp:20` assumes, and no column or carry overflows. It
  leaves out differences with a borrow, which are wrong (the run `borrow`); `Curve` has
  exact arithmetic and leaves them out too. `field_q::reduce_inplace` subtracts `L` at
  most 16 times, so a sum is right below 17 `L`: always for a loaded and a reduced
  scalar, which is how `eddsa` adds (`ScalarsComputeModL`). `FramesRoundTrip` says of a
  list longer than its count that only its first entries are read. `Refused` of `Aead` is
  the empty vector, as in the code: the caller of `open` cannot tell it from an empty
  plaintext, which is the finding of the run `empty`. That the block
  counter of ChaCha20 wraps is in `Aead`, and out of reach of a
  session: it would need 256 GiB in one frame.

What the violated runs show.

- `partial`: `send_chunked_msg` reports success although only some chunks were sent
  (`node/node.hpp:48` against its comment). The same property fails without a fault for
  a file of more than 65535 chunks, whose number wraps (`transfer/chunker.cpp:62`): with
  `UINT16 = 2` and `MayBreak = FALSE` in the configuration TLC finds a truncated file
  that is sent, delivered and reported as sent.
- `lookalike`: a plain message is not marked as plain, so one that begins with the
  bytes of a chunk header loses them (`node/node.cpp:232`).
- `empty`: an authentic empty message is taken for a failed authentication and ends
  the connection (`session/session.cpp:84`); `SEND 1 ` sends one.
- `control_sigpipe`: a shell killed before its reply is written takes the daemon with
  it (`control/control.hpp:49` writes to a closed socket; nothing ignores SIGPIPE).
- `borrow`: `operator-` of `field_25519` is not `(a-b) mod p` when a limb of the reduced
  `b` exceeds that of `p` plus that of `a`. Only the lowest can, when it is among the 18
  largest of its 2^51 values (`util/math/field/field_25519.cpp:33`).

**Fairness.** `PeerLink`: weak fairness of each sending thread and of the receiving
thread, that is, the scheduler runs threads that can run; a thread that waits for a
mutex another one holds, or on a full or an empty socket buffer, is not enabled.
For the receiver this includes that `setup_peer`'s question to the coordinator comes
back, which has no timeout (a hazard, at `node/node.cpp:203`).
Weak fairness of `Lock` supposes that a mutex is not for ever won by others, which
the finite number of calls gives. Nothing is assumed of the network, of callers, of
`ctl_recv` or of the sends of the receiving node (`Release`). `Handshake`: weak fairness of each end's thread, nothing of strangers
or the network; `BothEnd` is therefore claimed between two nodes only, since a
stranger that stays silent does block a node for ever (there is no timeout).
`NodeNetwork`: weak fairness of the accepting thread, of the refresh thread, whose sleep
ends after 10 s, and of every connection thread; nothing of starts, expiry and faults,
which are bounded. Each of these threads waits only for something that another fair
thread or the operating system does: a dial to an address where nobody listens is
refused, a closed or lost connection is reported to the reader. That `LastOwner` comes
supposes that a send over the connection returns once the connection is left, which
`CallsReturn` of `PeerLink` says with its exception. A machine that
disappears without closing its connections is therefore outside the model; `recv` has
no timeout and would not notice it (a hazard, at `net/tcp.cpp:31`). `Control`: weak
fairness of each shell's and each handler's thread, which includes that `send_msg`
returns (`CallsReturn` of `PeerLink`); nothing of users, peers and kills.
`Coordinator`, `TransferRegistry` and `Primitives` claim safety only.

## 5. Proofs

All proofs hold for every value of the constants allowed by the named assumptions:
`UINT16Assumption`, `RegistryAssumption`, `CoordinatorAssumption`,
`HandshakeAssumption`, `NodeNetworkAssumption`, `PeerLinkAssumption`,
`ControlAssumption`, `HashAssumption`, `BoxAssumption` and `FrameAssumption`, which the
runs evaluate for their instances. Each inductive invariant was also checked by TLC on
the run's instance, with quantifiers over `Nat` bounded, except `Delivery`, which says
that a sequence exists.

**TransferRegistryProofs.** `CountsFilledSlots` is not inductive by itself: that
`ingest` of a new chunk keeps the count right needs the reassembler's slots to be
as many as `total_`, and that an entry left in the map is never full needs
`total_ < UINT16`, so that `received_` does not wrap. `FirstChunkWins` and `NoStall`
relate slots to history. The invariant `IInv` joins `TypeOK`, the count, and the
statement that a slot holds the data of the first chunk of its index in the log and
is empty exactly if the log has none. `AddCounts` (adding to an empty slot adds one
to the cardinality of the filled ones), `AddMatches` (it keeps slots and log in
step) and `FullGivesFirstChunks` (a count equal to the total leaves no slot empty)
carry the argument; `IngestKeepsIInv` and `PruneKeepsIInv` are the two interesting
steps. From `IInv` follow `CountsFilledSlotsAlways`, `NoStallAlways`,
`FirstChunkWinsAlways`, `RegistryTypeOK` and the action property
`LeavesDoneOrExpiredAlways`.

**CoordinatorProofs.** `IInv` is `TypeOK` and `UniqueKeys`. `RegisteredKeeps`
describes the vector after a registration (same keys in the same places, or one new
key at the end), once, for use in `UniqueKeysAlways` and in
`EntriesOnlyRefreshAlways`.

`LiveAlwaysListedAlways` needs an invariant about time, `TimeInv`, checked with TLC
before it was proved. `Due` says of every live daemon that its entry, if it is owed
one, will last until the next registration that must succeed: `Left` is the longest
time until then, given where the daemon is in its attempt, what is left of its sleep
and how many more failures in a row it may have. `Promised` says of a handler that
has read the clock but not yet taken `mu_` that every key it must list is in
`peers_`, and recent enough for that reading. The clock step shortens every `Left` by one
(`NodeStep`); an attempt that ends in success or failure restores it
(`DueAfterAttempt`); a registration of anybody keeps what is listed (`ListedStays`).
The product of the failures that may follow and the period is not linear, so it is
kept folded in `Rest`, of which the proof uses only `RestFacts`.

`DeadAreForgottenAlways` has the same shape with `FadeInv`: once the process of a key is
dead and no REGISTER of it is on its way, its entry is too old for a request that arrives
`fade` from now (`Fades`), and a key that had faded when a request arrived cannot come
back before its answer (`Buried`), because no later run has the same identity (`Issued`).

**SequenceFacts.** `Induct` is induction over the naturals stated
for a set instead of a predicate, from the library's theorem that `<` is well
founded; with it the function that a recursive definition describes is shown to
exist, and its values follow. `FlattenSeqIs` and `FlattenCons` are what
`FlattenSeq` returns; `ErasedIsRest` is what `remove_peer` leaves of the table: the
other entries, each as often as before and in their order.

**HandshakeProofs.** `Agreement` is about the end of the protocol, and says nothing of
frames on their way. `IInv` adds `Streams`: in each direction there is only what the
writer can have written by now (`FromI`, `FromR`), so that a frame an honest end
accepts is either the peer's own, or a stranger's, which no check lets through; what
each end knows once it has checked a signature (`KnownToI`, `KnownToR`); and the
exact session at an end that has finished (`Sessions`), where the initiator finishes
only if the responder has. Losing any tail of a stream keeps `Streams`. From `IInv`
follow `EndsAgree`, `IdentityNotForged`, `InitiatorIsLast` and `HandshakeTypeOK`.

**NodeNetworkProofs.** `TableIsThreads` counts, and an erasure cannot be shown to keep
a count; `Tables` says instead that the table has every thread in `recv_loop` once, no
entry twice, which `ErasedIsRest` keeps. `ExtraSessionsExplained` looks at connections
that are up, but is decided when they are dialled: `AimsApart` says the same of every
connection from its dial on, and needs `FirstRound` (a starting node, which does not
look into `peers_`, visits each key once, and so none it has dialled) and `Ends` (an
end that dials has nobody at the other side yet).

**PeerLinkProofs.** First without hypothesis: `NoncesAreInOrder` and `RingIsLatest`, and
`LinkTypeOK`. `Senders` says that the thread in a critical section is the one that
holds `send_mu` and that a frame on its way has the last nonce; `Stream` says that the
`m`-th whole frame in the buffer has the nonce `Len(rcvd) + m - 1`, and accounts for
every item: twice the frames read, the items in the buffer and those still to be
written make twice `send_ctr_`. `Ring` says, place by place, that the ring is the end
of `delivered`.

`LinkIsChannel`, `FailedIsNotDelivered` and `NoTransferIsLeft` have the hypothesis
`Faithful`: no text sent in one frame looks like a chunk frame, and no message needs
`UINT16` chunks or more. The instance of the run `peerlink` satisfies it, and without
it the statements are false, as the run `lookalike` shows for texts and the remark on `partial` for files. The model has no
record of the frames sent; `Delivery(fs)` says that some log `fs` of them fits the
state: each frame follows the one before it (`Log`), the sender is at its end
(`Sending`), the buffer is a piece of it (`Carries`), what is delivered, and the one
transfer that may be open, is what the first `Len(rcvd)` frames make (`Received`), and
of a call that failed nothing is within reach of the receiver (`Unreached`). A step
that seals extends the log, a step that reads a frame moves on in it. The refinement
follows: a step that delivers delivers `sent[Len(delivered) + 1]`.

**ControlProofs.** `RoundTrip` (`unescape_ctl` undoes `escape_ctl`) is by induction over
the text, and with it that an escaped text has no line break. The rest needs to know,
for each shell, where its request is: `Asked` (with the daemon), `Working` (in a
handler), `Written` (an answer, all or in part still to be read: `Unread`), `Ignored`
(the handler gave no answer) or `Lost` (the daemon has gone). A shell that has read
all lines of its answer is at the prompt with nothing left, which is `QuietAtPrompt`,
and what it has shown then is what was drained. `DisplayTells` is what a display says of
its text, whatever the text; it rests on how many characters come before the newline at
which `Display` stops (`PrefixCount`). `SentToListed` relates the list on the screen with a later table:
connections are numbered in the order of `add_peer`, the table is increasing
(`Increasing`), and `Later(L, T)` says that what is new in `T` is younger than all of
`L`, so a peer moves only towards the front, and only when one before it has gone.

**PrimitivesProofs.** Three properties of `Primitives`, for every size that the code's
constants could have.

`HashPadsAlways`: the invariant `HashInv` says of each hash object, with `HasFed`, what
it has been fed: as many blocks are absorbed as `fed` has whole ones, they are those of
`fed`, the rest is at the start of the buffer (what lies behind it is left over from an
earlier block or was never written), and the two counters hold eight times the bytes of the
absorbed blocks. `FeedKeeps` and `UpdateKeeps` carry it over a byte and over a piece.
`FinalizePads` then compares the one or two last blocks with `Padded` of the whole
message, cell by cell, in the two cases: the marker leaves room for the length or does not;
`TotalIs` is that the two words of the count are the remainder and the quotient of the
length in bits, carry included. `8 * block <= word` is assumed, so that a block carries
at most once.

`OpenUndoesSealAlways`: `PlacesDiffer` is that below the counter's limit no two bytes of
a message, and none of the first block, meet the same position of the keystream;
`InputsDiffer` that `build_mac_input` is injective, which rests on the two lengths at its
end: without them data and ciphertext could trade bytes. A tag is ideal (`MacOf`), so a
box opens exactly with the tag of its own key and input (`OpenIs`), and every change
of a box either makes another input (`WrongTag`) or does not end like a tag
(`EndRefused`). `BoxAssumption` bounds messages by the counter; the code does not check it,
and no frame comes near it.

`FramesRoundTripAlways`: one lemma per message (`RegisterRight`, `InitRight`,
`RespRight`, `FinishRight`, `EncryptedRight`, `SignalsRight`, `ListRight`) from the
places of its fields; `OneParser` is that the type leaves one parser, and for the list
an induction over its entries finds each at its multiple of `ENTRY`. Both properties of
calls use the invariant `CallInv`, that arguments are from their sets.

Only model-checked: liveness (`EventuallyDelivered`, `CallsReturn`, `BothEnd`,
`HonestSucceed`, `ConnectedEventually`, `DeadLeave`, `RequestsAnswered`), since
fairness is out of the prover's reach; and the arithmetic of `Primitives`
(`FieldsComputeModP`, `ScalarsComputeModL`, `ExchangeAgrees`, `SignedVerifies`), which
compares carries, reductions and ladders with a reference on narrow instances: for
every width, or the code's own constants, it rests on non-linear arithmetic and number
theory (that `P` and `L` are prime, that the curve is a group), which the provers do not
do.

## 6. Not modelled

Listed with reasons in `PROJECT.json`. In short:

- `net/tcp.cpp` byte by byte: `send_all` and `recv_all` loop until a frame is whole, so
  where the kernel cuts it changes nothing but where a failure can strike, and that is
  in `PeerLink`; the cap of 1 MiB is met only by an oversized peer list;
- argument parsing in `main.cpp` and the layout of the shell's screen;
- the rounds of ChaCha20 and the compression functions of SHA-2: a model checker
  decides nothing about them, and the repository's tests compare them with vectors;
- that constant-time code takes constant time, which is not a property of states; the
  concepts and interface headers, which hold no state;
- key generation and the libsodium variant of X25519, which are calls of a library;
- interactive nodes (`node::run`) are in `NodeNetwork` but not in its instance: they
  take the same steps as a daemon without the refresh, and 30 s after their one
  registration are in no list, so that `ConnectedEventually` is about daemons;
- a coordinator that accepts and never answers, and a machine that vanishes silently:
  the code has no timeout for either, and a liveness property would fail by
  assumption;
- the DHT of `docs/architecture/network_overview.puml`, which has no code; build and
  deployment files.
