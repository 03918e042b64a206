# websocksy in TLA+

websocksy is a proxy: it accepts WebSocket clients, asks a *backend* which
network peer a client is to be connected to, and carries messages from the
client to the peer and the peer's byte stream, cut into frames by a *framing
function*, back to the client.  It is one C program with one thread, a select
loop, and no storage; what makes it hard is that everything that happens
between two calls of select happens to shared tables (the registry of clients,
the kernel's descriptor numbers, buffers with offsets) in an order that clients,
peers and the kernel choose.

## The system

| Component | Source | State | Operations |
|---|---|---|---|
| Client registry and select loop | `websocksy.c`, `websocksy.h` | `sock`/`socks`, the descriptors of the process, `read_fds`, `shutdown_requested` | `main`, `client_register`, `ws_accept`, `client_cleanup`, `signal_handler` |
| WebSocket connection | `websocket.c` | `state`, `read_buffer` and its offset, the request (path, version, key, protocols, headers) | `ws_data` with `ws_handle_new`, `ws_handle_http`, `ws_upgrade_http`, `ws_frame`; `ws_close`; `client_connect` |
| Frame codec | `websocket.c` | none | header and masking in `ws_frame`, `ws_send_frame` |
| Peer stream | `websocksy.c` | `peer_buffer` and its offset, `opcode`, `peer_framing_data` | `ws_peer_data` |
| Framing functions | `builtins.c`, `plugins/framing_*.c` | per-connection configuration | auto, binary, separator, newline, fixedlength, dynamic32, json |
| Configuration | `config.c` | `config`, the section being read | `config_parse_file`, `config_parse_arguments`, `config_file_line` |
| Plugins | `plugin.c` | attached libraries, the library of framing functions | `plugin_backend_load`, `plugin_framing_load`, `plugin_register_framing`, `plugin_framing`, `plugin_cleanup` |
| Backends | `builtins.c`, `plugins/backend_file.c` | the default peer; path and expressions | `init`, `configure`, `query`, `cleanup` |
| Network helpers | `network.c` | none | `network_socket`, `network_socket_unix`, `network_send` |

How they interact: `main` configures backend and plugins, then loops.  In one
pass of the loop it may call `ws_accept` once and then, for every slot of the
registry, `ws_data` (if the client's descriptor is in the set select returned),
`ws_peer_data` (if the peer's is) and `ws_send_frame` (if the client was silent).
`ws_data` calls the backend's `query` and opens the peer's socket through
`client_connect` when a request is complete, forwards frames to the peer, and
calls `ws_close` on any failure.  `ws_peer_data` calls the connection's framing
function until it wants no more, and `ws_send_frame` for every frame.  `ws_close`
is called from everywhere and resets the whole slot, also under the feet of a
loop that is working on it.

What is hard, and what makes each part correct:

* **Registry and loop.** Descriptor numbers are closed and handed out again
  within one pass, while `read_fds` is as old as the pass.  Client sockets block,
  so a single read of a silent client stops everybody.  Handlers return errors
  that break off the walk.  SIGINT comes at any moment.  Correct is: a descriptor
  belongs to one connection; a peer never outlives its client; no descriptor is
  lost; no silent client is read; every client gets its turn; a broken one is
  closed; SIGINT ends the program.
* **Connection.** The stream is cut into reads anywhere, a read may bring several
  lines or frames, and a handler may close or upgrade the slot in the middle of
  one.  Correct is: a request is answered once; the upgrade needs all of its
  lines; messages reach the peer whole, in order, after the upgrade and never
  after the end; the buffer always has room for another read.
* **Peer stream and framing.** The same for the other direction: segmentation
  should depend on the stream and not on how it is cut into reads, every byte is
  forwarded at most once, in order, with the right opcode.
* **Configuration, plugins, backends.** The order of options and a failing load
  decide which functions the program ends up with.

## Modules

| Module | What it is |
|---|---|
| `EventLoop` | the registry, the descriptors and the select loop, one action per step of `main` |
| `MCEventLoop` | `EventLoop` with a reduced environment, for TLC |
| `EventLoopProof` | theorems about `EventLoop` and their proofs |
| `CommonLemmas` | facts about sequences and positions that several proofs cite |
| `Session` | the abstract specification of one connection |
| `Connection` | `ws_data` and all it calls for one connection, over one buffer; implements `Session` |
| `FrameCodec` | frames as bytes: taking a client's apart, putting the program's own together, and what the RFC says of both |
| `CodecLemmas` | what each end reads is what the other has sent, proved; lemmas about `FrameCodec` |
| `MCConnection` | the clients TLC runs `Connection` with |
| `ConnectionProof` | theorems about `Connection`, that it implements `Session` among them, and their proofs |
| `Framer` | the abstract specification of a peer's stream cut into frames |
| `PeerStream` | `ws_peer_data` and the framing functions over the peer buffer; implements `Framer` |
| `FramingJson` | the scanner of the plugin json, and what it should find |
| `MCPeerStream` | the peers TLC runs `PeerStream` with |
| `FramerProof` | the type invariant of `PeerStream`, that it implements `Framer`, and what its loop leaves behind, proved |
| `BackendFile` | the query of the file backend, and what its documentation says it answers |
| `Config` | `main` but for its loop: plugins, options, backends, what clients are bridged to, the shutdown |
| `MCConfig` | the calls, plugin paths, files and requests TLC runs `Config` with |
| `FileProof` | that the query of `BackendFile` answers what its documentation says, proved |
| `ConfigProof` | theorems about the libraries, stores and clients of `Config` |
| `OptionsProof` | theorems about what the options of a call come to, and the peers the clients are given |

`Connection` and `PeerStream` both extend `FrameCodec`, `PeerStream` extends
`FramingJson` and `Config` extends `BackendFile`.  `EventLoop`, `Connection`,
`PeerStream` and `Config` meet at the interfaces of the functions: the outcomes of
a handler in `EventLoop` are those of `Connection` (`OutcomeOfWsData`), a peer's
framing function in `PeerStream` is one `Config` can give a client.

### EventLoop

`sock` is the registry, a sequence of slots `[ws_fd, peer_fd, state, silent]`.
`silent` stands for `current_time - last_event > ping_interval`.  `open` is the
kernel's table of descriptors, `ready` those on which a recv or accept would
find something (data, the end of the stream or an error), `broken` those of
clients on which a send has failed.  A new descriptor is always the lowest free
number, as POSIX has it: this is what makes reuse within a pass happen.

`pc` walks through `main`: `TestLoop` (line 325), `EnterSelect` (330-355),
`SelectReturns`, then `AcceptClient`, `AcceptFails` or `NoAccept` (367-372), then for
each slot `n` the client's turn (`WsIdle`, `WsDataStays`, `WsDataUpgrades`,
`WsDataCloses`), the peer's turn (`PeerIdle`, `PeerDataForwarded`, `PeerDataCloses`,
`PeerDataSendFails`) and the ping's (`NoPing`, `SendPing`, `PingFails`); `SkipSlot`
passes a free slot, `EndOfPass` starts over, `Cleanup` is what follows the loop.
The ping looks at `last_event` only, so a client that is slow with its request is
sent a WebSocket frame before its HTTP answer; the model has this.
`Arrive` and `Signal` are the environment's.

A handler's outcome for the slot is a choice here: stays, upgraded, closed.
That these are the outcomes `ws_data` has is the invariant `OutcomeOfWsData` of
`Connection`, that none but a client that does not wait loses a descriptor is
`PeersClosed`.  A client that does not wait for the answer to its request can make
`ws_data` lose descriptors; the constant `Pipelined` says whether there are such
clients.

### Connection

One slot, one buffer of bytes.  A line of the request up to its end is two numbers
beyond the bytes (`Token`), its parts, cut within the name of the method or header;
the `CR` and `LF` that end it and everything of a frame are bytes.  Reads end
anywhere, so also within a line, between CR and LF and within a frame's head or
its masking key.  What the code takes a line for depends on what the buffer has
of it (`LineIs`, `WellFormed`), be it put together from parts of several lines, which
line 491 makes possible; the header's name decides, as in the code, and what
follows it in the buffer is its value.
`Receive` is the recv of `ws_data`; then one action per line (`RequestLine`, `Header`,
`HeaderRefused`, `Upgrade`, `UpgradeFails`, `QueryCrashes`, `UpgradeVersion`,
`UpgradeIgnored`) or per frame (`Forward`, `ForwardFails`, `SendPong`, `IgnorePong`, `FrameEnds`); `EndOfLines` and
`EndOfFrames` end the call with the check of line 507.  The arithmetic on
`read_buffer_offset` and `bytes_read` is the code's, including what it does after a
`ws_close` has reset the offset in the middle of the loop over the lines
(`RemoveLine`).  On a slot closed so, the lines left of the read can make a request
again: `UpgradeFails` asks the backend for it, and connects a peer and closes it
(`queried` and `connected` count both); a backend that looks at the path, which is
NULL by then, ends the program (`QueryCrashes`).  `network_send` to the peer succeeds
or has sent a part when it fails.

`FrameCodec` has the head of a frame with its three forms of length, the key and
the unmasking as `ws_frame` has them, and the frames of `ws_send_frame`.  The last
length that fits the second byte (125) and the width of the widest field (8) are
constants.  `ClientFrame` and `ClientReads` are the other end as RFC 6455 has it: the
clients' streams are made by the one, and the other reads what the program sends.
`IsClientFrame` is what the RFC lets a client choose: any type, the length in any
field that holds it, a key of four bytes or none, and no frame that 64 bits cannot
count.

`Session` says what a connection promises, without buffers: `Promise` in
`Connection` is `Session` under the mapping that takes `state` "new" and "http" to the
phase "handshake".

### PeerStream

One peer buffer with all of its bytes, also those that earlier frames left behind
the data, since the json plugin looks at them.  Its stream arrives in reads of any
length that fits, ending where the peer's `cuts` allow.  `Receive` is the recv of
`ws_peer_data`; then one action per call of the framing function, by what the
code makes of its result: `FrameSent`, `FrameDiscarded`, `SendFails`, `Overrun`,
`Incomplete`, `FramingFails`; `FramingLoops` is a framing function that does not
return, `FramingCrashes` one that looks for a configuration and has none: a peer
need not have one (`configured`), and four of the functions do not ask.
`framing_data` is what a function keeps for the connection, and `Close` has the call
with NULL data that is to free it, with what fixedlength and dynamic32 do behind
that.  `CopyBack` has the arithmetic of lines 256-272, including the reuse of
`bytes_framed`, which ends the loop when it comes to 0.

The framing functions are operators on the buffer: `framing_auto`,
`framing_separator`, `framing_newline`, `framing_fixedlen`, `framing_dynamic32`,
`framing_json`.  The parsing of their configuration is an operator too: `Separator`
with its escapes, `Newline` with its names, `Option` with the loop of dynamic32 that
never skips a comma (`Loops`).  `"plugin"` is a function the repository does not have:
it may return any length, also one longer than the data, and any opcode.  A send
that has failed once keeps failing: the socket is broken.

`FramingJson` is the scanner of the plugin, a function over places in the buffer
instead of pointers; `Entities` says without a scanner where an entity ends: where
no bracket and no string is open any more.

`Framer` knows a stream and the lengths and types its next frame may have, and
no reads.  `Promise` in `PeerStream` is `Framer` with the bytes in the buffer and
those not yet received as the rest of the stream; `Boundaries` and `Types` say
from the documentation what each function's frames are.  What the client reads is
taken from the bytes of the frames it is sent.

### Config

`main` from its start to the loop, what the loop asks of the backend, and what
follows the loop.  `pc` is its phase: `"plugins"` (`LoadFraming` in whatever order
readdir has the objects, `LoadFramingFails`, `InitDefault`), `"options"` (one action per
line or argument: `SectionHeader`, `CoreOption`, `BackendMissing`, `BackendIncomplete`,
`BackendLoaded`, `BackendOption`, `BackendOptionUnknown`, `Malformed`; then `Listen`),
`"serve"` (`Connect`, `Disconnect`), and the shutdown: `CleanupBackend`,
`client_cleanup`, `plugin_cleanup`.  `"failed"` and `"crashed"` end the program: an
error that main reports, and a call or a write through NULL.

`backend` is the library the functions of `config.backend` are from and which of
them it has; `store` has the static variables of the two backends of the
repository, which outlive a reload; `framings` and `attached` are the tables of
`plugin.c`; `calls` counts inits and cleanups.  A file's errors end the program, those
of arguments are dropped (`AfterLine`), and the model has what the code then does:
it serves on with a backend that was cleaned up, is outdated, or has no query.

`BackendFile` makes the path of a file from an expression, one variable after the
other, with the room of the buffer and the endpoint that is shortened for the
expressions behind it; `DocAnswer` says the same from the documentation: all
variables at once, the first matching line of all the files.

## Runs

| Run | Question | Result |
|---|---|---|
| `el_fds` | do descriptors stay with their connections, whatever is closed and opened in a pass? | holds |
| `el_live` | is everyone served, are broken clients closed, does SIGINT end the program? | holds |
| `el_stale` | is a peer read only when it has data? | violated |
| `conn` | does `ws_data` implement `Session`, and do patient clients get answers and have their messages forwarded? | holds |
| `conn_cut` | is a request answered however it is cut? | violated |
| `conn_twice` | is the backend asked once? | violated |
| `conn_closed` | is no backend asked and no peer connected for a slot once it is closed? | violated |
| `ps` | does the client get the peer's stream in the frames its function stands for, however it is cut into reads, and does the loop of `ws_peer_data` end? | holds |
| `ps_split` | is a line end found that a read cuts in two? | violated |
| `ps_type` | is each line's type its own? | violated |
| `ps_json` | is JSON framed by its entities however it is cut? | violated |
| `cfg` | does the program run with the backend and the options it was given, release what it initialized, and bridge each request to the peer the documentation has for it? | holds |

Bounds.  `el_fds` has descriptors 1 to 4, the listener being one: three to share,
enough for two clients of which one has a peer, for one connection closing while
another opens under the same number, for three slots and for the fourth that a
failed accept may add.  A fourth descriptor adds no new pair of connections.
`el_live` has two to share and, unlike `el_fds`, pings and pipelining clients, since
the liveness check multiplies the states; with two, no client waits behind a slot
that has a peer, so a walk that such a slot breaks off costs nobody a turn there.
`MCEventLoop` reduces the environment where it cannot matter: data arrives only
while `main` is in select or between a client's and its peer's turn (`main` looks at
readiness nowhere else), and SIGINT comes at the test of the flag, before select
or in it (the flag is read nowhere else).

`conn` has a buffer of 28: a full request, of 26 numbers, fits one read, and the
largest frame does not fit, so that the check of line 507 bites; and one stored
header, so that the limit of stored headers is reached.  The longest payload
with a short length is 5 instead of 125 and the widest length field has 3 bytes
instead of 8: the code compares, adds and shifts them alike, and all three forms
fit the buffer.  Its clients cover each branch of the handlers: a complete
request, an old version, a missing key, a missing upgrade, a line without a
colon, with a whole request behind it or not, another method; frames of every opcode, an unknown one, empty, unmasked,
without FIN, with each form of length, and too long; a ping whose pong needs a
longer form; payload bytes that are a CR and an LF.  `conn_cut` has the clients whose
reads are cut anywhere, between the two parts of a line as well, `conn_closed` those
whose reads end with a line.  `conn_twice` has one that sends on without waiting
for the answer, and a buffer of 36 for all it sends.

`ps` has a buffer of 8 bytes, terminator included, and streams longer than
that, so that the buffer fills; one or more streams for each framing function,
with separators of one and two bytes (also one that overlaps itself, and every
escape), code points of every width and bytes that are none, segments that fit
exactly and segments that never fit, JSON objects, arrays, strings and literals
followed by another entity, and length fields of 2 bytes instead of 4 in both
byte orders with a negative and a positive constant.  Two bytes show all the
code does with four: the field is put together, added and compared.  Streams
whose sum wraps, or whose segment ends within its own size field, are left out:
the documentation gives them no meaning.  In `ps` a read does not end within a
separator or behind a comma of JSON, and a line that is not UTF-8 does not follow
one that is: `ps_split`, `ps_json` and `ps_type` show what happens then.  It has as well
each function without a configuration, a separator with a bad escape, and
dynamic32 with two options.

`cfg` has every two of 19 options (core options, backends that are good, without
the optional symbols, without a required one, of another version or missing,
options of either backend, a malformed argument), alone and behind a full
configuration of the file backend, as a file and as arguments.  Two options are
what an interaction takes: a load and what it loses, a load over a load, an
option for a backend that has just failed.  The plugin path is empty, whole, or
has a damaged object; two objects register one name and one replaces a builtin.
Requests reach every expression, a value that does not fit (the path has 24
bytes instead of 8192), values with slashes, an endpoint with a slash at its end,
an empty cookie, and a line without a blank.

Fairness.  `main` goes on whenever it can (`WF_vars(Step)`): it is the only thread,
and the model's sends return.  The code's client sockets block, so a client that
stops reading can stop the loop in `send`; the liveness properties are about loops
in which this does not happen.  `SF_vars(WsDataCloses /\ ...)` says that the data a
client had sent before its connection broke is finite: recv comes to the error
in the end.  `ClientServed` has as its premise that infinitely many passes end: a
failed send to a client breaks off the walk (line 386), and the slots behind it
wait for the next pass; that such passes come to an end themselves is not stated.
In `Connection` and `PeerStream` only the handler
is fair: clients, peers and the loop owe nothing.

## What the violated properties show

* `PeerReadsAreReady`: `read_fds` is not touched when a handler closes a descriptor,
  so a connection upgraded later in the same pass may find its new peer's number
  in it.  The nonblocking peer then answers EAGAIN and the new connection is
  closed.
* `AnsweredHoweverCut`: line 470 looks for a line end only inside what the last recv
  brought, and line 491 forgets what was in the buffer before: a request cut
  within a line or a line end may stay without an answer for ever.
* `QueriedOnce`: a second blank line in the same read upgrades again and loses the
  first peer's descriptor.
* `NothingConnectedAfterClose`: `ws_close` within the loop over the lines does not end
  it.  A header without a colon closes the slot, the headers behind it are stored
  in the closed slot and make a request, and its blank line has `client_connect` ask the backend and connect a peer for a
  client that is gone.  That the peer is closed at once and nobody hears of it
  is `SilentWhenClosed`, which holds.
* `OneLineEach`: `framing_separator` looks only at the bytes of the last read; a CRLF
  whose CR came with the read before is not found, and its line is sent together
  with the next.
* `LinesTyped`: the opcode is reset per call of `ws_peer_data`, not per frame, and
  `framing_auto` never sets it back to binary.
* `JsonForwarded`: `json_length_array` and `json_length_object` return "no JSON" instead
  of "not complete" when the data ends right behind a comma; the halves go out as
  binary frames.

What else the models have and no run states, the list of hazards has each at its
line.  In `Connection`: of a line that comes in three reads line 491 drops the
second part, so that the first and the third are handled as a line that was never
sent (`Sec-WebSocket-K`, something, `ey: ...` is taken for a key); `UpgradeNeedsAll` is
about clients whose reads end with a line for this reason, and such lines are in
the reach of `conn` and `conn_cut` only as far as their clients' lines make them.  In
`PeerStream`: with the comma-separated options that its documentation allows,
dynamic32 never gets past the first comma (`FramingLoops`), and a separator with a
bad escape is an error in every call, which `ws_peer_data` does not handle
(`FramingFails`); either keeps the only thread for ever, and `LoopEnds` leaves them
out (`NeverReturns`).  A peer without a framing configuration, which the backends'
documentation allows, is the end of the program when newline, separator,
fixedlength or dynamic32 look for it (`FramingCrashes`).  In the call with NULL data
that is to free their configuration fixedlength and dynamic32 look at it once more
behind the free, and the latter may go on to the data (`Close`).  In `Config`: the
default backend gives its peer to clients that name a protocol when none is
configured, where README.md has them refused (the server bridges such a client and
answers without a protocol; what the client makes of that is its own affair), and
it always has a port, so that the one in its host is never taken off;
`DefaultTargets` has the documentation, and `RightPeer` leaves these clients and
calls out.  A backend that cannot be loaded from the command line leaves the one
before it cleaned up and in use, and the later cleanups come twice (`AsAsked` leaves
this out).  A file that configures a backend without `configure`, and a line of the
file backend without a blank when the client names no protocol, end in a call or a
write through NULL (`BackendOptionUnknown`, and `QueryCrashes` in `Config`).

## Proofs

Every theorem is about all values of the constants that satisfy the named
assumptions of the modules; an invariant is proved from an inductive one, with
one case per action.  The temporal step is propositional each time.

### EventLoop

`EventLoopProof`, for every set of descriptors, every listener in it and every value
of `KeepAlive` and `Pipelined`:

* `TypeCorrect`, `DescriptorsOwned`, `PeersHaveClients`, `ReadsDoNotBlock`: the safety
  properties of `el_fds`.  The inductive invariant `IInv` adds to them what they
  rest on: in the peer's and the ping's turn `n` is a slot (`TurnHasSlot`), the
  listener is open (`ListenerOpen`), and what select reported is still true of
  every client whose turn is to come (`StillReady`).  The last one is the reason
  why no silent client is read although `read_fds` goes stale: a client that waits
  for its turn can lose its descriptor only in its own turn, and a number can be
  handed out again only to a peer, or to a client before the walk begins.
* `RegistryStaysBounded`: the registry has no more slots than there are descriptors.
  It grows only when no slot is free; the slots in use have descriptors of their
  own, so that there are fewer of them than descriptors, the listener's being
  nobody's; and one more at most is what a failed accept adds.  It takes that
  descriptors are owned (`IInv`) and finitely many.
* `NothingLeaks`: without pipelining clients no descriptor is lost.  The
  assumption is needed: `conn_twice` shows what such a client does.

`ReplaceSlot`, `CloseSlotKeeps` and `RegisterKeeps` say once what assigning a slot,
closing one and registering a client do to the table.  Assumptions: descriptors
are natural numbers, finitely many, and the listener is one of them
(`FdAssumption`), and the two
flags are Booleans.

### Connection

`ConnectionProof`, for every set of clients, every request, every sequence of frames,
every cut and every size of the buffer:

* `TypeCorrect`, `RoomForRecv`, `Outcomes` from `IInv`: `SlotInv` ties the descriptors to
  the state within `ws_data` as outside of it, `BufInv` ties the offset to the data:
  while lines are looked for it is at most their number, elsewhere it is their
  number.  That the bytes stay within the buffer when `ws_close` has reset the
  offset in the loop is the arithmetic of `RemoveLine`.
* `UpgradeOnlyWhenAsked`, for clients each of whose reads ends with a line (the others
  can have a line handled that they have not sent).  From
  `UpgradeInv`: what is unsent is how the stream ends (`RestInv`); what the scan has
  before it are whole lines, where they are in the stream, and nothing is left of
  them for the next read (`LinesInv`), also when a close has reset the offset; so
  the line that is handled is one of the stream (`LineHasCome`), and every field of
  the request has its line among what was sent (`SourceInv`).
* `NothingAfterClose`, an action property: a frame that closes the connection takes
  the rest of the read with it (`ClosedInv`); a line that closes it leaves lines
  behind, which may have the backend asked and a peer connected
  (`NothingConnectedAfterClose` is violated), but none of which is answered or
  leaves the slot anything but closed.
* `NoPeerLost`: `PeersClosed`, for every client with one blank line, at the end of its
  request (`OneBlank`; a patient client that sends two in one read would lose a
  socket as the hasty one of `conn_twice` does).  The inductive invariant
  `PatientInv` says where in the stream the buffer is: what this read brought is
  where it was sent, and a buffer with no data of earlier reads begins a line,
  although line 491 forgets what was in the buffer before (`ReadPlace`).  So the
  line the code takes for blank is the blank line, and nothing of the request
  follows it.

* `PatientKeepsPromise`: `Connection` implements `Session` for every client that
  `Talks`: it waits for its answer, its request has one blank line, at its end, and
  its frames are any the RFC lets it send, those among them that end the
  connection.  `TalkInv` says where in the dialogue the connection is: for some `n`,
  the buffer and what is unsent are together the client's frames behind the `n`th,
  the peer has been sent what the first `n` bring of messages and the client its
  pongs, as it reads them (`TalkAt`).  The upgrade establishes it, as `PatientInv`
  knows that the line taken for blank is the last of the request
  (`UpgradeTalks`); a read moves bytes from one part to the other (`ReadsTalk`); and
  a frame taken from the buffer is the client's next (`FrameTalked`, from
  `FrameRead`), so that a step of `ws_frame` is `Deliver`, `Pong`, `Close` or none
  (`FramesTalk`).  A send that fails after a part is `Close` with a `Cut`.

Assumptions: the buffer has room for two bytes, the limit of headers is a number,
requests are sequences of parts of lines and bytes, frames of bytes (`ClientsAssumption`).

### Frames

`CodecLemmas`, for every width of the length fields:

* `ClientReadsWhatIsSent`: a client that reads by RFC 6455 gets back the type and the
  payload of whatever the program sends, in each of the forms that length has.
* `FrameRead`: a frame that a client may send is found as soon as all of its bytes are
  there and no sooner, whatever follows it, and read as it was meant: its opcode,
  whether it is masked, and its payload without the mask.

They rest on `NumberOfDigits`, a number that fits a field is read back from its
digits, and on `MaskInverts`, masking twice with a key brings the data back.
`Number`, `Power` and `Xor` are recursive functions.  `UpTo` in `CommonLemmas` is the
induction these proofs use: a set of numbers that has 0 and with each number the
next; `RunExists` says that a recursion over the numbers up to a bound has its
function.  That `Xor` undoes itself is an induction over its bits (`XorIs`,
`XorInverts`).  Assumptions: `CodecAssumption`, and that the peer buffer is no longer
than what the widest field can say (`PeerFrameAssumption`).

### PeerStream

`BufferConsistent`, at the front of `FramerProof`, is `TypeOK`, which is inductive.
The framing function is used only through its results being numbers and opcodes, so a plugin
that asks for more than there is cannot disturb it; the argument is that
`CopyBack` leaves offset and count adding up to what it leaves in the buffer,
whichever side of the old bytes the frame ends (`CopyBackKeeps`).

Behind it, the refinement:

* `StreamInOrder`: for every framing function, any plugin's included, and every
  cut, `PeerStream` implements `Framer` with frames of any length and type.  What the
  client reads is the stream in pieces: no byte twice, none in another place,
  none left out but those of a frame a function discards.  It takes only that an
  open connection is in the loop and that what was sent is bytes (`StreamInv`); the
  work is that `CopyBack` moves the data so that data and unread bytes together stay
  the rest of the stream (`MovedData`, `CopyBackMoves`, `FrameStep`).
* `FramesAsDocumented`: with the lengths and types of the documentation
  (`FramesTheStream`), for a peer whose function is auto, binary, fixedlength or a
  plugin; separator or newline if no read ends within one (`Separating`, which also
  says that the configured expression stands for the separator meant), the latter
  if no line that is not UTF-8 follows one that is (`Unmixing`); or dynamic32 if no
  frame ends within its length field and no size wraps (`Measuring`).  That a line's
  type is its own rests on `LineInv`: a line leaves `text` in `opcode` only if all
  those that follow in the stream are UTF-8.
* `NoFrameIsHeldBack` and `OldBytesAreIncomplete`, for all of these but the plugin,
  newline whatever its lines are.

The last three rest on `BufferInv`: besides the above, the rest of the stream is how
it ends and the bytes of earlier calls end where a read has ended (`PlaceInv`), and
these bytes hold no whole frame (`OldInv`).  With it a call sees a separator that ends
in its read exactly where the stream has its first one (`SeparatorCall`), and
`bytes_framed` cannot come to 0 in `CopyBack`.  That the function dynamic32 sees the same length in what has been received of a
frame as there is in the stream is `FieldOfPrefix`.  The conditions are needed:
`ps_split` shows what happens without the one on reads, `ps_type` without the one on
lines.  They are on the one peer of a connection, whatever others there are, and on
the places of its stream where a frame begins (`Begins`), not on all its bytes.
`ASSUME Meaningful` in `MCPeerStream` has TLC check that the streams of `ps` meet them
and that of `ps_type` does not.

### Config

`ConfigProof`, for every set of plugins, directory, call, file and request:

* `TypeCorrect` and `FramingsLive` from `IInv`: where `main` is (`BaseInv`, `FreshInv`), every
  name is the function of the last object that registered it (`LibraryInv`), what
  the backends' variables and the clients hold are functions of the builtins or
  of attached objects (`StoreInv`, `ClientInv`).  A query has one answer at most
  (`OneAnswer`), though the expressions are tried in a recursive function.

`OptionsProof`, on top of it:

* `Releases`: `CallsInv` counts a backend's inits and cleanups through each
  replacement.
* `Configured`: the section a line belongs to is that of the last header before it
  (`SectionInv`), a core option has its last value (`CoreInv`), and the backend in use is
  the last one named and has been given the options that are applied to it, the
  file's expressions in their order (`ChosenInv`).

* `RightPeers`: what a client is bridged to is what the documentation has for its
  request (`RightPeer`), whatever was loaded, replaced and configured before.  A
  client keeps what its backend answered, and is open only to a peer whose name has
  been understood (`PeerInv`); the backend's variables are those of the last options
  (`ChosenInv`), its answer that of the files (`QueryAnswers`) or of the default peer
  (`DefaultConnects`), and the framing function is in the library (`IInv`).  For the
  default backend it is about the calls without a port in the host and the
  clients that name no protocol where none is configured: for the others the
  code does not do what is documented.

`FileProof` has what the file backend's answer is, and stands before both:

* `QueryAnswers`: `query` is `DocAnswer`.  The code replaces one variable after the
  other in a buffer, gives up where one has no value or no room, and cuts the
  slash off the endpoint for good; that these steps make the path that the
  documentation makes of all variables at once is `ResolveIs`, by `ResolvedTo`,
  which says of each place of the template what the path up to it is.  `TriedTo` does
  the same for the expressions: after the first `k` of them there is the answer of
  the first that has one.

`RightPeers` is about the states with `AsDocumented`, `QueryAnswers` about a `PlainQuery`.
They say what the documentation takes for granted and the code relies on:

* an endpoint begins with one slash and ends with one at most (the code takes off
  one, the documentation "trailing and leading slashes"), and a cookie or header
  is named once (the code takes the first);
* the last cookie has a value (the code does not find an empty one at the end);
* where a value is longer than its variable, the buffer has room, if there is a
  file of that path: without one there is no answer either way;
* no plugin takes the name `auto` when the default backend is used: a client without
  a framing gets the program's own function (`websocksy.c`, line 149), not the
  library's;
* only a host that is taken for an inet one names a port: for others the code has
  no port to take off.

TLC checks `RightPeer` without these conditions on the clients of `cfg`, and
`ASSUME Plain` in `MCConfig` shows on them that the conditions can be met: for every kind
of part of an expression, and for all kinds together, there is a request that
satisfies `PlainQuery` and has an answer.

Assumptions: the names of framing objects and backends differ, no plugin has a
builtin's name, the file backend has all its symbols (`PluginsAssumption`), calls are
finite (`ConfigurationsAssumption`), a file is a sequence of lines (`FilesAssumption`).

The induction theorems of the library take a predicate as a parameter, which the
installed provers cannot instantiate.  Where a recursive definition needed an
induction, the proof makes a set of the numbers at which the claim holds and
cites `UpTo`: a set that has 0 and with each number the next has them all.

### Only model-checked

* Liveness: `ClientServed`, `BrokenClosed`, `ShutdownCompletes`, `HandshakeAnswered`,
  `MessagesForwarded`, `LoopEnds` are out of the prover's reach.
* `FramesTheStream`, `NothingHeldBack` and `OldBytesNeverFramedAlone` for json, whose
  scanner is an induction over the nesting; what is proved of it is that its
  frames are the stream in order (`StreamInOrder`).
* `RightPeer` for requests, files and plugins that are not as documented
  (`AsDocumented`), on those of `cfg`.

What the other recursive functions compute for every input (`Utf8`, `SizeField`, the
scanner of `FramingJson`, the parsing of `Separator`) stays with TLC, which runs them
on the streams above against `Entities` and `Boundaries`.

## Plan

Modelled: all components but the calls of the socket API.  Every invariant that a
run checks has its theorem, under the conditions said above.  Left is the plugin
json, where no read ends behind a comma: that `FramingJson`'s scanner finds what
`Entities` says.

## Not modelled

`network_socket` and `network_socket_unix`: calls of the socket API around a loop over
the addresses of a name; their results are choices of the modules that call them.
Allocation failures, the formatting of answers, the accept key (SHA-1 and base64
of a library), logging, and the command line's usage text.  The lines of
configuration and backend files are taken as trimmed and split, the headers of a
request as matched to what they mean, cookies as split into pairs: what is
skipped there is blanks.  A length of 64 bits that wraps has its definition
(`FrameLen`) and no client.  FD_SETSIZE is not modelled: the registry is as large as
`Fd` allows.  The files of the file backend do not change while the program runs:
each query reads them anew and keeps nothing.
