# Verification of the CSP ground-station terminal

TLA+ models of the ground-station software in this repository (`src/*.c` and the
vendored CSP stack `lib/libcsp`), checked with TLC on small instances and, where it
matters most, proved with TLAPS for all sizes. Paths below are relative to the
repository root.

The program does not build as it stands (`src/receive_packet.c` holds two definitions of
`receive_packet`, `src/doppler_freq_correction.c` two threads that return at once); the
models follow the code that is meant: the second `receive_packet` (lines 133-302), and
`tleupdate_init` and `doppler_init` as threads that do nothing.

## The system

`csp-term` is one process of POSIX threads, all over `lib/libcsp`'s static tables.

| Component | State | Operations | Talks to |
| --- | --- | --- | --- |
| **CSP connection table, router** (`csp_conn.c`, `csp_route.c`, `csp_io.c`, `csp_port.c`, `csp_udp.c`) | `arr_conn[10]`: state, type, identifiers, socket, four packet queues; the port table | `csp_conn_allocate/new/find`, `csp_route_work`, `csp_udp_new_packet`, `csp_accept`, `csp_read`, `csp_send`, `csp_close`, `csp_connect` | interfaces (frames in and out), every thread that uses a connection |
| **Buffer pool, input FIFO** (`csp_buffer.c`, `csp_qfifo.c`) | queue of free buffers; four priority FIFOs and one event queue | get, free; write, read | interfaces, router, every reader |
| **Task server** (`task_server.c`, `receive_packet.c`) | its current connection and packet | accept, read, dispatch on the port, reply, close; a thread per FTP connection | connection table, telemetry files, downlink client |
| **CSP services** (`csp_service_handler.c`) | none | ping, memory, reboot, CMP | connection they are called with |
| **GUI backend, state** (`gui_backend.c`) | `gui_state`: last uplink/downlink, antenna, mode, emergency stop, RF, satellite, passes, ring of 64 events | `notify_*`, `set_*`, `push_event`, snapshot, `GET_EVENTS` | called by the GUI thread, `tcp_server`, console |
| **GUI backend, clients** (`gui_backend.c`) | eight slots with a 1024-byte line buffer | accept, receive, run commands, broadcast a snapshot once a second | radio, rotator, uplink |
| **Uplink** (`send_packet.c`, `process_mcs_file.c`, `tcp_server.c`) | global file name, client address | receive a file by TCP, decode it, send it as a CSP packet; retransmit | connection table, GUI backend |
| **Downlink client, status** (`downlink_client.c`, `status_publisher.c`) | one TCP socket, `ret`; a named pipe | send a saved file, send a JSON line | task server |
| **Rotator** (`serial_rotator.c`) | last azimuth and elevation, serial port | `serial_set_az_el`, `read_azel` | GUI thread, console |
| **Doppler, prediction** (`doppler_freq_correction.c`, `predict.c`) | frequencies, TLE cache, selected satellite | frequency set/get, satellite selection, orbit arithmetic | GUI backend, radio |
| **RDP** (`csp_rdp.c`) | per connection: sequence numbers, window, tx and rx queues | connect, send, receive, timeouts, close | connection table, router |
| **KISS** (`csp_if_kiss.c`) | decoder: mode, first, packet, length; `kiss_lock` | `csp_kiss_rx` per byte, `csp_kiss_tx` | buffer pool, router |
| **CAN** (`csp_if_can.c`, `can_socketcan.c`) | next identifier; queue of frames; ten packet buffer elements | `csp_can_tx`, `csp_can_rx_frame`, `csp_can_process_frame`, `csp_can_pbuf_cleanup` | buffer pool, router, the bus |
| **Other interfaces** (`csp_if_i2c.c`, `csp_if_lo.c`, `csp_if_zmqhub.c`) | none | frame in, frame out | buffer pool, router |
| `main.c`, console commands, browser front end, other vendored libraries | – | start-up, user interface | – |

How they interact. An interface thread gets a buffer and writes it to the router's FIFO.
The router task finds the connection of the packet, or makes one, queues the packet on it,
and, when the connection is new, puts it in the backlog of the listening socket.
`task_server` takes connections from the backlog, reads packets, hands each to the
service its port names, and closes. Telemetry is saved to a file and forwarded; requests
on the reply port open a connection of their own. Commands come in by TCP (GUI clients,
MCS files) or at the console, use the same table to send, and report to the GUI backend,
whose state every client sees.

What is hard. The connection table is shared by all threads; `csp_conn_allocate` and
`csp_close` take a lock, nothing else does, and a slot's users find out only by looking
that it was closed. Buffers are passed from hand to hand without reference counts. Slots
are reused, while threads still hold pointers to them. Queues are bounded everywhere and
every overflow has its own error path. The GUI state is changed and reported in separate
critical sections.

What makes each component correct:

- *table and router*: a buffer has one owner; a flow has one slot, with its own packets only; a connection
  made is one somebody will close; a packet delivered is read or flushed;
- *task server*: what it reads is freed or passed on; it works on the connection it has;
- *GUI state*: the history is the newest entries in order, and tells what the state is;
- *GUI clients*: commands run once, in order, on the client they came from; a broadcast
  reaches every client that stays, as long as none blocks the thread by not reading;
- *uplink*: what was received is sent whole, in order and once; a retransmission is of the
  latest file; every buffer is given back;
- *downlink, status*: no block of a saved file arrives twice or out of order; descriptors are
  closed;
- *rotator*: after a call the antenna is where the call wanted it, within the threshold;
- *RDP*: in-order delivery, once, within a connection; nothing is let go before it arrived;
- *KISS*: what is routed was sent; the decoder recovers from any disturbance; no buffer is lost;
- *CAN*: packets that run into each other on the bus come out whole; what is cut short is
  thrown away and its buffer and element come back;
- *priority queues*: a packet that waits has an event that wakes a reader; the reader finds a
  packet, the most urgent one.

## Modules

| Module | Models | State |
| --- | --- | --- |
| `CspConn` | the searches of `csp_conn.c` as operators on the table's value: find, round-robin allocation, flush | none |
| `TaskServer` | the receive path: interface threads, router task, `task_server`, FTP threads | table (`state`, `idin`, `sock`, `rx`, `last`), pool (`free`), `fifo`, `backlog`, where each thread is (`rt`, `ts`, `ftp`) |
| `EventLog` | what the event history promises: keep the newest `MaxEvents`, answer with the newest *n* | `log`, `reply` |
| `GuiEvents` | `gui_state` and its ring as the threads change it | `events`, `start`, `count`, `cache`, per-thread `job`, `clock`, `reply`; history `writer`, `age` |
| `GuiServer` | the thread that serves the clients, and the clients' side of their sockets | `slot`, `buf`, where the thread is (`gui`), whether a broadcast is due (`due`), `backlog`, sockets (`peer`, `pipe`, `unread`), `alive` |
| `Uplink` | uploads, the three users of `send_packet`, the files and their name | `upc`, `upload`, `fr_name`, `files`, `data_size`, `packet`, `free`, `air` |
| `Rotator` | `serial_set_az_el` in two threads | `rpc`, `azi_old`, `ele_old`, `antenna`, `unended`, `ports` |
| `Downlink` | `downlink_client`, and the address `tcp_server` copies | `accepting`, `client_addr`, `dpc`, `block`, `ret`, `peer`, `descriptors`, `inbox` |
| `Commands` | the three together, by INSTANCE: which thread is free for what, and the process that ends | `running` |
| `OrderedChannel` | what a direction of an RDP connection promises: each message once, in order, while connections can be told apart | `accepted`, `passed`, `queue`, `read`, `apart` |
| `Rdp` | both ends of RDP over a network that loses, repeats and reorders | `conn`, `net`, `call`, `sem` |
| `Kiss` | `csp_kiss_tx` threads, a faulty line, `csp_kiss_rx` | `lock`, `tpc`, `at`, `rx`, `routed` |
| `Can` | `csp_can_tx` threads of several nodes, a bus and a queue that lose frames, `csp_can_rx_task` | `csp_can_id`, `tx`, `queue`, `pbuf`, `routed` |
| `QosQueue` | queues by priority with one event queue, as the router's input and as a connection's, written, read and flushed at once | `queue`, `events`, where each thread is (`wpkt`, `scan`, `flush`) |
| `MC...` | instances for TLC | – |
| `TaskServerProofs`, `GuiEventsProofs`, `GuiServerProofs`, `CommandsProofs`, `KissProofs`, `CanProofs`, `QosProofs`, `RdpProofs` | theorems about the module each is named after | – |

### TaskServer: the code and the model

One action is one access of a thread to shared state. The router's program counter
(`rt.pc`) goes through `csp_route_work`: *idle* (`csp_qfifo_read` + `csp_conn_find`), *new*
(`csp_conn_allocate`), *fill* (the rest of `csp_conn_new`, and `conn->socket = ...`), *deliver*
(`csp_conn_enqueue_packet`), *announce* (the rest of `csp_udp_new_packet`). `task_server` goes
through *accept*, *read* (the check at the top of `csp_read`), *wait* (its dequeue), *dispatch*
(the switch), *fill* (second half of `reply_data`'s `csp_connect`, and the send), *close* (the
`csp_close` of the case), and back to *read*, until a read returns NULL and the *last close*
follows. So the double close, and the read in between, are in the model, as is the slot
being closed by one thread, reused by the router, and read or closed again by the first.

Where several lines are one action, this is why:

- `csp_close` sets the state and flushes under `conn_lock`, which `csp_conn_allocate` also
  takes, so the slot cannot be reused in between; a delivery in between commutes with one
  side of the flush or the other.
- `csp_udp_new_packet` clears `conn->socket` after posting the slot; only the router ever sets
  it, so nobody can tell.
- A `csp_read` that finds the queue empty gives up (its timeout); this covers waiting longer.

What is abstracted: a packet is a buffer and the flow (connection identifier) of its
header. A slot's four priority queues and the event queue are one queue (`QosQueue` has them apart). `RouteDiscard`
stands for every check that drops a packet. The FTP thread comes from a prebuilt library;
its actions (read and free, close once at the end) are the use `task_server` makes of it.
`csp_connect` tries ephemeral ports in turn; the model takes any free one. Left out: forwarding to other nodes,
connection-less sockets, RDP connections (`csp_close` may then return without closing),
the connections other threads open with `csp_transaction` and `csp_sendto`, and frames lost
by `csp_buffer_get` failing (no step). `csp_close` and `csp_conn_allocate` time out on the lock
after 100 ms; nobody holds it that long.

Between `csp_conn_allocate`, which opens a slot under the lock, and the rest of `csp_conn_new`, which
names it without, the slot is open with the identifier it had before (*new* and *fill* are two
steps, and so are the two of `reply_data`'s `csp_connect`). `csp_conn_find` sees it then, so `RouteFind` may
deliver to it.

`orphan` and `lost` are history variables: connections `reply_data` opened and left open, and
buffers dropped without `csp_buffer_free`. The header telemetry is saved under is not in the
model: `csp_conn_get_header_values` reads slot 2 of the table (`csp_conn.c:463`), whatever
connection the packet came on.

### GuiEvents: the code and the model

A report is three steps: `cache` changes under the lock (`Report`), the time is taken
(`Stamp`), the entry is stored under the lock (`PushEvent`). `job[t]` says how far thread `t`
is. `SetMode` and `SetEmergencyStop` report only a change; `SetSat` pushes an
event and caches nothing. `SetFreq` caches `(int)value` and pushes the text the client typed
(`gui_backend.c:791-808`), so `AsInt` stands between the two. Only the GUI thread runs commands,
hence `SetFreq`, `SetSat`, `SetMode`, `SetEmergencyStop` and `GetEvents` are its own; uplinks and rotator
commands come from any thread. `gui_backend_notify_downlink` and `gui_backend_set_station_info`
have no callers and are left out, as are the satellite and pass sections (stored, never
logged). An entry is its kind, a value and its time; the texts made of them are left out.
Time is an integer that advances at every reading, so two equal time stamps do not occur;
the ring is in the order of storing. `gui_backend.c:380` reads the time before it takes the
lock, so the stamps of two threads may be in the opposite order.

`age[k]` and `writer[k]` are history: since the thread that last stored a part of the cache pushed
its event, so many events have been pushed.

`GET_EVENTS n` answers with the newest *n* entries, oldest first. `gui_backend_user_guide.md:182` says it
"paginates from newest to oldest"; the answer it shows (lines 186-193) is in the order of the
code, oldest first, and there is no paging, so `EventLog` takes the sentence to mean which
entries are given and not their order.

### GuiServer: the code and the model

`gui.pc` goes through the body of `gui_backend_thread`'s loop: *select*, *broadcast* (one step
per client), *accept* (at most one), and for each client that was ready *receive*, *lines* (one
step per line of `gui_backend_process_buffer`) and *reply* (one step per message). Steps over
slots with nothing to do are left out (`Loop`), and so is the shift of the buffer at the end of
`gui_backend_process_buffer`: a line leaves the buffer when it is run. `select`'s timeout is `due`: a
second has passed since `last_broadcast`.

A character is its number in what its client sends, so that `run`, the history of what was
run, shows loss, repetition and mixing. A socket is what a program sees of TCP. It holds
`Room` unread messages, then `send` blocks. A client that has closed answers a message with
a reset, sooner or later; a `send` after that raises SIGPIPE, which the program neither
ignores nor handles, and the process ends (`alive`). `told` is a history variable: the clients
told "Input too long", whose buffer was dropped. A closing client's input, sent before, is
still there to be received; after a reset it may be or not. The commands themselves, their
texts and the snapshot are left out; an answer is up to `MaxReplies` messages.

Nothing makes a client read, and a `send` to one that does not waits for good (`Stuck`): the thread does
nothing else then. `gui_backend_user_guide.md` promises otherwise: commands are answered and a
snapshot comes once a second (lines 13 and 51), and who does not read fast enough is
disconnected (line 208). The code has no such provision, so the three liveness properties have the
condition `ClientsRead`, that the thread is not stuck from some time on; without it TLC finds each of
the three violated.

### Commands: the code and the model

`Uplink`, `Rotator` and `Downlink` model what three threads do with shared data; `Commands`
composes them. Each thread does one thing at a time, `tcp_server` either an accept or an
upload, `console` and `gui` either a packet or a movement; `task_server` downloads. `running`
ends everything: `process_mcs_file` calls `exit` when it cannot open the file (line 24),
`tcp_server` calls `fclose(NULL)` when its own `fopen` failed (line 174), and `send` to a host that
has gone raises SIGPIPE.

- *Uplink*. `tcp_server` builds the global `fr_name` in place from the empty string, opens the
  file, writes it, and calls `send_packet`, which the console command `send_packet` calls too.
  An upload is what one `recv` gives (`tcp_server.c:143`): a packet of the mission control system, a
  piece of one, or several, so its bytes (`size`) need not agree with the length its header says
  (`length`, the sixth byte, `process_mcs_file.c:72`), and this length, of 8 bits, is what
  the CSP packet is sent with. `fr_name.whole` is false while the name is being built: the console may
  then find the directory, or nothing. Names tell seconds, so uploads of one second share a file;
  `files` is what each holds. The file is measured (`OpenFile`), its header read (`ReadHeader`, which
  brings in all stdio reads ahead), `data_size` set (`SetDataSize`), and the data read (`ReadData`):
  it may be rewritten in between, and `data_size`, a global both threads use
  (`process_mcs_file.c:15`, 48-49), may be set for the other's file. Whether the `fread` takes the value
  this thread has set or that of the other is left open; `crossed` is history: the other has set it in between.
  `own` counts the bytes of the packet that are the upload's own.
  `csp_sendto` never returns -1, which is what `send_packet_execute` tests; a failed
  send is counted as sent and its buffer is `lost`. `send_packet_struct` compares the payload
  with `sizeof(packet->data)`, which is zero for a flexible array (`send_packet.c:243`): the GUI
  command `SEND_PACKET` of `gui_backend_user_guide.md:128` is always refused, and `GuiSend` does
  only that. `latest` and `floor` are history: the last upload saved, and what it was
  when the console asked.
- *Rotator*. `azi_old` and `ele_old` are static and unlocked, so each access is a step. They are
  set before the port is opened and written. The command is made of the azimuth, plus 80, and the
  elevation, three characters each, and nine bytes of it are sent (`serial_rotator.c:207-215`): an
  angle that takes four characters pushes the end of the command out (`Fits`, `unended`), one with a
  sign is not a number to the controller (`Digits`). What the controller does then is left open.
  `undisturbed` is history: no call has failed, met another, or asked for such an angle; after a
  failure or an overlap the antenna may stay away from where the latest call wanted it, since the retry finds the
  position remembered. `leaked` is history: ports that could be opened and not set up.
- *Downlink*. `tcp_server` clears the address (`Accept`) and copies the new one with `strcpy`
  (`CopyAddress`); `downlink_client` may read it in between, when it is a part of one, and connect to
  whatever host that is (`Readable`). `far` is what the host's end of the connection has become: *there*, *closed* (a block
  is answered with a reset), *gone* (the reset has come: SIGPIPE), *reset* (`send` fails with
  ECONNRESET). `stray` counts the descriptors that are never closed: those of failed
  connections, and those of the files.

### Rdp: the code and the model

`conn[e]` has the fields of `csp_conn_t` and its `rdp` part that matter: state, `snd_iss`, `snd_nxt`,
`snd_una`, `rcv_irs`, `rcv_cur`, `tx_queue`, the out-of-order `rx_queue` (`ooo`), and the
application's queue (`rx`). Every way through `csp_rdp_new_packet` is an action of its own
(`SynInOpen`, `OutOfWindow`, `NewOutOfOrder`, ...). A packet is taken and stays in `net` or not, and
what is sent gets into it or not: so packets are lost, repeated and overtaken. The initial
state may have a connection the server kept from a client that went away (`StaleConn`).

Abstracted: timers (what a timeout allows is possible when the rest of its condition holds);
the delayed acknowledgement (one may go out whenever `csp_rdp_check_ack` has room for it);
wake-ups of the application (it may act at any time); several packets sent in one step
(one of them reaches the network, the others are lost; they may be sent again later); an
interface that fails. `csp_rdp_set_opt`, and a SYN that meets a SYN (`csp_rdp.c:688`), which
needs two clients on one flow, are left out. The window of `csp_rdp_send` lets W + 1 messages
out (line 943 compares with `snd_una + W`, not one less).

`skewed` is history: a reset with an acknowledgement came out of sequence; line 602 then sets
`snd_una` all the same, and what that passes is freed unacknowledged. `KeptUntilReceived`
excepts those connections.

### Kiss: the code and the model

`Rx` is `csp_kiss_rx` for one byte, with one disjunct per mode; `Call`, `Lock`, `Putc` (per byte) and
`Post` are `csp_kiss_tx`. The semaphore of `csp_kiss_tx` waits one second and the result is not
looked at (line 62): a sender may go on without it, and post it afterwards; that is `late`.
`csp_bin_sem_post` reads the value and posts when it is 0 (`csp_semaphore.c:154-159`), two steps (`Post`, `Up`): two
senders can then both post, and `lock`, a number, becomes 2.
The four header bytes are one unit, and so are the four of the checksum, which names the
frame it was made for: that CRC32 detects every damage is assumed. It does not cover the
header, so a damaged header is routed. The receiver may find no buffer at any frame (`starved`).
Left out: `csp_kiss_init`, the driver (`usart_linux.c` passes what `read` returned, -1 too,
as a length), and the end of `csp_kiss_rx`'s buffer within a frame (it keeps all its state
between calls).

### Can: the code and the model

`GetIdent` is the start of `csp_can_tx`, `SendFrame` one `can_send` with what the bus, the driver of the
receiver and `csp_can_rx_frame` do with the frame: it is queued, or lost, on the way or because the
queue is full; `can_send` returns 0 in each case (`can_socketcan.c:126`). `ProcessFrame` is
`csp_can_process_frame`, one disjunct for each way through it, and `Cleanup`
`csp_can_pbuf_cleanup`, one element at a time, possible only when the queue is empty: the task waits
a second for a frame before it looks for old elements. Ten seconds are "at any time".
What a frame holds of a packet is a pair of the packet and a position (`part`), so that loss,
repetition and mixing show in `routed`. There is one receiver, and the source a frame names is
the node of the thread that sent it. Left out: set-up, BEGIN frames of fewer than six bytes,
which `csp_can_tx` does not send, and the second `csp_can_id_get` waits at most, after which
nothing is sent.

### QosQueue: the code and the model

`kind` chooses: the *router*'s input (`csp_qfifo.c`) has an event queue as long as one of its
packet queues, any thread writes to it, the router task reads; a full event queue is ignored. A
*connection* has room for all events (`csp_conn_init`), the router task writes to it, any thread
that has it reads and flushes it; a full event queue makes `csp_conn_enqueue_packet` fail, and the
caller frees the packet, which is queued. Every call of a queue is a step, since nothing is
locked between two. A reader takes an event, then looks at the queues in turn (`scan`). `flush` is
how far `csp_conn_flush_rx_queue` is. Whether the connection is open is left open: readers have
checked `conn->state` before. The queues' own ring buffers (`pthread_queue.c`) are sequences.

`seen`, `got`, `freed`, `dropped` and `spurious` are history.

## Runs

| Run | Checks | Instance |
| --- | --- | --- |
| `task_server` | `TypeOK`, `OneOwner`, `FlowsApart`, `NoForgottenConn`, `QueuedPacketLeaves` | 3 slots (one listens), 2 buffers, 4 flows (one per service), 2 ephemeral ports, FIFO of 2, backlog and packet queue of 1, 4 frames, with fairness |
| `gui_events` | `TypeOK`, `AuditTrail`, `Reported`, and `ImplementsLog` (refinement of `EventLog`) | ring of 2, two threads, 4 reports; a frequency too large for an `int` |
| `gui_server` | `TypeOK`, `InOrder`, `Answered`, `Forgotten`, `Telemetry` | 3 clients for 2 slots, one of which sends three lines (4 characters); buffer of 3, with fairness |
| `commands` | `TypeOK`, `UploadsInOrder`, `RetransmitsLatest`, `BuffersAccounted`, `AntennaFollows`, `PortsClosed`, `DownlinkOnce`, `DescriptorsAccounted` | two seconds, 2 buffers for 3 threads, uploads of 5 kinds (whole, cut, joined, a rest, a command that fails), 4 positions (one that takes a sign and four characters), 2 hosts, files of 2 blocks; 3 calls in all |
| `rdp` | `TypeOK`, `OrderedOnce`, `KeptUntilReceived`, `ImplementsChannels` (refinement of `OrderedChannel`, each direction) | numbers modulo 16, window 1, queue of 3, two connections, 2 messages (one of them may go either way), 2 packets on their way |
| `kiss` | `TypeOK`, `RoutedOnce`, `SecondArrives`, `AllArrive`, `BuffersKept` | 2 senders, 2 payloads (one with both escapes, one too long), MTU of 4, 3 frames, 2 faults |
| `can` | `TypeOK`, `RoutedWhole`, `AllArrive`, `BuffersKept`, `ElementsFreed` | 2 threads of one node and 1 of another, 2 identifiers, packets of 1 and 3 frames, 2 elements, a queue of 2, 3 packets, 2 faults, with fairness |
| `qos` | `TypeOK`, `EventPerPacket`, `OneFate`, `InPriority` | 2 priorities, queues of 2, 2 writers, 2 readers, 4 packets, 1 flush, both kinds |
| `read_packets`, `gui_disconnect`, `rdp_gap`, `kiss_mtu` | one line of the docs each, found false | as above, or smaller (`rdp_gap`: 4 messages one way) |

All but the last four pass. What they show:

- `OneOwner`: each buffer is free, in the FIFO, on one connection, in one thread's hands,
  or dropped. Threads closing, reusing and reading the same slot never free a packet twice.
- `FlowsApart`: no two slots that have been named have one flow, and no packet waits on a slot named for
  another incoming flow. Find-then-allocate without a common lock is safe because only the
  router makes connections of other nodes' flows; it is not safe by any lock. What is not safe is a slot
  between `csp_conn_allocate` and its naming: `reply_data`'s new slot still has the identifier of
  the connection before, `csp_conn_find` may return it in place of the right one, and the packet is
  flushed with it or stays on `reply_data`'s connection. The run reaches this; the property says that the
  packet's own flow loses it and no other incoming flow gets it.
- `NoForgottenConn`: an open slot is in the backlog, in use, or being made. The one exception
  is what `reply_data` leaves open; the table fills up with those.
- `QueuedPacketLeaves`: even the early close and the full backlog strand no packet.
- `AuditTrail`: between commands, mode and emergency stop are what the history's newest
  entries say. `Reported`: the event of what the cache tells is on its way, or at
  its place in the ring until `MaxEvents` newer ones have been pushed behind it. `ImplementsLog`: the wrapping index arithmetic is a log.
- `InOrder`: what a client sent is run once, in order, on its own slot, whatever the cuts
  between reads; a slot's next client does not inherit its buffer. `Answered`: a complete line
  does not wait for more input. The exception in both is a client told that its input was too
  long, which may lose lines and have the tail of one run.
- `Forgotten`: departed clients do not keep slots. `Telemetry`: every client that stays connected is sent a snapshot again
  and again. Both, and `Answered`, as long as no client blocks the thread for good.
- `UploadsInOrder`, `RetransmitsLatest`: sharing `fr_name` and rewriting a file do not make
  `tcp_server` send another upload than its own, or twice, or the console an old one; when the name
  is caught half-made the program exits or refuses. An upload goes out with all bytes of its own
  that its header announces, but for two cases the property names: TCP has cut it, or the console has
  set `data_size` between the line that sets it and the one that uses it. `BuffersAccounted`: no way through the three
  loses a buffer, but those of a failed send.
- `AntennaFollows`: small movements do not add up to a large one that is never made. `PortsClosed`:
  however calls overlap and fail, the ports open are those in use and one for each failed
  `set_interface`. `DownlinkOnce`,
  `DescriptorsAccounted`: a file is given up, never repeated, when a connection fails.
- `OrderedOnce` holds over reconnections and stale packets, as long as the initial numbers an end has drawn
  are `Apart` (see Proofs: `rand()` does not ensure it, and without it the property is false); `KeptUntilReceived` is why nothing
  that was accepted is lost as long as the connection lasts; `ImplementsChannels`: the
  application of either end sees an ordered channel that may skip messages but never repeats
  or reverses them. A message skipped is what `rdp_gap` shows.
- `RoutedOnce`, `SecondArrives`: the decoder forgets any disturbance after one undisturbed frame;
  frames that run into each other, when the lock times out, are not routed as something else.
  `AllArrive`: on a clean line all that fits with header and checksum arrives, whole and in order (what
  does not fit is the finding of `kiss_mtu`). `BuffersKept`: the receiver keeps or routes
  each buffer.
- `RoutedWhole`: frames of different packets are told apart by source and identifier, and a packet
  with a frame missing is not routed, but for one case the property names: parts of two packets
  of a node are put together when its identifiers have gone round between them. `AllArrive`: what
  arrives late or in between does not spoil another packet. `ElementsFreed`: elements come back when
  traffic ends; while it goes on they need not (`csp_if_can.c:393`).
- `EventPerPacket`: on a connection each packet has its event and readers find packets. The
  router's event queue is too short for its four packet queues: an event it has no room for is
  never made up for, and as many packets wait until others come. `OneFate`: not even a flush
  against a delivery and a read frees a packet twice; the exception is the full event queue
  of a connection, which needs such a flush. `InPriority`: the readers look at the queues one by
  one, and still take nothing past a packet they could know of.

The violations are findings (`PROJECT.json`): telemetry and ping packets are never freed;
a client that closes its socket at the wrong moment ends the process; RDP passes over a message
that waited out of order and found the queue full, and its buffer leaks (the result of
`csp_rdp_receive_data` at `csp_rdp.c:322` is ignored); a KISS packet whose data comes within eight bytes
of the MTU is sent and given up by the decoder, which counts header and checksum, although `mtu.rst:9` calls the MTU
the amount of data one can put into the packet.

**Bounds.** Three slots are enough for the listening socket, a connection in service and a
second one that reuses or competes; a fourth flow than there are slots makes the table
full. A FIFO of two is full and half full; a backlog or a packet queue of one is full when occupied.
Four frames reach reuse after a double close. The ring of two wraps twice in four reports;
two threads give every order of stamps and stores. Bounds in guards: `MaxFrames`
(frames received), `MaxClock` (reports) and `Length` (characters a client sends).
Three clients compete for two slots; a buffer of three characters holds two lines, or part
of a line that ends in the next read, or overflows. One message in a socket makes it full.
In `rdp` the numbers wrap within a connection (the client starts two before the end, the server one), a
modulus of 16 is more than four windows, as `RdpAssumption` requires and 2^16 is for every
window used; a queue of three is the smallest in which an acknowledgement is given and held back;
two messages are the least that can be reversed, skipped or repeated, in one direction or
crossing. `MaxSend`, `MaxSends` (messages) and `MaxNet` (packets on their way) bound it, and an end
has as many connections as it has initial numbers. In `kiss` three frames are one that is
damaged, one that may be swallowed with it and one that must arrive (`MaxFrames`, `MaxFaults`); the
MTU admits one payload and not the other. In `can` two identifiers go round within three packets,
packets of one frame never wait and those of three can lose the first, the middle and the last;
three senders compete for two elements (`MaxPackets`, `MaxFaults`). In `qos` four packets fill both
queues of two, which is twice the router's event queue; one flush meets writing and reading
(`MaxPackets`, `MaxFlushes`). In `kiss_mtu` the MTU and the payloads of `kiss` do for the packet that is sent and too long to be received. In `commands` two seconds let two names coincide or
differ; one buffer fewer than threads makes the pool run dry; `MaxUploads`, `MaxCommands`,
`MaxMoves`, `MaxFiles` and `MaxAccepts` bound each kind of call and `MaxCalls` all together.
`CHECK_DEADLOCK FALSE` in all runs, because the
bound, or the end of the process, ends every behaviour; the program itself waits for input.

**Fairness.** Weak fairness of the router, of `task_server`, and of each FTP thread: they are
POSIX threads whose waits all time out, so a step that stays possible is taken. None for
the arrival of frames. An FTP thread may close or read, in any order, as long as it acts.
In `gui_server`: of the GUI thread and of the passing of a second. None for the clients,
whose reading is a condition of the properties and not of the specification. In `can`: of the receiving task, which runs and whose waits time out
(`ProcessFrame`, `Cleanup`); none for the senders, whose number of packets is bounded.

## Proofs

For every value of the constants that satisfies the modules' assumptions:

- `TaskServerProofs!TypeCorrect`: `Spec => []TypeOK`. The invariant is `TypeOK` with the facts a
  thread's program counter carries (which slot and buffer it holds), needed since, for
  example, `ServerClose` closes `ts.conn`, which must be a slot and not `NoSlot`.
- `TaskServerProofs!BuffersHaveOneOwner`: `Spec => []OneOwner`. `OneOwner` is not inductive as it
  is stated; `OwnerInv` adds that a thread holds a buffer exactly in those of its steps
  where it should, and states the places as a partition: a function-like table of places,
  each two disjoint, whose union is the pool. Each action moves one buffer (or a whole queue)
  from one place to another; the lemmas `FreeToFifo`, `RouterToSlot`, ... say that each such move
  keeps the partition, and the proof of a step says which move it is.
- `TaskServerProofs!NoConnForgotten`: `NoForgottenConn` with what makes it inductive (`ConnInv`): an open slot not yet
  announced is the one the router is working on, it has no packet before its first, so
  that this one finds room and the announcement follows, and an open slot the router has found
  is somebody's.
- `TaskServerProofs!FlowsStayApart`: `NameInv` adds that while the router is at *new* or *fill* no other
  named slot has the flow of its packet, for no other thread makes connections of a flow of another node,
  and that `reply_data` has an ephemeral port no named slot uses. For the packets on a slot (`PacketInv`):
  naming it flushes it, and the slot the router has found has the flow of its packet, unless it has been named after
  an ephemeral port meanwhile.
- `GuiEventsProofs!TypeCorrect`, and `GuiEventsProofs!RingImplementsLog`: `Spec => ImplementsLog`.
  The refinement maps the ring to the sequence of its entries, oldest first. The lemmas on
  `Place` (that `(s + i) % n` stays in range, differs for different *i* within a turn, and
  shifts with *start*) reduce every step to facts about sequences: a push into a ring with room
  appends, one into a full ring drops the head and appends, GET_EVENTS is a suffix.
- `GuiEventsProofs!HistoryTellsTheState`: `AuditTrail` is about moments between commands; `AuditInv` says for the
  moments within one what the newest entry of a kind is and what is about to be pushed.
  `GuiEventsProofs!ReportedAlways` rests on the same facts about a push: what it keeps, what it drops, and by
  how much it moves the entries that stay; with them `Reported` is inductive as it is.
- `GuiServerProofs!TypeCorrect` and `GuiServerProofs!InputKeptInOrder`: `ServerInv` says where the thread is in its loops
  (`Control`), that a connection waits once or is in one slot and a free slot's buffer is empty
  (`Connections`), that what has been run, buffered and not yet received of a client are pieces of what
  it sent, in order, and whole until it is told (`InputInv`), and that complete lines are only in the
  buffer the thread is working on (`LinesInv`).
- `CommandsProofs!BuffersAlwaysAccounted` and `CommandsProofs!RetransmitsLatestAlways`: of the uplink part.
  For the first, each step moves one buffer between the pool, a thread and `lost` (lemmas
  `Takes`, `GivesBack`, `Keeps` on the cardinality of the holders). For the second, `UplinkInv` adds
  that a packet is not `csp_sendto`'s before it is sent (`Own`), that no file is of a later second than
  the name's and the file of that second holds the last upload saved, unless it is being written
  (`Newest`), and that what the console has measured or read is not older than `floor` (`Again`).
- `CommandsProofs!UploadsAlwaysInOrder`: on top of `UplinkInv`, `Underway` (what `tcp_server` has named, measured and read is
  the upload it is handling, and `data_size` is its size less the header unless `crossed`) and `OnAir` (it has sent every earlier one that was sent,
  in order, and not yet this one).
- `CommandsProofs!AntennaFollowsAlways`: the invariant says, for each
  place in `serial_set_az_el`, how `azi_old`, `ele_old` and `antenna` are related to the call's
  target when the calls are undisturbed, and that at most one thread is then inside.
- `CommandsProofs!PortsAlwaysClosed`: for all calls, disturbed or not; each step moves one thread into or out of those
  that have a port (lemmas on the cardinality), and `ports` or `leaked` with it.
- `CommandsProofs!DownlinkOnceAlways`, `CommandsProofs!DescriptorsAlwaysAccounted`: the invariant is
  that every block received is before the one to be sent next.
- `CommandsProofs!TypeCorrect`: `RotatorWell`, `DownlinkWell` and `UplinkWell` add to the types of the three what bounds their
  counters: at least as many ports are open as threads are about to close one,
  what the pool lacks is with the threads or lost, and a file that is sent has been measured as
  longer than its header.

The other parts' steps leave each part's variables alone, which is one step of each proof.

- `KissProofs!TypeCorrect`, `KissProofs!BuffersAlwaysKept`, `KissProofs!RoutedOnceAlways`: `KissTypes` says where each sender is in its
  frame, `OnceInv` that the packet being assembled and those routed are each of another frame, and,
  while no wait has timed out, of an earlier one than those to come: the holder of the lock
  sends the newest frame.
- `KissProofs!SecondAlwaysArrives`, `KissProofs!AllAlwaysArrive`: `ArriveInv` is the simulation of sender and decoder: after
  each byte of an undisturbed frame, the decoder's mode and data are what the bytes so far
  say. The first such frame may be spent on ending whatever there was before; on a clean line
  the decoder is never in any other state.
- `CanProofs`: three invariants, each on top of the one before. `KeepInv` (`TypeCorrect`, `BuffersAlwaysKept`): frames are
  numbered within their packet, and what a thread sends next, what the queue holds and what
  an element has are such frames. `WholeInv` (`RoutedAlwaysWhole`): frames of a thread are in the queue in
  order, before those it has yet to send, after those routed; an element holds a beginning of one
  packet, unless identifiers have gone round since. `ArriveInv` (`AllAlwaysArrive`): where nothing has been lost,
  each frame sent is in the queue or processed, not both, and packets with one identifier come
  one after the other.
- `QosProofs!EventPerPacketAlways`: the equation of `EventPerPacket` is kept by each step, but that no
  reader comes away empty is not, by itself. `Enough` adds that from each level on there are as
  many packets as readers that still have to look there; a reader goes past a level only when
  it is empty. That a connection's event queue never overflows before a flush follows from
  the number of places (`QueuedBounded`, an injection of the packets into them).
- `QosProofs!OneFateAlways`: with `Fate`, that a packet's number names it wherever it is.
- `QosProofs!InPriorityAlways`: with `Looked`, that what a reader has seen and gone past is not queued
  any more, and `Ordered`, that a queue holds its packets as they were written.
- `QosProofs!TypeCorrect`: the types alone.
- `RdpProofs!TypeCorrect`: with what a packet that has data, or is kept for later, must be.
- `RdpProofs!InOrderDelivery`: `Spec => []OrderedOnce`. `OrderInv` is the invariant, in two
  parts; it is preserved as long as `Apart` holds, so what is inductive is `OrderedSoFar`, that
  `Apart` implies `OrderInv`: numbers that are apart were so before the last was drawn (`ApartBefore`). `NumberInv` says where every packet comes from: one on its way, kept for
  retransmission or kept out of order has data that its sender accepted, and its number is the
  connection's initial number plus the message's; an end's initial number is one it has used. `ReceiveInv`
  says what an end has: what is read and queued are messages of the connection it is in,
  increasing, none beyond `Passed(e)`, and no more is passed than was accepted. The lemma
  `InWindow` joins them: a packet with data whose number is *k* after `rcv_cur`, *k* within two windows,
  has message `Passed(e) + k` of this connection. So a packet in sequence, and those that
  `csp_rdp_rx_queue_flush` finds to follow it, are the next messages.
- `RdpProofs!ChannelsInOrder`: `Spec => ImplementsChannels`. While `Apart` holds each action moves each direction as
  `OrderedChannel` allows, or not at all (`AllMove`): most leave the numbers alone (`QuietStays`,
  `MinorMoves`), `Send` accepts, `Read` reads, a SYN or SYN/ACK begins, and a packet in sequence
  passes it with those that followed (`FlushedMoves`, from `InWindow` again).
- `RdpProofs!KeptAlways`: `Spec => []KeptUntilReceived`. By itself it is not inductive, not even while `Apart` and `Few` hold: that a copy
  is only freed when the message has arrived depends on the acknowledgements on their way, and an
  acknowledgement on what its sender had. `KeptInv`, on top of `OrderInv`, has five parts. `NearInv` is the
  argument: while the ends are in the same connection, or the client has yet to take the
  SYN/ACK of it (`Near`), each packet that bears a number of the connection acknowledges only what the end it goes to has
  had passed, and names only messages the other has (`Told`); `snd_una` is one past such a number
  (`UnaOK`); and each message accepted is kept at one end or passed at the other (`Held`). The
  others say that a connection begins so: a server in SYN_RCVD has sent nothing
  (`RcvdInv`), control messages have numbers their sender has used and copies name nothing
  (`SaidInv`), a client in SYN_SENT acknowledges nothing (`EarlyInv`), an end has a number its
  peer has used (`HeardInv`). A step that neither begins a connection, sends a message nor accepts a
  packet is a `PlainStep`; for those that accept one, `AcceptedUna` and `AcceptedFrees` say that `snd_una` goes
  no farther than the peer, and that what an extended acknowledgement frees has arrived. One exception
  showed itself on the way: the timer acknowledges in SYN_SENT too, with `rcv_cur` 0, and a
  server whose initial number is within two windows of 0 takes that for valid (`Early`); it frees nothing, as the
  server has not sent anything yet.

`RdpAssumption` says nothing of the initial numbers but that they are numbers: `Iss` may be any, with repetitions,
as `rand()` may give any. What the three theorems promise ends when the numbers
do: `Apart` is a condition on the state in the properties themselves, that the numbers an end has
drawn *so far* differ, both ways round, by at least `MaxSend[e] + 2 * W` (and that an end sends
fewer messages than the modulus less two windows). So they are about every behaviour, up to the
connection that draws a number too close to an earlier one; late packets of the earlier connections
are covered. The code does not see to `Apart`: `csp_rdp_connect` and
the SYN case of `csp_rdp_new_packet` take `rand()`, and a late packet of an old connection is told from
a new one's by its number only. For two draws of 16 bits it fails in about
`2 * (MaxSend + 2 * W)` of 65536 cases. Without the condition `OrderedOnce` is false: with `Iss` client
`<<0, 5>>`, server `<<M - 1, 0>>`, two messages of the server's and the other values of `MCRdp.cfg`, TLC finds what
follows `Apart =>` in it violated in ten states (a message of the connection the server still had reaches the
client in the new one). The numbers of `MCRdp` stay apart, so that the run `rdp` checks the properties in
every state.

`Few`: twice what an end has sent and two windows are less than the modulus, so 32767 messages less
two windows. The code does not see to that either. `csp_rdp_new_packet` sets `snd_una` from any
acknowledgement up to two windows old, so packets that were overtaken can move it back again and
again; `csp_rdp_check_timeouts` then compares a waiting packet's number with it, and half the numbers
away it takes "not yet" for "before" and frees it. Without `Few`, `KeptUntilReceived` is false: with modulus 8, window 1, queue of 6,
initial numbers `<<0>>` at both ends, five messages of the client's and three packets on their
way, which are `Apart` and not `Few`, TLC finds a message that neither end has, with `snd_una` pulled back twice, in 19
states. It holds throughout the run `rdp`. TLC checked `KeptInv` as an invariant there before it was proved (1,128,203 distinct states).

`WellFoundedInduction` is used for one thing, that a set of numbers that is not empty has a least one.

Only model-checked: the liveness properties (`QueuedPacketLeaves`, `Answered`, `Forgotten`, `Telemetry`, `ElementsFreed`), since
liveness under fairness and ENABLED are beyond the prover; and the violations.

## Plan

1. SFP over RDP; forwarding and connection-less sockets beside `TaskServer`.
2. `KeptUntilReceived` beyond `Few`, on links where no acknowledgement is more than a window late.

## Not modelled

- Orbit prediction and the Doppler correction: floating-point arithmetic, of which TLC and TLAPS
  have none; the two threads that would apply it return at once.
- What texts, files and pipes hold, the console's parser, start-up. No state of the
  station depends on them.
- I2C and loopback (a packet is passed on whole), ZMQ (a library), encryption.
- The browser front end, which shows what it gets.
- The vendored libraries and the device clients (`lib/libutil`, `lib/libparam`, `lib/libftp`,
  `lib/libgosh`, `clients/`). They are most of the repository's lines: console commands that ask a
  satellite's subsystem for a table and print it, compression, hash tables, headers of prebuilt
  objects. The share of the repository's lines that is modelled is small for that reason.
