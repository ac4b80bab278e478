# Verification of the TM4C129 secure-communication firmware

TLA+ models, TLC runs and TLAPS proofs for the firmware in `src/`: a TM4C129
board that runs FreeRTOS and FreeRTOS+TCP, registers with an authentication
server, stores the access grants of that server, filters every received frame
in the Ethernet interrupt handler with a firewall, and serves the requests of
the peers that were granted access.

`PROJECT.json` lists components, runs, mutants, theorems, findings and hazards,
and maps every modelling definition to the lines it stands for.

## 1. Inventory

### Parts, their state and their operations

| part | source | state | operations |
|---|---|---|---|
| network buffer pool | `BufferAllocation_1.c` | free list, counting semaphore, statistic | get and release by tasks and by the handler |
| Ethernet driver | `NetworkInterface.c` | receive and transmit descriptor rings, handler's index | interrupt handler, `PacketReceive`, `xNetworkInterfaceOutput`, initialisation |
| IP task | `FreeRTOS_IP.c`, `FreeRTOS_UDP_IP.c` | event queue, timers, network up | one handler per event |
| ARP cache | `FreeRTOS_ARP.c` | rows: address, hardware address, age, valid | refresh, reserve, age, look up |
| sockets | `FreeRTOS_Sockets.c` | port, list of waiting packets, bits for its task, set it belongs to | create, bind, sendto, recvfrom, recv, send, select, close |
| firewall | `firewall.c` | list of groups, each with a list of rules | add and remove groups and rules, check a frame |
| access table | `secsock.c`, `ip_check` in `led_task.c` | entries: name, key, end, address | store a grant, look up a request, answer, sweep |
| registration | `secsock.c`, `secsock_portable.c` | registered or not, distribution key, nonce | request, answer a challenge, take the key |
| RSA arithmetic | `rsa.c` | arrays of 64-bit words | 1024-bit modular exponentiation |
| stream buffer | `FreeRTOS_Stream_Buffer.c`, `.h` | four markers, an array of bytes | add at an offset, get, arithmetic of markers |
| TCP window | `FreeRTOS_TCP_WIN.c` | next and highest number expected, stored segments, SACK; sent segments | check a received packet; queue, send, acknowledge, repeat |
| TCP connection | `FreeRTOS_TCP_IP.c`, `FreeRTOS_Sockets.c` | state, flags, FIN numbers; children of a listener | handle a packet, a FIN, a reset, a timer; listen, accept, connect, recv, send, shutdown, close; configured, but no task opens a TCP socket |
| LED and button tasks | `led_task.c`, `switch_task.c` | lamps, buttons | main loop of the program |
| AES, keys, strings, start-up, kernel | `aes.c`, `rsa_keys.c`, `string.c`, `third_party/` | | pure functions, constants, vendored code |

### How they interact

A frame arrives by DMA; the **interrupt handler** takes a descriptor from the
pool, copies the frame, asks the firewall (whose third rule reads and writes
the access table) and either releases the descriptor or posts an event. The
**IP task**, whose priority is the highest in use, takes events one at a time:
it updates the ARP cache, answers in the same buffer, drops the frame, or
queues the buffer at a socket. The **LED task** reads the socket through
`secsock.c`, edits the access table and sends through `FreeRTOS_sendto`, which
looks into the ARP cache in the caller's task before it posts to the IP task.

A **TCP connection** belongs to the IP task; its owner reads the stream of
received bytes, fills the one to be sent and changes flags of the connection.
Calls that change which sockets exist or are bound (`FreeRTOS_bind`,
`FreeRTOS_closesocket`, the questions of `FreeRTOS_accept` and
`FreeRTOS_select`) are events of the IP task's queue. It leaves bits for the
task that waits for a socket and wakes it before it sleeps.

The only locks are the critical sections of the pool and of the socket lists.
The firewall lists, the access table, the ARP cache, the streams and the flags
of a connection are shared without one.

### What is hard

* *interleaving*: the handler preempts everything, between any two writes; the
  IP task preempts the LED task; the DMA runs in parallel;
* *resources at their limit*: pool threshold, event queue, table and cache full;
* *time*: grants end while they are looked up; rows of the cache grow old;
* *an unreliable network*: late, lost and doubled answers to earlier attempts,
  data and acknowledgements of TCP in any order;
* *waiting*: a bit that comes between the look and the sleep, a set of sockets
  that is asked about while packets come, a queue that refuses an event;
* *ownership*: a child nobody has accepted yet is reset, times out, is offered
  or closed with its listener;
* *data left over*: reused rules keep their links, reserved rows their hardware
  address, overwritten names their end, failed receptions the buffer's content;
* *arithmetic* on words: carries, borrows, shifts in place.

What makes each part correct: the pool hands a descriptor to one holder only;
no buffer is lost on its way (but by one error path, section 3); the rings stay
in step; verdicts follow the rules of the policy; the table admits, hears and
answers only under a live grant of the right peer (but in one window, section
3); the key belongs to the attempt that got it; rows of the cache
never shadow each other and tell what was heard last; a TCP stream gives its
owner the bytes that were sent, in turn and to the end, and releases none that
the peer does not hold; a child is offered once, to one task, and none deletes
what another holds; ports are unique and no task sleeps over what it waits for;
RSA computes the power.

## 2. Modules

| module | role |
|---|---|
| `BufferPool`, `BufferOwnership` | the pool step by step; exclusive ownership, which it implements |
| `NetworkPath`, `BufferCustody` | DMA, handler, IP task and socket task around one set of buffers; the graph of places a buffer moves along, which it implements |
| `Firewall`, `FirewallPolicy` | the linked lists write by write; the policy they implement |
| `AccessTable` | the table between the handler, the LED task, those who write grants and the clock |
| `Registration` | the attempts, the server and the network |
| `ArpCache`, `AddressResolution` | rows, ages, both look-ups and what is sent; the resolution of addresses it implements |
| `StreamBuffer` | the circular buffer: operators on its markers and bytes |
| `ByteStream` | what a stream promises to the two tasks that share it |
| `TcpReceive` | receive window, FIN and owner of one connection; implements `ByteStream` |
| `SeqNumbers` | sequence numbers that wrap |
| `TcpTransmit`, `AcknowledgedTransfer` | the owner's writes, the segments, their queues and the timer of one connection, with a lossy network; the transfer it implements |
| `TcpConnection`, `SocketCustody` | states, children, listener and client of TCP connections; who may use a socket, which it implements |
| `Sockets`, `Mailboxes` | ports, packets, waits and `FreeRTOS_select` of the tasks; one mailbox per port, which the UDP sockets implement |
| `Bignum`, `Rsa` | word arithmetic; `rsa1024` as a machine |
| `*_proofs` | theorems about `ArpCache` and `BufferPool` (`SharedTables_proofs`), `NetworkPath` and `Firewall` (`NetworkPath_proofs`), `AccessTable` and `Registration` (`SecSock_proofs`), `TcpReceive` and `ByteStream` (`TcpReceive_proofs`), `TcpTransmit`, `Sockets`, `TcpConnection`, `Bignum` and `Rsa` (`Rsa_proofs`) |
| `MC*` | small instances for TLC |

Operators introduced by "A slip:" are deliberate faults with the parameters of
the definition that follows them. No specification uses them: `PROJECT.json`
pairs each with a property that fails when it takes that definition's place.

### Correspondence with the code

**BufferPool.** A call of a task is several steps: take the semaphore; unlink
the head in a critical section; read the length; write the statistic; and for
a release: link last in a critical section; give the semaphore. A call of the
handler is one step, since nothing preempts it. `LinkLast` also accepts a
descriptor that is free, since the code guards against it.

**NetworkPath.** `rxDesc`/`txDesc` are the OWN bits and results of the rings,
`macRx`/`macTx` the DMA's own position. `IsrAccepts`, `IsrRejects` and
`IsrWithoutBuffer` are the three ways through `EthernetIntHandler`, one step
each. `ipPc` names the event the IP task works on and, inside
`xNetworkInterfaceOutput`, the place: `output` (before the descriptor is
latched), `spin`, `sent`, and `oversized` for a length above `TX_BUFFER_SIZE`,
which is refused before anything is sent or released (`OutputRefuses`). Only
the answer to an echo can be that long: it has the length its IP header states
(`FreeRTOS_IP.c:1639`, 2078), while datagrams and ARP requests are limited. The
history `lost` holds the buffers that were left with nobody in this way. A step
of the socket task requires `IpIsBlocked`: it has the lower priority. What
protocol code decides about a frame is a choice.
Assumed: the MAC address is programmed, so the first initialisation succeeds;
the IP task has run its first lines before other tasks use the stack; the ARP
timer, with a period of ten seconds, does not post again before its last event
was taken. The DMA is external: it fills the armed descriptor in turn, and
sends and gives back the transmit descriptor in turn.

**Firewall.** `next_group_struct`, `first_rule` and `next_rule_struct` are the
fields. Linking a rule and terminating the list are two steps, because the
handler can run in between; a group is linked by its last write, a removal is
one write, so each is one step. `Check` is the handler's walk, evaluated in
every state. A field nobody has written is `Wild`. A rule that was removed may be
added again, with the link it had; `VerdictFollowsPolicy` promises nothing
while such a link is still in the list, which cannot happen with the rules of
`led_task.c`: they are added once.

**AccessTable.** `pc` is the place of the LED task: `listen`, `lookup`
(message taken and time read), `grant`, `store` (name and end written, address
and key not yet), `serve`, `respond`. Handler frames are one step. Names are
sequences of letters because entries are matched by a prefix and overwritten
without terminating zero. A message is the name it bears, the key it is sealed
with, and a request or a grant. As in the code the key is chosen by the name,
and a grant is taken under whichever key opens the message (`TakeGrant`,
`secsock.c:582-620`): the server's, or one that came with an earlier grant, in
which case whoever holds that key has written it (`Issue`), for any peer and with
any key it knows. Any message may be delivered at any time and again. The
history variables record, for each grant, when the access it gives ends
(`until`), and for the request that is served its key and address (`request`)
and those of the last answer (`response`). Assumed: cryptography is ideal; names
fit into their field, minutes into the clock; the four bytes of an address are
written at once. A message comes only while the task waits for one
(`RoomForMessage`): one that came earlier and waits is treated alike, because
frames from the server's address pass whatever the table holds.

**Registration.** One attempt is `Request` and then one step per message taken
from the socket. The server is external: it challenges a request, makes one key
per challenge that is answered, or refuses. The network keeps every message for
ever and delivers any of them at any time. Nonces of different attempts differ.

**ArpCache.** `Learned` and `Reserved` are `vARPRefreshCacheEntry` with and
without a hardware address, `AgeCache` is `vARPAgeCache`, `Lookup` is the
IP task's `eARPGetCacheEntry` in one step; `SendTo`, `LookupRow`,
`LookupMatch`, `PostDatagram` are the same look-up in `FreeRTOS_sendto`, a read
at a time, which the IP task preempts; `IpSends`, `IpAsks` and `IpDrops` are
what the IP task does with the datagram when its turn comes
(`vProcessGeneratedUDPPacket`). `heard`, `asked` and `sent` are histories.
`AddressResolution` is what those who send may rely on: a table of what is known
of each address, datagrams that are prepared, handed over, and leave for the
hardware address their next hop is known by; `to` and `queue` are the datagram
in preparation and those handed over.

**StreamBuffer, ByteStream, TcpReceive.** The IP task has the higher priority,
so all that `prvTCPHandleState` does with a packet is one step, `Receive`: the
window checks it (`lTCPWindowRxCheck`), the data goes into the stream at the
head or ahead of it, the head steps over what was stored before
(`prvStoreRxData`), and the state's handler looks at the FIN
(`HandleEstablished`, `HandleFin`). It may come between any two steps of the
owner: copy the bytes, move the tail, look at the space, and for a flag load
the word it is in and store it. The bytes are the numbers of the peer's stream,
so a byte that is missing, doubled or stale shows; sequence numbers wrap modulo
`SeqSpace`, and signed and unsigned differences are told apart. `Packets` is
how the peer cuts its stream: in the run, and in the theorems about what is read
and acknowledged, each byte belongs to one piece, which is repeated as it is;
the network loses, repeats and reorders the pieces. Whether all that was sent is acknowledged (`txDone`), and whether the
FIN is (`acked`), is a choice, since the sending half is not in the module.
Left out: the creation of the stream, replies, the advertised window, callbacks
and `FREERTOS_SO_CLOSE_AFTER_SEND`; RST is in `TcpConnection`, keep-alive in
`TcpTransmit`.

**TcpTransmit.** The owner copies bytes and then moves the head (`SendCopy`,
`SendMove`), with the IP task in between. A packet or the timer makes the IP
task call `prvTCPPrepareSend` several times, and each call sends at most one
segment: `burst` counts the calls that may follow, and each is one step. A
segment is taken from the priority queue, from the head of the waiting queue if
its time is over, or from the transmit queue if the peer's window has room
(`ulTCPWindowTxGet`); an acknowledgement, selective or not, ticks segments off,
releases those that are acknowledged without a gap, and makes the ones that were
passed over several times be sent again (`prvTCPWindowTxCheckAck`,
`prvTCPWindowFastRetransmit`). The pool of segments is shared with other
connections, which may borrow `Borrowers` of it at any call. The bytes are the
numbers of what the owner wrote, so a packet with a stale or skipped byte shows.
The network and the peer are external: packets are lost, repeated and come in
any order, the peer acknowledges what it holds, and offers windows as it likes.
A timer may fire whenever its segment waits; the measured round-trip time only
says when that is likely.

**TcpConnection.** The operators of the IP task map a *world* (sockets, list of
bound sockets, listener, queue) to the next one, as the C functions call each
other; an action applies one of them. The peers send any flags at any time, and
what the numbers of a packet say (`acksFin`, `all`) and how far the stream is
(`txDone`) is a choice, since `TcpReceive` and `TcpTransmit` are about it. One
listener has children (`prvHandleListen`), which are offered when they connect
(`vTCPStateChange`), taken by `FreeRTOS_accept` in its steps, and closed by an
event that a full queue refuses. `Tasks` says which of the two programs runs,
the one that accepts or the one that connects; a socket that was used is used
again (`FreeRTOS_connect` on a closed socket). The states are those the code
reaches: eSYN_FIRST is passed within one call.

**Sockets.** The IP task has priority 14, the LED task 1 and the button task 2
(`FreeRTOSIPConfig.h`, `led_task.c`, `switch_task.c`), so a task takes a step
only while the IP task sleeps (`Asleep`: the queue is empty and no bits are left
to be passed on), and packets may come between any two steps. `task` holds where
a task is inside its call, at which socket, and, for the set, what it asked for.
`xEventBits` are what the IP task has left for a socket's task, `xEventGroup`
and `xSelectGroup` the event groups the tasks wait at. `Casts` are the sockets
that are used together and `Wants` the bits the owner of the set asks for.
Between two words that the code reads without a lock, such as the bytes and the
state in `FreeRTOS_recv`, is a step. TCP sockets are connected from the start and
stay open; listeners are in `TcpConnection`.

**Bignum, Rsa.** A `uint64_t` is `0..Base-1` with `HalfBits` bits per half
word, and every intermediate value is cut as the C expression is. The reduction
is a machine of its own because it shifts its argument in place. `Loop` is a `for`
loop over the words that hands on a carry, `TwoTo` a power of two; both are
recursive functions, whose recursion the proofs can unfold. A call has a key above
1: keys are products of two primes, and `modbignum` with a modulus of 0 does not
end.

## 3. Runs

| run | instance | question |
|---|---|---|
| `pool` | 4 descriptors, 2 tasks, threshold 1 | one holder, an honest semaphore, the handler's reserve, refinement of `BufferOwnership` |
| `path` | 2 buffers, threshold 0, 3 receive and 2 transmit descriptors | no buffer in two hands, none lost but with an answer too long to be sent, room in the event queue, ring in step (`PathInv`), reception stops only when starved, refinement of `BufferCustody`; the IP task returns |
| `path_freed` | same | *violated*: a buffer is free only after it was sent |
| `fw` | 3 groups, 2 of one name, 3 rules | well-formed lists, the verdict between any two writes follows the policy, refinement of `FirewallPolicy` |
| `access` | 3 names, one a prefix of another, 2 entries, 3 grants, times 0 to 3 | addresses are admitted only under a live grant for them, but in the window of an entry that is being filled (`AdmitsOnlyGranted`); requests and grants are heard only under a live grant, and every grant that is stored goes back to the server (`HeardUnderLiveGrant`); answers go out under the key of the request; nothing unexpired is dropped, replaced or prolonged |
| `registration` | 3 attempts, 3 challenges, 2 waiting messages | the key answers the last attempt |
| `arp` | 3 local addresses and 1 remote, 3 hardware addresses, 2 rows | truthful hits, expiry, distinct rows (in `IInv`); datagrams leave for what their next hop is known by, or a request in their place (refinement of `AddressResolution`) |
| `receive` | 6 bytes and a FIN in 4 pieces of one segmentation, a stream of 4 bytes, 2 stored segments, reads of 2 bytes, 32 sequence numbers from 30 on | the owner reads what was sent, in turn; what is acknowledged, also selectively, is held where it belongs (`ReceiveInv`); a FIN only after its data; refinement of `ByteStream`; the whole stream is read and closed |
| `transmit` | 3 bytes in segments of 2, a stream of 2 bytes, 2 segments of which others may borrow one, windows of 0 and 2, selective acknowledgements, 32 sequence numbers from 30 on | the segments cover the stream and every one that is not acknowledged waits in one queue (`TransmitInv`); packets carry what was written; refinement of `AcknowledgedTransfer`; everything is acknowledged, or the connection is given up |
| `connection` | 2 sockets, 2 peers, backlog of 2, a queue of 1 event, 2 repeats | children are counted (`ConnectionInv`); what is offered can be accepted; refinement of `SocketCustody`; offered children are accepted and no socket stays half open |
| `sockets` | 3 UDP sockets and 1 connection in three casts, 2 tasks, 2 ports, 2 waiting datagrams or pieces | unique ports; nobody oversleeps; what is told to be readable is; refinement of `Mailboxes`; questions without a time limit are answered |
| `rsa` | 2 words of 4 bits, 1210 calls | the power, congruence, the modulus intact, reads in bounds, short loops |

The *violated* run compares a sentence of the repository with what its code
does; `PROJECT.json` quotes it under "findings".

Other disagreements met on the way, which no run shows. Where a name is given, the
module has the definition of what was expected, and TLC finds it violated.

*Driver and firewall.* `xNetworkInterfaceOutput` returns `pdFAIL` for a length
above `TX_BUFFER_SIZE` without releasing the buffer (`NetworkInterface.c:556-559`),
and its callers do not look at the result (`FreeRTOS_IP.c:2087`,
`FreeRTOS_UDP_IP.c:256`). The answer to an echo takes its length from the IP
header (`FreeRTOS_IP.c:1639`, 2078) and so can be that long: its buffer is lost
for good. Each such answer makes the pool smaller by one, until reception
starves. `PathInv` and `ImplementsCustody` have this one exception and no other.
The result of `PacketReceive` is not looked at, so that a
frame the hardware found erroneous is processed with what its buffer held
before (`NetworkInterface.c:353` against the comment in 251;
`NetworkPath!OnlyValidFrames`). A transmit descriptor is latched before the wait
for the DMA, which has moved on by then, so that the frame waits until the ring
comes round (`NetworkInterface.c:563-605`). A rule is linked before its own link
is cleared (`firewall.c:42-43`), so the handler may walk a link left over from
earlier use (`Firewall!FirewallKeepsItsFields`). The statistic
`uxMinimumFreeNetworkBuffers` is not the lowest number of free descriptors
(`BufferAllocation_1.c:292`, and 335-370 leaves it alone).

*IP task, ARP and sockets.* `prvCalculateSleepTime` compares the ARP timer's
remaining time but takes its reload time (`FreeRTOS_IP.c:611-613`); the TCP
timer, which is shorter, hides it. `FreeRTOS_sendto` lets `eARPGetCacheEntry`
replace the address of the datagram by the gateway's on a miss
(`FreeRTOS_Sockets.c:905`, `FreeRTOS_ARP.c:467`), where the IP task gives it a
copy (`FreeRTOS_UDP_IP.c:112`), and it returns 0 for a datagram that is queued
and may be sent (906). A look-up in the ARP cache does not refresh the age as
`FreeRTOS_ARP.h:122-124` says. `prvGetPrivatePortNumber` does not come back if
no port is free (1659). A datagram sets the bit of the set but not that of the
socket (`FreeRTOS_UDP_IP.c:348`), so `FreeRTOS_select` may return READ while no
`FreeRTOS_FD_ISSET` is. Two tasks that share one set may wait for ever, since
each clears the answer of the other (`FreeRTOS_Sockets.c:621`).

*Access table.* A grant is taken under whichever key opens the message, not only
under the server's (`secsock.c:582-620`), so the holder of a granted key can
write grants for other names, addresses and keys; `HeardUnderLiveGrant` says
what is left: whoever writes one holds the key of a grant that was stored. The
new end of an entry is written before its new address (649-651), so for that
moment the handler admits the address the entry had before, whose access has
ended; `AdmitsOnlyGranted` has this one exception. A grant bears no time stamp:
one that is delivered again after its access has ended gives it once more
(643-649). A grant may be refused as an overflow while an entry has expired
(`secsock.c:636`), and a peer may not be found under its name when names share
a prefix (626, 647).

*TCP data.* When the peer repeats several pieces as one, only the first of the
stored segments it covers is confirmed, and bytes may be passed twice
(`FreeRTOS_TCP_WIN.c:828`; `StreamIntact` fails for the packets
`MCTcpReceive!TwoCuts`). In FIN_WAIT_1 `prvTCPHandleFin` steps over a FIN whose
data has not come in, against the comment in `FreeRTOS_TCP_IP.c:1981`. The
owner's change of a flag may undo the IP task's `bFinRecv`, since both are bits
of one word (`FreeRTOS_IP_Private.h:546`, `FreeRTOS_Sockets.c:2356`), and then a
late copy of the FIN is taken for the first. `prvTCPWindowTxHasSpace` compares
sequence numbers as plain integers, so that a window that wraps is overrun
(`FreeRTOS_TCP_WIN.c:1152`; `TcpTransmit!WindowRespected`, for example with
LENGTH and StreamLength 5, MSS 1, four segments, TxWindow 4, FirstSeq 31 and
Windows {2}). `xTCPWindowTxDone` looks at the segments only
(`FreeRTOS_TCP_IP.c:1799`): when other connections hold every segment of the
pool, the FIN goes out before data that waits in the stream
(`ImplementsTransfer` fails if `Borrowers` is `SegCount`; the run leaves this
connection one).
`FreeRTOS_send` does not look at the state again inside its loop
(`FreeRTOS_Sockets.c:2485-2605`). `FreeRTOS_recv` reads the number of bytes and
then the state: data and the end of the connection that come in between make it
return `-ENOTCONN` with the data unread (2237, 2246), against its comment
("Only after the last byte has been read, a close error might be returned",
2216).

*TCP connections.* An orphan that gets anything but the expected packet goes to
eCLOSE_WAIT and is never deleted, which fills the backlog
(`FreeRTOS_TCP_IP.c:2331`, 430, 465; `TcpConnection!OrphansLeave`). A child
whose listener has been closed while it was in eSYN_RECEIVED writes through the
pointer to its parent when it connects (1476-1486). The close event of a child that is reset is lost on a full queue
(1580). A connected child that is reset before it was accepted is kept and
offered, although the comment in 1573 speaks of any that nobody owns yet. A
refused connection does not wake the task in `FreeRTOS_connect`, which sleeps
until its time limit. A client's socket that is connected again keeps the FIN
bits of its last connection (`FreeRTOS_Sockets.c:1979-1992`).

### Why the bounds are enough

* `pool`: with four descriptors and threshold 1 the handler refuses while two
  tasks are between their steps; all of it is proved for any number.
* `path`: with two buffers the handler, the IP task, the queue, the socket and
  the DMA hold one each in every combination, and the pool starves; symmetry is
  not used, since the run checks liveness. Three receive descriptors tell "the
  next" from "the other". The event queue is one place per buffer and the
  reserve of the configuration (`FreeRTOSIPConfig.h:259-263`). Deadlock is
  checked. (The threshold is what `pool` is about.) The safety part is proved
  for any number.
* `fw`: three rules make a first, middle and last one; two groups of one name
  make the refused addition and the replaced group. All of it is proved for any
  number.
* `access`: the names `t`, `t v` and `b` make the found prefix and the left-over
  end, and `b` is the server's name and a peer's; two entries make the full table;
  a minute of two ticks, times 0 to 3, and three grants make an access end, be
  renewed and be overtaken, and a grant under the key of a grant under a granted
  key; one message waits at a time. All of it is proved for any number.
* `registration`: three attempts are a present one and two earlier ones, whose
  answers fill the queue of two.
* `arp`: more hosts than rows, and as many hardware addresses; the ages 3, 2
  and 1 keep the order of the real ones (150, 5, 3), with one step before the
  first request.
* `receive`: the stream of four bytes is smaller than the peer's six, so that
  it fills, wraps and is refused data; three pieces can come out of order and
  two can be stored, so that segments run out; the numbers wrap after two
  bytes. Deadlock is not checked: a connection that is closed and read stops.
* `transmit`: the stream is smaller than what the owner writes, so that it fills
  and wraps; one segment is full and one is not; with one of the two borrowed
  the pool is empty; two packets on the wire overtake each other, and the
  network loses what is more; counts of repeats go one past the number that
  matters; the numbers wrap at the third byte. Deadlock is not checked: when
  all is acknowledged the connection rests.
* `connection`: two structures are two children that wait at the same time, or
  one that is left and a new one; a queue of one event is full as soon as
  anybody else has asked; two peers come back while their last socket is still
  there. Deadlock is not checked: a task that has closed its sockets stops.
* `sockets`: two private ports are contested by two sockets, whose owners are
  the task that reads and the one with the set, or both belong to the set; with
  the connection the set asks for all three bits. Two waiting packets show their
  order. Ports, waits and mailboxes are proved for any number.
* `rsa`: two words make a carry into a word that is full or empty; all
  instances together take every distance between lengths from -8 to 8 bits.

### Fairness

`NetworkPath!FairSpec` has weak fairness on `MacTransmit` (the DMA sends what it
owns once it was told so), on `Isr` (a pending interrupt is taken) and on
`IpTask` (the highest priority in use runs whenever it can). None is assumed
for the socket task, the ARP timer or the arrival of frames.

`TcpReceive!Spec` has weak fairness on each piece with everything sent
acknowledged, `Receive(p, TRUE, FALSE)`: a peer repeats what is not
acknowledged and the network delivers one of the copies; and on the owner's
reading, which `Completes` is about. None is assumed for `FreeRTOS_shutdown` or
the timers.

`TcpTransmit!Spec` has weak fairness on what the IP task has begun
(`PrepareSend`) and on the owner's moving of the head (`SendMove`); strong
fairness on the timer, which runs again whenever something waits to be sent or
acknowledged, though packets that come in put it off; and strong fairness on the
network and peer, piece by piece: a byte or a question that is sent again and
again arrives some day, and the peer answers some day with all it holds and an
open window. None is assumed of new calls of the owner.

`TcpConnection!Spec` has weak fairness on the IP task's events and on every
socket's timer, which finds some day that the peer was silent for 30 seconds
(`prvTCPStatusAgeCheck`), on the task that accepts, which goes on calling
`FreeRTOS_accept`, and on the one that connects; strong fairness on the question
of `FreeRTOS_accept`, which waits for room in the queue without a limit. None is
assumed of peers, time limits or closing.

`Sockets!Spec` has weak fairness on what the IP task serves and strong fairness
on each task's own steps, which are possible whenever the IP task sleeps: no
task of the program works without ever waiting. None is assumed of packets, time
limits or new calls.

## 4. Proofs

TLAPS checks, for every value of the constants that satisfies the assumptions
named in the modules:

* `SharedTables_proofs`, `BufferPool`. The inductive invariant `PoolIInv` is type correctness, an
  injective free list, one holder per descriptor, and *semaphore + tasks that
  took it + tasks about to give it = length of the list* (`CountAgrees`). The
  last conjunct needs the first three: the give is only below the maximum
  because an injective list is no longer than the number of descriptors. From
  it: `SemaphoreIsHonoured`, `ReserveIsKept`, and the refinement
  `PoolImplementsOwnership`, one step of the ownership or a stutter per action.
* `SecSock_proofs`, `AccessTable`. Names being distinct is not inductive by itself: a new
  name is written over an old one, so the proof needs that an entry matched by
  prefix either is the one overwritten or that the name is in none
  (`NamesDistinct` with `Candidates`). `EntriesGranted` ties key, address and
  end of each entry in use to one grant that was stored, and the address of any
  entry to 0.0.0.0 or such a grant; while an entry is being filled only its name
  and end are those of the new one. So a key that opens a message came with a
  stored grant, and whoever sealed a grant under it holds that key: since the
  invariant holds whenever one more grant is stored, the chain of keys ends at
  the server. `Serving` carries key and address of the request across the two
  answers. From the invariant: what is admitted (`HandlerAdmitsOnlyGranted`),
  heard (`MessagesHaveLiveGrants`), answered and kept.
* `SecSock_proofs`, `Registration`. `AcceptancesHold` says of everything on its way or at
  the socket that the key was made for the nonce the message bears; with it
  the comparison of nonces gives `KeyIsForThisAttempt`.
* `SharedTables_proofs`, `ArpCache`. One lemma describes what is learned: a set of at most one
  row is filled, every other row is cleared, or untouched and without either
  address. From it: `RowsStayDistinct`, `LookupsFindTheHeard`; `AskedOK` ties
  the requests that fell due to the age and gives `OnlySilenceExpires`.
  `CacheResolves` is the refinement: since rows are distinct an address has one
  row at most, so what is learned, forgotten or asked is one change of the
  table of the abstract resolution; that a row can be taken at all needs that
  one of them is the oldest (`SomeOldest`). For those who send: the look-up of
  `FreeRTOS_sendto`, whatever the IP task did meanwhile, hands over the datagram
  with its destination or with the gateway's (`AppSends`); when its turn comes
  the first row of its next hop is the only one and, if valid, holds what the
  hop is known by (`KnownInRow`, `SendSends`), and no row or one without an
  answer means that nothing is known or a request is out (`DropDiscards`).
* `NetworkPath_proofs`, `Firewall`. What a walk along a list visits is a recursive function;
  `OneWalk` shows that its recursion has one solution (two cannot differ at a
  least place) and `WalkIs`, `ChainIs` that along a list the solution is the
  list. The inductive invariant (`Shape`) names the list of groups and the list
  of rules of each, without repetition and apart; a rule that is linked and not
  yet terminated is the last one of its group. `ListAppend` and `ListRemove` say
  what one write does to a list, whatever the links of structures that are in
  none. From them: `ListsStayWellFormed`, `PolicyImplemented` and
  `HandlerFollowsPolicy`: a walk that meets the rule being added ends there, if
  its old link leads to no rule.
* `TcpReceive_proofs`. The invariant `IInv` says where the two ends of what is
  known lie: `current` is the number of the byte after the last that came in
  without a gap, which is always a border between two pieces (`WindowInv`); a
  stored segment is a piece further ahead, and its bytes are where the head will
  find them (`StoredInv`); neither the shared word of flags nor the copy the
  owner has loaded says more than is so (`BitsInv`). It needs `OneSegmentation`:
  the peer repeats its pieces as it cut them first. Without it `StreamIntact` is
  false (section 3, `MCTcpReceive!TwoCuts`), so the theorems about what is read
  and acknowledged have it as a hypothesis: `OwnerReadsStream`,
  `AcknowledgedIsStored`, `FinComesLast`. The steps: what is computed with
  wrapping sequence numbers is what holds of the bytes (`MinusIs`, `SignedIs`,
  `Compared`; the stream and the buffer are less than half of the numbers);
  `WalkIs` shows that the recursive walk over the stored segments has a value,
  and `FollowingIs` what it finds, both by a least counterexample; `CheckedIs`
  gives the four ways in which `lTCPWindowRxCheck` may answer; `WriteIs` and
  `StoreEffect` say which bytes are held after a write. `StreamImplemented`, the
  refinement of `ByteStream`, needs no hypothesis: however the peer cuts and
  repeats, an offset that is not negative plus the length of the data fits in
  the space (`OffsetIs`), so that every write is one that `ByteStream` allows.
  What `ByteStream` promises is proved of its own specification:
  `LessThenEqualIsOrder` shows that the comparison of two markers is that of
  their distances from the tail, however the array wraps; `AddKeepsOrder` and
  `TailMovedIs` say what adding and taking do to the order tail, head, front;
  from them `StreamStaysInOrder` (with: what was copied is still there when the
  tail moves) and, because a write begins beyond what can be read and ends
  before the tail, `UnreadStaysIntact`.
* `TcpTransmit_proofs`. The invariant `IInv` holds for every pool, every number
  of segments lent to others and every peer that acknowledges what it holds.
  `Good` is about the window: the segments follow one another from the first
  byte not acknowledged to the byte before the mid marker (`Chained`), their
  positions in the array are those of their bytes (`Placed`), those ticked off
  are held by the peer (`AckedAreHeld`), and `Queues`: the last segments have not
  been sent and stand in the transmit queue in order; every other one that is
  not acknowledged stands once in either the waiting or the priority queue.
  `StreamInv` and `OwnerInv` say which byte is where, also between the copy and
  the move of the head; `NetworkInv` that a packet carries bytes in a row that
  have been sent (`SentUpTo`), and that the peer holds what was released.
  The type and `TransmitInv` are not enough: that an acknowledgement releases no
  byte the peer lacks needs `AckedAreHeld`, and that the bytes of a repeated
  segment are still there needs `Chained` and `Placed`. The steps: the
  recursive functions that drop and keep members of a queue have their values
  by a least counterexample (`KeptIs`, `WithoutIs`); `CheckedLeft` and
  `CheckedAhead` say what a plain and a selective acknowledgement do to the
  window, `FastIs` what the fast retransmission moves, `CutIs` and `AddIsGood`
  what new segments are cut, `ChosenIs` and `DataIs` which is sent with what
  bytes. From it: `TransmitInvariant`, `SendsWhatWasWritten`, and
  `TransferImplemented`, the refinement of `AcknowledgedTransfer`. The
  refinement alone has a hypothesis, `Borrowers < SegCount`: if other
  connections can hold the whole pool the FIN overtakes data (section 3). With
  it `BurstInv` is inductive: while the IP task is sending, a window
  without segments means that everything written has been cut.
* `NetworkPath_proofs`, `NetworkPath`. That every buffer is in one place counts members of
  sequences, which is no form to prove with: `CustodyOK` says it with sets, the
  buffers of the queue being those of its events, no two of which have the same
  buffer or, without one, the same type (`EventsDiffer`). The counts follow.
  `DownOK` says that until the first network-down event is served the rings are
  untouched, without which the initialisation would arm a descriptor twice.
  `RoomForFrame` is a counting argument over the events: as many frames as there
  are buffers that are not in the handler's hand, and at most three events
  without one, so it needs `ReserveAssumption`. From the invariant: `Path_is_safe`,
  `Stalls_only_when_starved`, and `Path_implements_custody`, at most one buffer
  moved along one edge per step. What is lost is a place like the others, entered
  only by `OutputRefuses` and never left.
* `Sockets_proofs`. The inductive invariant has five parts besides type
  correctness. `SocketOK`: a socket without a port is empty, one with a port is
  open, and a UDP socket leaves nothing for later. `QueueOK`: one event waits at
  most, and its caller waits for it. `TaskOK` is what `NobodyOversleeps` needs
  between the look and the sleep: a task that has looked and found nothing finds
  a bit, in its group or still due to it, for all that has come since. `SelectOK`
  says the same of the set, unless it is still to be asked, and that what it has
  answered is true. `PortsAreUnique` is inductive with `QueueOK`, since a socket
  that is bound was not bound before. From it: `Ports_are_unique`,
  `Nobody_oversleeps`, `Readable_has_data`. `Implements_mailboxes` maps each port
  to what waits at the socket that has it: with unique ports the choice of that
  socket is determined (`BoxFound`, `BoxEmpty`), a step at one socket changes the
  box of its port alone (`OneBox`), and each action is one step of `Mailboxes` or
  none.

* `TcpConnection_proofs`. What the IP task does is a function of a world, often
  of several in a row, so the lemmas describe the *effect* of each on a world:
  it is quiet, offers a child, refuses one, deletes or abandons a socket, or posts
  a close event. The invariant gives each socket one owner (`SocketOK`: an orphan
  of the stack, offered to the listener, held by a task, or on its way out by a
  close event) with the states each may be in: an orphan is never connected, an
  offered child is past its handshake. With it two things can be shown that the
  count needs: at most one close event is posted for a socket (`CloseOnce`), so
  that no event outlives its socket and counts another down; and the age check
  deletes only what nobody else will (`CountOK`). From the invariant:
  `Children_are_counted`, `Offers_are_acceptable`, and
  `Connections_keep_custody`, at most one socket moved along one edge per step.
* `Rsa_proofs`, for every width of a word and every length of a number. The base
  is that a recursive function is what its equations say: `Recursion` builds one
  function with a first value and given steps, `OneFunction` shows that there is
  no other, so that `TwoTo`, `Value`, `Power`, `Loop` and the sum in `Product`
  have the values one expects (`TwoToIs`, `ValueOfWords`, `PowerFacts`, `LoopIs`).
  Then one turn of each loop of `rsa.c` is a lemma about a word and a carry
  (`AddTurn`, `MultTurn`, `SubTurn`, `LeftTurn`, `HalfTurn`): what is left in the
  word and what is handed on make up the whole result. By induction over the words
  `addbignum`, `multbignum`, `subbignum`, `compare`, `slnbignum`, `srnbignum` and
  `bit_length` are the operations on the values of their arrays (`AddIs`,
  `MultIs`, `SubIs`, `CompareIs`, `ShiftLeftIs`, `ShiftRightIs`, `BitLengthIs`),
  a shift to the left under the condition that the value still fits, a difference
  under the condition that it is not negative; `ProductIs` adds up the rows of
  `modmult1024`. The machine keeps the inductive invariant `IInv`, which `TypeOK`
  and `ReductionIsCongruent` are too weak for. `Reduction` bounds what is reduced:
  below twice the modulus before a shift, and *value + turns times modulus* below
  four times the modulus after it, which is why the difference exists and at
  most three turns follow a shift. `Powers` says which power `mod_data` and
  `result` hold at each place of the exponent (`Place`, `BitsDone`) and that
  the bit that was looked at is the one of the exponent; `LengthOfExponent` that
  the words the loop looks at are enough and not too many. From it:
  `RsaReturnsPower`, `RsaKeyIsRestored`, `RsaReduction`. The assumptions are those
  of `InstanceAssumption`: a word of two halves of at least one bit, a number of
  at least one word, arguments that fit and a key above 1.

Recursive functions are reached in these proofs in one of two ways: by a least
counterexample (the set of the places where a claim fails has a least member,
`LeastNumber`, and the step before it gives the contradiction), or, in
`Rsa_proofs`, by induction stated for a set of numbers instead of a predicate
(`Induction`), which is proved from the same fact.

Only model-checked: liveness (`IpTaskReturns`, `Completes`, `AllAcknowledged`,
`OfferedAreAccepted`, `TransientStatesEnd`, `QuestionsAreAnswered`), which is out
of the provers' reach. Every invariant and every action property of a passing run
is a theorem.

## 5. Not modelled

*Compiled out*: DHCP, DNS and their callbacks, the client side of the access
protocol, `BufferAllocation_2.c`, user semaphores and signals of sockets, the
window without segments, remote rows and reverse look-ups of the ARP cache.

*Abstracted*: the bytes of frames, headers and checksums; the options of TCP
(MSS, window scale) and the time an acknowledgement is delayed; the text of
messages, AES, the keys and the strings (cryptography is ideal: what was not
sealed with a key is not opened with it); the measured round-trip time, since a
timer may run out at any time.

*Left out*: options of sockets (time limits may be anything, a buffer length is a
constant), the reports of `FreeRTOS_netstat`, `FreeRTOS_SO_CLOSE_AFTER_SEND`,
`FREERTOS_SO_REUSE_LISTEN_SOCKET`, lamps and buttons, the PHY and the registers
of the board, and the kernel, whose semaphores, queues, event groups, priorities
and critical sections are used by their meaning.

The clock of `AccessTable` does not wrap; the tick count of the code does, after
49.7 days (`secsock.c:649`): an entry stored before that stays valid for up to
as long again.

TCP is configured and part of the image, but no task of this program opens a TCP
socket, and none calls `FreeRTOS_select`; the modules say how they behave for a
task that does.

## 6. Plan

**Done**: pool, network path, firewall, access table, registration, ARP cache,
RSA, stream buffer; TCP reception, transmission and connections; sockets. Proofs
for pool, network path, firewall, access table, registration, ARP cache, TCP
reception, byte stream, TCP transmission, sockets, TCP connections and RSA, with the
refinements of `BufferOwnership`, `BufferCustody`, `FirewallPolicy`,
`AddressResolution`, `ByteStream`, `AcknowledgedTransfer`, `Mailboxes` and
`SocketCustody`.

Left:

1. **Two ends composed**: `TcpTransmit` and `TcpReceive` around one network, in
   place of the external peer of each.
2. **Access table** with a wrapping clock.
3. **Proofs** of what the first two add.
