# GrizzlyFW: a verification of the firmware

GrizzlyFW is the firmware of an Ethernet-fed LED controller on an STM32F407,
with no operating system.  `main` (`src/main.cpp`) sets the board up and runs
one loop for ever: poll the Ethernet receive ring, hand a received frame to
lwIP, run lwIP's timers.  UDP datagrams on port 779 reach
`udp_colorserver_receive_callback`, which parses an OSC message and puts the
colour buffers it carries in an object store.  Interrupts run beside the loop:
SysTick counts time and EXTI15_10 follows the PHY's link.  The Ethernet DMA
engine reads and writes descriptors in memory while all of this goes on.  lwIP
is built with `NO_SYS` 1 and `SYS_LIGHTWEIGHT_PROT` 0: nothing is locked.

Paths below are relative to the repository.  Short names: `eth.c` is
`libs/STM32F4x7_ETH_Driver/src/stm32f4x7_eth.c`, `ethernetif.c` is the one under
`libs/lwip-1.4.1/port/STM32F4x7/Standalone`, `bsp.c` is
`libs/GrizzlyBSP/src/stm32f4x7_eth_bsp.c`, `netconf.c` is beside it, `it.c` is
`src/stm32f4xx_it.c`.

## 1. Inventory

| Component | State | Operations | Interacts with | What is hard | What makes it correct |
|---|---|---|---|---|---|
| Ethernet receive path (`eth.c` 1105-1125, 1336-1371; `ethernetif.c` 226-330; `grizzlyapp.cpp` 37-53) | descriptors (OWN, FS, LS, length), `DMARxDescToGet`, `DMA_RX_FRAME_infos`, RBUS | poll, get frame, copy, give back, resume | DMA engine (shared descriptors), pbuf pool, lwIP input | two sides, no lock; overrun; a frame cut in its middle; no pbuf | each side touches its own descriptors; frames come out whole, once, in order; an overrun engine is resumed |
| Ethernet transmit path (`ethernetif.c` 122-215; `eth.c` 1207-1281) | descriptors, buffers, `DMATxDescToSet`, TBUS | copy a packet, give its descriptors to the DMA, resume | DMA engine, main loop **and** link interrupt as callers | full ring, poll demand racing the engine, re-entrance | accepted frames go out whole, once, in order; the buffer of a frame in flight is not touched |
| Link monitoring and boot of the interface (`bsp.c` 42-490; `it.c` 127-140; `netconf.c` 66-144; lwIP `netif.c`) | PHY latch and INT line, EXTI pending bit, `EthStatus`, `gnetif.flags`, MACCR, MAC running | `ETH_BSP_Config`, `LwIP_Init`, `EXTI15_10_IRQHandler`, `ETH_link_callback` | transmit path, ARP table | the handler preempts the boot; edges lost; latched state | interface up only with the MAC started; the interface follows the cable, in the negotiated mode |
| ARP table (`libs/lwip-1.4.1/src/netif/etharp.c`) | `arp_table`, `etharp_cached_entry` | find, update, output, query, age, clean up | main loop, timer, link interrupt, transmit path | recycling when full, retries against ageing, interrupt in the middle | a packet goes where its next hop last announced itself; nothing waits for ever |
| Object store (`inc/grizzly_manager.h`, `grizzly_types.h`, `grizzly_buffers.h`) | `num_objects`, `objects`, `pending_buffers`, frame groups | allocate, release, group, push pending | colour server, heap | stale names, duplicate channels, counter wrap | a block lives exactly as long as the objects in it; no object changes under its owner |
| UDP colour server (`src/udp_color_server.cpp`) | pbufs kept by reference count | receive callback | pbuf pool, OSC parser, store | a failure at every allocation; retained pbufs | retained data is not overwritten; pbufs come back |
| System time and periodic timers (`src/sys_conf.c`, `netconf.c` 160-190) | `LocalTime`, `timingdelay`, `ARPTimer` | `Time_Update`, `Delay`, `LwIP_Periodic_Handle` | SysTick, boot, link interrupt, ARP | 32-bit wrap, two tick rates, a shared deadline | a delay lasts the ticks it is asked for; the ARP timer keeps its interval over the wrap |
| Heap, bget (`libs/bget/bget.c`, `sys_conf.c` 91-99) | boundary tags, free list | `bpool`, `bget`, `brel` | every `new` | release in any order, merging with either neighbour | blocks are disjoint; no two free neighbours; tags and list agree |
| lwIP heap and pools (`mem.c`, `memp.c`, `pbuf.c`) | chained headers, `lfree`; free lists, reference counts | `mem_malloc`, `mem_trim`, `mem_free` | main loop and link interrupt | used from both with no lock | the chain is whole; blocks are disjoint; room is found when there is some |
| IP reassembly (`libs/lwip-1.4.1/src/core/ipv4/ip_frag.c`) | `reassdatagrams`, the chain of each, `ip_reass_pbufcount` | `ip_reass`, removal of the oldest | pbuf pool, IP input | fragments lost, repeated, reordered, cut on two routes; two limits | what is returned is whole; no whole chain is left waiting; the count is that of the pbufs that wait |
| The rest of lwIP's IP, ICMP, UDP | pcbs | input, output | ARP, colour server | little that is concurrent | third-party |
| LED output by DMA (`src/grizzlysys.cpp` 194-365, `it.c` 164-182) | DMA streams, TIM1 | `dmaSendRGBFrame`, stream interrupt | frame buffers | stop at the end of a frame | never started, see 7 |
| Converters, interpolators (`inc/grizzly_converters.h`, `grizzly_interpolators.h`) | iterators | `convertElement`, `lastElement`, `interpolate` | nothing yet (one use, commented out) | windows of unequal length | in bounds |
| Boot and main loop (`main.cpp`, `grizzlyapp.cpp`) | `first_frame_packet_time` | `initialize`, `runReceivers`, `runWorker`, `processDMA` | all of them | order of initialisation | |
| oscpack; StdPeriph, CMSIS, startup | - | - | - | - | third-party |

## 2. Plan

Done, in this order (the busiest shared state first):

1. `EthRxRing` against `EthRxService`, with proofs;
2. `EthTxRing` against `EthTxService`, with proofs;
3. `LinkMonitor`, with proofs;
4. `ObjectStore`, with proofs, and `ColorServer`, which composes with it, with
   proofs;
5. `ArpTable` against `ArpService`, with proofs;
6. `SysTime`, with proofs;
7. `LwipHeap` against `HeapService`, with proofs, the refinement among them;
8. `BgetHeap` against the same `HeapService`, with proofs;
9. `IpReass`, with proofs.

Every safety property of the runs, every action property and every refinement
is the subject of a theorem (section 6).

Left, in this order:

10. A composition of `LinkMonitor` and `EthTxRing`: what `ETH_Stop` and
    `ETH_Start` in the callback do to a ring with frames in it.  It needs to be
    known what flushing the FIFO does to a frame the engine has partly read.
11. The converters' iterators (`lastElement`), once something calls them.

Theorems left: what `EthTxRing`, `ArpTable` and `LwipHeap` keep where the
interrupt comes in the middle of a call, besides their types and the pending
ages of the ARP table.

## 3. Modules and the code

`MC_*.tla` and `*.cfg` hold the instances for TLC, `*Proofs.tla` the theorems.
PROJECT.json gives the lines behind every definition.  Operators under the
heading "Plausible mistakes" are not part of a specification: they are changed
forms of an action or helper, used to see that each property notices one.
The proofs about `BgetHeap` are in `ObjectStoreProofs`, whose blocks come from
that heap, and those about `IpReass` in `ColorServerProofs`, whose pbufs come from
the same pool.  Either extends both modules, so those two name their
specifications apart: `BgetSpec` and `ReassSpec`.

**EthRxRing** / **EthRxService**.  A frame is a number and a length in buffers;
a buffer holds the `<<frame, segment>>` last written to it.  The engine's
actions (`FrameArrives`, `Dma*`) are hardware, written from the way the driver
programs it: chained descriptors, store and forward, flushing of frames.  The
loop is `ETH_CheckFrameReceived` (`PollLast`, `PollFirst`, `PollMiddle`),
`ETH_Get_Received_Frame`, and `low_level_input` with an action for every access
that the engine can see: each copy, each OWN bit, the test of RBUS, its clearing
and the poll demand.  `EthRxService` knows only frames: any may be lost, and
what is delivered is the oldest one pending, once, an unbroken run of its own
segments from the first.

**EthTxRing** / **EthTxService**.  Two contexts run the same code with their
own locals: the main loop and the link interrupt, whose gratuitous ARP goes
through `low_level_output`.  The interrupt runs to its end before the loop goes
on.  `Windows` says whether it may come between calls of the loop or also
during one.

**LinkMonitor**.  The PHY latches a link change and drives INT low until MISR is
read; EXTI sees falling edges.  The boot (`ETH_BSP_Config`, then `LwIP_Init`)
and the handler are step by step; an update of `gnetif.flags` by the boot is a
load and a store.  `Windows` says when the cable may change besides the quiet
phases, and `disturbed` remembers that it has: a property about changes in
quiet phases is then about the behaviours in which it has not.  Every wait and
every write of a PHY register in the boot may time out, whatever the link is
(`eth.c` 368-414, `bsp.c` 271-290); `gaveUp` remembers an `ETH_Init` that failed
with the link up, until the cable changes again.

**SysTime**.  `LocalTime` modulo W, `timingdelay`, the period of SysTick, and
three activities: the boot, the link interrupt, and the main loop with its ARP
timer.  A `Delay` is a call and the poll that ends it; `waited` and `sinceArp`
measure what the code does not keep.  `waited` begins at minus one period,
because the first tick may come right after the deadline was computed.  Ticks that
pass outside `Delay` are bounded by `MaxPass`, which may be many times the ARP
interval (a boot without a cable reads the PHY 0x4FFFF times), and interrupts by `MaxIrqs`.

**LwipHeap** / **HeapService**.  The array of headers is two functions, `next`
and `prev`, on the places of the headers; addresses and sizes are in units of
MEM_ALIGNMENT.  `mem_malloc` in the main loop is split at each look at a block, before and
after the writes of a split, and in the search for the next `lfree`.  The link
interrupt uses the heap in two ways.  When the link comes up it sends a gratuitous ARP,
a `mem_malloc` and a `mem_free` in one go (`GratuitousArp`); when it goes down,
`netif_set_down` calls `etharp_cleanup_netif` (`netif.c:500`, `etharp.c:579-589`),
which frees the packets queued in the ARP table (`DropQueued`: any block the main loop has been
handed).  `UpWindows` and `DownWindows` say at which points of `mem_malloc` either may come.
`mem_free` and `mem_trim` of the main loop are one step.
`HeapService` knows only the blocks in use: where they are and how much room
each has.

**BgetHeap** / **HeapService**.  `bsize` and `prevfree` are the two fields of
`struct bhead` at the places of the headers, `freelist` the ring of free blocks
in its order.  `bget` takes the first of the smallest blocks that fit, and its end if
the rest is worth keeping; `brel` merges with both neighbours.

**IpReass**.  A datagram is its identifier and the chain of its pieces; each
call of `ip_reass` is one action, made of functions on the state that carry the
names of those in `ip_frag.c`.  The network picks any fragment at any time, so it loses,
repeats and reorders at will, and it may have cut a datagram in two ways.
When an element is freed without being unlinked, its pbufs go and the count is lowered,
but the element stays in the list; `memp_free` writes the link of the free elements
over its `next`, so the datagram behind it, which is the fragment's own, is no longer reached
(`Damaged`).  `intact` turns false with this step, the model stops, and the
properties are about the behaviours before.

**ObjectStore**, **ColorServer**.  One action per operation of `ObjectManager`,
`FrameGroup` and `BufferFactory`; users may pass any name they ever got.  Blocks
carry a reference count, which for the colour server is the `ref` field of a pbuf.
`ColorServer` is the receive callback, step by step because every step may run
out of memory, and its use of the store is a refinement (`Store!Spec`, with
the callback's own references subtracted).

**ArpTable** / **ArpService**.  The entry record is `struct etharp_entry`.
`FindEntry` is the sweep and choice of `etharp_find_entry`, `Found` what it
leaves in the slot.  There is one interface, so `entry.netif` is a Boolean (set
to `gnetif` or not), and hosts are next hops, after the gateway has replaced
far addresses.  Sending is split where the code calls out and takes long
(`low_level_output` for a request, `pbuf_alloc` and `pbuf_copy`); `Windows` says
whether `etharp_cleanup_netif` may run there.  Only copied packets are queued,
because only `PBUF_POOL` or `PBUF_RAM` packets are sent.  Failures of `etharp_request` and
of the copy are choices.  The interface's up flag is left out: a lost link is
`LinkDown`, at any allowed moment.

## 4. Runs

| Run | Instance and bounds | What it shows | States |
|---|---|---|---|
| rx_ring | the real ring of 4, frames of 1 or 2 buffers, FIFO of 2, 4 frames | ownership, position, `ImplementsService`; with fairness, descriptors return and the FIFO drains | 59,478 |
| tx_ring | ring of 3, frames of 1 or 2 buffers, 5 frames, interrupt between calls | copies stay out of the engine's buffers, positions agree, no lost demand, ERR_OK means queued, `ImplementsService`; with fairness, accepted frames go out | 16,092 |
| link_flaps | 6 link changes anywhere, 3 modes | no send on a stopped MAC; the callback leaves flags, interface and MAC in agreement; while the cable has changed in quiet phases only, latched means pending (if the PHY's interrupt could be enabled) and the interface follows the cable, but for an `ETH_Init` that failed with the link up | 61,819 |
| sys_time | W 31, interval 5, a boot of up to 11 ticks and a pass of up to 6, delays of 2, 3 and up to 2 times 1, 2 interrupts | one Delay at a time, each of n lasting more than n - 1 periods but for the wrap, the ARP timer exactly when its interval is over and for ever | 246,512 |
| object_store | 2 blocks, 2 channels, ids modulo 3, 4 allocations | reference counts, kept objects, nothing lost before the wrap | 199,787 |
| color_server | 3 pbufs, 2 channels, datagrams of up to 2 items, 5 datagrams | retained data kept, drops only when every pbuf is retained, the store used as specified | 31,826 |
| lwip_heap | 21 units, headers of 2, blocks of 3 at least, sizes 3, 4, 7, link up at rest, in the scan and in the search for `lfree`, link down at rest | the chain is whole, `HeapImplements`; with fairness, every call ends | 50,220 |
| bget_heap | 24 units, headers and smallest blocks of 2, sizes 2, 3, 5, 8 | tags and list agree, `BgetImplements` | 12,886 |
| reass | datagrams of 2, 3, 3 on two routes and more than 5 fragments; 5 pbufs, 3 datagrams | the books agree, what is returned is whole, no chain whose kept pieces meet from end to end is left waiting, room is not made at the datagram's own cost | 15,800 |
| arp_table | 2 entries for 3 hosts, 2 addresses, ages up to 3, 2 packets, link lost between calls | one entry per host, queues keep their host, fresh mappings, delivery, pending ages, `ImplementsService` | 121,104 |

The runs tx_nested_wire and reass_hole find their property violated; section 5
says what they show.

Why the bounds are enough.  *rx_ring*: four frames of two buffers are eight
segments, so the ring wraps twice; with a FIFO of two the engine is suspended, drops
frames on retry and closes a frame short.  *tx_ring*: with a ring of three a frame of
two finds it full at its first and at its second buffer, and five frames wrap it.
*link_flaps*: a change sets or clears one latch, and six are enough to have one in every
window of the boot and of two runs of the handler.  *sys_time*: the counter has
no bound and wraps as often as it likes; every Delay of the boot and of the
interrupt can straddle the wrap, and so can the interval of the ARP timer; the boot and
a pass of the loop may be longer than that interval, as they are without a cable.
*object_store*: the fourth allocation meets a live object of the first.
*color_server*: five datagrams on three
pbufs are enough to keep all of them and drop one.  *lwip_heap*: three
blocks in use and the gaps around them have every case of merging and trimming,
and the remainder too small to split off; the ratios of header and smallest
block are those of the build.  *bget_heap*: up to six blocks, so that a release
has a free neighbour on both sides while others are free elsewhere.  *reass*:
both limits are met, by one datagram alone (which is then refused) and
by several (the oldest goes); a datagram of three fragments has a first, a middle and a
last one in every order.  `ReassembledWhole` ends there: with a fourth fragment it fails, which
is the run reass_hole.  *arp_table*: three hosts on two
entries force every kind of recycling; an age of three with pending two and
re-request two has every branch of the timer, and the constants' order
(`MaxPending <= MaxAge`) is that of the code (2, 228, 240).  Age and host count are the only
data the table looks at.  Two packets are enough for one to be queued
and replaced, or queued while another host's is sent.  Symmetry is used where
the values are compared only for equality, and not in runs with liveness.

`CHECK_DEADLOCK FALSE` stands where the environment may fall silent or the
program stop: no frame need arrive, nobody need send, the cable may stay as it is, the firmware may
stop in `_exit`, and `IpReass` says nothing of a damaged list.  The clock, the
heaps and the ARP table never stop.

**Fairness.**  `EthRxRing`: weak fairness of the loop, which `main` calls for
ever, and of the engine, which is hardware; none for arrivals.  `EthTxRing`:
weak fairness of the engine and of a call in progress (a call has no waiting
loop); none for starting one.  `LinkMonitor`: the processor executes the
handler when it is active or pending and else the boot, every wait of which
has a timeout; none for the cable.  `SysTime`: SysTick counts, and whoever has
the processor goes on; none for the interrupt, which is bounded.  `LwipHeap`: a call of
`mem_malloc` goes on; none for calls or interrupts.

## 5. Findings

| Run | What the code does | What is said of it |
|---|---|---|
| tx_nested_wire | the link interrupt sends in the middle of a send of the loop; `DMATxDescToSet` is read several times, so a descriptor is handed over whose buffer holds another packet | `ethernetif.c:122`, "This function should do the actual transmission of the packet" |
| reass_hole | a fragment chained between two others is not compared with the one before it; of four fragments the first, the last and the third, in that order, are returned as the datagram | `ip_frag.c:441`, "if still valid, all fragments are received" |

Experiments.  These configurations are beside the runs, each with one property that
TLC finds violated; they are not in the list of runs, and each can be started
by hand (section 8).

| Configuration | Property | What it shows |
|---|---|---|
| MC_LinkHandler | LinkAlwaysFollowed | with changes inside the handler: the pending bit is cleared after the handler read MISR and PHY_SR (`it.c:138`), so a change in between leaves INT low for good and the cable unnoticed |
| MC_LinkMode | MacModeFollowsPhy | speed and duplex bits are or-ed into MACCR and never cleared (`bsp.c:421`), so after 100 Mbit/s or full duplex a slower link runs in the wrong mode, although `bsp.c:403` says "Configure the MAC with the speed fixed by the auto-negotiation process" |
| MC_ColorLive | RetainedPbufsFreed | pbufs kept for channels are never freed; reception ends when each pbuf of the pool has carried one (`udp_color_server.cpp:188`, "WILL FREE PBUFS AFTER INTERPOLATION!") |
| MC_ArpIsr | DeliveredToOwnHost | the interrupt frees the entry `etharp_query` works on; see below |
| MC_LwipHeapIsr | WellFormed | the interrupt comes between the writes of a split in `mem_malloc`: the block is split but not yet marked as used, so the interrupt takes it, and frees it while the main loop goes on to hand it out |
| MC_LwipHeapDown | WellFormed | the link goes down inside `mem_malloc`: the packet it frees merges with the free block the scan stands on, which is then no block any more; in the search for the next `lfree`, a block freed behind the search leaves `lfree` too high, and its room is lost |
| MC_IpReassCuts | ReassembledWhole | a datagram cut on two routes: a last fragment that is thrown away as an overlap has already set the flag and the length of the datagram (`ip_frag.c:555-560`), and what came before it is returned as the whole |
| MC_IpReassUnlink | ListIntact | `prev` in `ip_reass_remove_oldest_datagram` is the last element that has a successor; if the datagram of the fragment is the last of three or more, it is not the predecessor of the one removed, which is freed and stays in the list (the assertion of `ip_frag.c:167`, compiled out) |

The MC_ArpIsr trace: an entry is learnt (its `netif` is set), the link goes down and the entry
becomes empty; a packet for a host takes the entry and makes it pending, `netif` still
set; the link goes down again after the state has been tested and before
the packet is stored; the store puts the packet on an empty entry; another host's
announcement gets this entry and is sent the packet.

Observed in the source, with no run of its own:

- `ETH_Init` may fail with the link up: a write of the PHY's control register times out
  (`eth.c:369-374`, `397-401`), the link is seen by the very last read (382-392), or the
  autonegotiation is not over in time (403-414).  `EthStatus` then lacks
  ETH_INIT_FLAG, `LwIP_Init` sets the interface down, and with the cable in
  no interrupt comes to set it up again until the cable is pulled and put back.
  `LinkFollowed` excepts this (`gaveUp`); without the exception TLC shows it.
- `Eth_Link_PHYITConfig` gives up when a write times out (`bsp.c:271-290`), and
  `ETH_BSP_Config` does not look at its result: the firmware is then deaf to
  the cable (`Deaf` in `LinkFollowed`).
- A link change between the first look at the PHY and the registration of the
  callback at the end of `LwIP_Init` (`netconf.c:143`) is not followed: it is
  consumed by `Eth_Link_PHYITConfig` reading MISR, or by a handler that finds no
  callback.  `LinkMonitor` with `Windows = {"boot"}` violates `LinkAlwaysFollowed`.
- `low_level_output` returns ERR_OK although
  `ETH_Prepare_Transmit_Descriptors` may have returned ETH_ERROR
  (`ethernetif.c:200`).  With no interrupt in the middle this cannot happen
  (`OkMeansQueued`); with one, it can.
- `Delay` is said to count "10ms periods to wait for" (`sys_conf.c:47`), which is so until
  `ETH_BSP_Config` makes SysTick ten times faster; the comment of `LocalTime`
  says 1 ms, which is so after it.
- `Delay(n)` lasts n ticks, and the first may come at once, so only n - 1 periods are sure:
  `Delay(1)` after a register write (`ETH_REG_WRITE_DELAY`) may not wait at all.
- A deadline that wraps ends a `Delay` at once (`sys_conf.c:53-56`): once in 49
  days, a register write of the link interrupt is not waited for.
- `free(NULL)` reaches `brel(NULL)` (`sys_conf.c:98`), which reads below the
  pointer; no caller passes NULL.
- In `plug_holes` the two updates of `lfree` (`mem.c:251-253` and `262-264`) are
  never made: `mem_free` has lowered `lfree` before.
- Nothing calls `ip_reass_tmr`; incomplete datagrams keep up to ten of the twelve
  pbufs of the pool until others push them out.
- A fragment in front of the whole chain that overlaps it is not noticed (`ip_frag.c:358-373`), and
  the datagram never completes: of [1,2), [2,3) the last, [0,2) and [0,1), in that
  order, the last to come is thrown away because [0,2) begins where it does, and the
  datagram waits for ever although all its pieces have come.  `NothingCompleteWaits` is about
  the pieces that are kept.
- `lastElement` of a converter (`grizzly_converters.h:24-44`), when the
  destination is the shorter window, advances the source by the room of the
  destination and no longer looks at the end of the source.  It has no caller;
  the interpolators' own `lastElement` looks at all three ends.
- `getChannelObjectId` (`grizzly_manager.h:23`) has a stray semicolon after its
  `if` and returns 0 for every channel.
- Pending entries made by `etharp_query` do not set `netif`, so
  `etharp_cleanup_netif` leaves them, with the packet that waits, unless the
  slot had been used before.
- The address stored as a buffer's data (`udp_color_server.cpp:167`) is that of
  a local variable, and an object's type refers to a string that is gone when
  `allocateFrame` returns; `ReleaseFrame` covers both outcomes of the comparison.

## 6. Proofs

Every theorem is checked by TLAPS for all values of the constants that satisfy
the module's ASSUME.  The assumptions are those of the code: ring sizes of at
least two, a longest frame shorter than the receive ring (not longer than the
transmit ring), a finite set of blocks, ages that fit a byte.

**EthRxRingProofs.**  `Invariance`, and from it `TypeCorrect`,
`OwnershipRespected`, `PollingInStep`.  None of the properties is inductive.
`IInv` measures every descriptor by its distance (`Off`) from the oldest
one the CPU still holds: `OwnInv` says the CPU's descriptors are exactly the `Filled` first
ones, ending at the engine's; `PositionInv` where the loop's cursors stand;
`SegmentInv` what each filled descriptor holds and how the next one continues
it; `ScanInv` and `NextInv` what the loop has counted and what it will meet.
The last two are what makes `Seg_Count` and the frame length trustworthy, so the copy and
release loops, which never look at OWN, stay within the CPU's descriptors.
The proof has one lemma per action, and arithmetic of the chain comes first as lemmas on `Off`.

`RingImplementsService` is the refinement of `EthRxService`, by `OrderInv`
(`OrderInvariance`): the frames in the ring and in the FIFO are in the order of
their numbers and none is newer than the last one offered (`FreshInv`, `FifoOrder`,
`ChainOrder`); the last descriptor counted closes its frame (`LastInv`); the pbuf
holds the first segments of the frame of `fsDesc` (`CopyInv`), and when it
is handed over everything that is still held is younger (`DeliverInv`).
That a frame is never delivered twice is the last of these.

**EthTxRingProofs.**  `TypeCorrect` holds whenever the interrupt comes; the
rest assumes `"during" \notin Windows`, and the run tx_nested_wire shows that
`WireStaysIntact` needs it.  For `CopiesStayOut` and `DemandsArrive` the invariant
`Alone` says at most one context is in a call, `CopyInv` that the descriptor it
has checked is still the one it fills, `SuspendInv` that a suspended engine has
raised TBUS or is about to be resumed.
`ToSetStaysInStep`, `OkIsQueued`, `RingImplementsService` and `WireStaysIntact` come
from `RingInv` (`RingInvariance`).  It lays the ring out: the engine's
descriptors are those from `dmaDesc` to the one given next (`Shape`), each
holds a segment of a frame in the line of accepted ones, and the next one holds
the next segment or the first of the next frame.  Which frame and segment a
descriptor holds is two functions of the descriptor under an existential
quantifier (`Flight`), so nothing has to be counted by recursion.
`CallsInv` says where a call stands in its frame and that what it has copied
is still there; from it, a call that returns ERR_OK has queued its frame.

**LinkMonitorProofs.**  `NoSendOnStoppedMac` and `CallbackLeavesAgreement` hold
wherever the cable changes, by `LinkInv`: the boot never has the interface up
before it registers the callback, which comes after the MAC was started, and
the callback runs with the flag that made lwIP call it.  `QuietLatchPends` has
`LatchInv`; that the cable has changed in quiet phases only, and that the boot could
enable the PHY's interrupt, is part of the property.

**SysTimeProofs.**  `OneWaitsAtATime` by `WaitInv`: the main program waits only while
it boots, the interrupt only in its callback, which is there once the boot is
over.  `DelayLastsLongEnough` and `ArpTimerInTime` by `TimeInv`, which gives
`LocalTime`, `localtime` and `ARPTimer` as ages modulo W: while these are below
W, the unsigned difference is the true one.  `DelayLastsLongEnough` says n - 1 periods of
a `Delay(n)`, as the code does; `ArpTimerInTime` has no bound on the boot or a pass but
that W is beyond the interval, the boot and two passes.

**ObjectStoreProofs.**  `BlocksLiveAsLongAsObjects` is an identity of cardinalities kept
by every operation; `NoLossBeforeWrap` needs `IdsFresh` (no id above the number
of allocations is in use before the wrap); `ObjectsStay`.

Of `BgetHeap`, for every size of the pool, of its headers and of the requests:
`TagsAgree` and `BgetIsAllocator`, the refinement of `HeapService`.  The
invariant is `Tiled` (every block ends where another begins or the pool ends,
`prevfree` of each says whether the block before it is free and how long it is,
no two free blocks meet) and `Listed` (`freelist` holds every free
block once).  The calls change the tags in three ways, with a lemma for each: the tail
of a free block is given away (`TailGiven`), all of it is (`WholeGiven`), a
block is merged with the free ones beside it (`Joined`).  That `bget` refuses only
where no gap is big enough follows from the gaps between blocks in use being
single free blocks.

**ColorServerProofs.**  `ServerUsesStore`: the callback uses the store as
`ObjectStore` says, whatever fails in the middle, where the store's references
are those to the pbuf less the ones in the callback's hands.  `RetainedDataStays`
by `KeepInv`: every reference the callback does not hold is an object's or that
of a lost object, so a pbuf with an object in it is not in the pool.
`DroppedWhenRetained` assumes `MaxAllocs <= IdMod`, that the object counter does not come
round within the behaviour; `DroppedOnlyWhenExhausted` says what is left of it without.

Of `IpReass`, for every set of fragments and both limits, for as long as the list is
intact: `BooksAgree`, `WholeLeaves` and `OthersPay`.  The invariant is `Limited`: each chain is
sorted and made of fragments that were sent, the flag is set if the last of
them was seen (`Sent`), and the count is the cardinality of the set of pbufs that wait.
A chain whose kept pieces meet from end to end passes the test of valid
(`WholeCompletes`), so none waits.  `CleanIsWhole` proves `ReassembledWhole` under a condition
on the fragments, `Clean`, that leaves out just what the run reass_hole and MC_IpReassCuts show:
in a datagram that can complete, the last fragment overlaps none of those
before it, and no two fragments that join lie behind a gap.  Up to three fragments cut in one
way are like this, and so are the fragments of the run reass.

**ArpTableProofs.**  `TypeCorrect` and `PendingTimeRuns` hold wherever the interrupt comes,
by `TypeInv` (a live entry has a host, an age below ARP_MAXAGE, and below
ARP_MAXPENDING while pending; so has the age of an entry about to be marked
re-requested, even if the interrupt has emptied it).  `NoDoubleEntry`,
`QueuesKeepTheirHost`, `MappingsStayFresh` and
`PacketsReachTheirHost` assume `"during" \notin Windows`; `SafeInv` adds
`CallInv`, that the entry a call works on is live and its packet's own.
MC_ArpIsr shows this assumption is needed for the last.
`TableImplementsService` is the refinement of `ArpService` under the same
assumption, by `RefInv`: besides, no packet is in hand outside a call, and
every stable entry has an address.

**LwipHeapProofs.**  `HeapWellFormed` and `ImplementsAllocator`, for every size
of the heap, of its headers and of its smallest block, assume
`"link" \notin UpWindows` and `DownWindows \subseteq {"idle"}`; MC_LwipHeapIsr and
MC_LwipHeapDown show that both are needed.
`Chain` is the order of the headers in terms of the two functions `next` and
`prev`, and `Well` adds that no two free blocks meet.  The heap
functions change a chain in three ways, putting a header in, taking one out and
moving one up, with a lemma each; `mem_free`, `mem_trim` and the pieces of
`mem_malloc` follow from these.  `HeapInv` says what `WellFormed` leaves open in the
middle of `mem_malloc`: after a split it is the heap with the writes still
missing (`Joined`) that is well formed, the scan stands on a header, and the search for the next
free block has passed none.  The interrupt's `mem_malloc` followed by `mem_free`
leaves every block as it was (`ArpGood`), so it may come during a
scan.  For the refinement, `ServInv` adds that the
scan has passed no free block that is big enough.  So when it gives up every
free block is too small; and a gap between blocks in use is one free block, because no two meet,
whence there is no gap big enough (`FailImplements`).

Counting and searching need induction over the naturals.  The theorems of the
library for that take an operator, so the proofs use a set in its place:
`LeastNat`, that a set of naturals with a member has a least one, from `WFMin`.

Only model-checked: the liveness properties (`DescriptorsReturn`, `FifoDrains`,
`AcceptedAreSent`, `LinkFollowed`, `ArpKeepsRunning`, `MallocEnds`), because the provers
at hand do not deal with fairness and ENABLED; and the behaviours in which the
interrupt comes in the middle of a call, where the theorem says it does not.

## 7. Assumptions, and what is not modelled

- A load or store of a register or a word is atomic; memory is seen in program
  order (one core, and the DMA on the same bus matrix).
- The receive engine raises RBUS within the few bus cycles after reading an OWN bit that stops it,
  before the loop has been through the IP stack and polls again.  The transmit
  engine reads OWN and raises TBUS in one step; if a delay between the two were
  long enough for a call to pass the test of TBUS, a demand could be lost.  The
  TUS branch of `low_level_output` is left out: with transmit store-and-forward
  the engine does not underrun.
- What `ETH_Stop` does to frames already in a ring is left out (plan, 10).
- `app->objman` is taken to exist; its creation is commented out in
  `grizzlyapp.cpp:29`, so as it stands the pointer the callback uses is never set.
  `new ObjectManager()` would zero `num_objects`, which no constructor sets
  (the class has only its implicit one).
- The run object_store has one buffer type; the proofs have any number.
- SysTick (priority 0) preempts the link interrupt (priority 1), so a `Delay` in
  the handler returns.  A tick takes 1 ms at least: whoever waits in `Delay`
  polls between two of them, and the boot outside `Delay`, or a pass of the
  loop, takes `MaxPass` ticks at most, for any `MaxPass`.  `TimeAssumption` asks only that the
  interval, the boot and two passes are below W, which is 49 days; the PHY's polls time
  out within hours even if each of their reads runs into its own timeout.
- `LinkMonitor`: a read of a PHY register is taken to finish; only writes and the
  waits of `ETH_Init` time out.
- `LwipHeap` has no interrupt between the write of `used` in `mem_free` and the
  end of `plug_holes`, nor inside `mem_trim`; they are windows of the kind that
  MC_LwipHeapIsr and MC_LwipHeapDown show in `mem_malloc`.  The run and the theorems have the
  link go down between the main loop's calls only; inside `mem_malloc` it breaks
  the heap, as MC_LwipHeapDown shows.  `mem_calloc` has no
  caller.  The pools of `memp.c` are free lists that succeed or fail; `ColorServer`
  counts the pbufs of one.
- `BgetHeap`: `bectl` is not called, so the pool does not grow and no block is
  acquired directly; `bgetz`, `bgetr` and the statistics have no caller.
- `IpReass`: nothing is said of a damaged list.  Every fragment is one pbuf, because a pbuf of the pool holds a
  whole Ethernet frame.  The ICMP message for a datagram pushed out and the
  checks of the IP header before `ip_reass` are left out; `ip_frag` cuts nothing,
  as no caller sends more than a frame.
- Converters, interpolators: no caller, and no property here depends on a colour.
- LED output: nothing in the repository calls `dmaSendRGBFrame`, `processDMA` is
  empty, TIM3 is not enabled in the NVIC and the stream's memory address is
  never set.  It is code in preparation.
- oscpack, the rest of IP, ICMP, UDP, StdPeriph, CMSIS, the startup code and the boot's register
  writes are sequential third-party or straight-line code; where a model needs
  their outcome it is a choice.

## 8. Running it

    tlc -config MC_EthRxRing.cfg MC_EthRxRing     # and the other MC modules
    tlapm EthRxRingProofs.tla                     # and the other *Proofs modules
    tlc -config MC_ArpIsr.cfg MC_ArpTable         # an experiment: MC_X.cfg goes with the
                                                  # MC module of its component
