# Bitle in TLA+

Bitle (`src/`) is C firmware for an ESP32 node that relays BitChat traffic over
BLE and LoRa, keeps mail for absent recipients on flash, keeps time without a
clock chip and passes firmware updates from node to node. This directory models
it in TLA+, checks the models with TLC and proves most of their safety properties
with TLAPS.

`PROJECT.json` lists, for every definition that models code, the source lines it
stands for; it also lists the components, the runs, a mutant for every checked
property that shows the property to be falsifiable, the hazards the properties
are aimed at, the findings and the theorems.

## The system and its parts

| Part | Source | Concurrency and failures | Modules |
|---|---|---|---|
| Flash mailbox | `main/bitle_store.c` | one mutex; power loss and flash errors at every flash operation | `BitleStore`, `BitleStoreProofs`, `StoreBootProofs`, `StoreKeptProofs` |
| Courier mail | `main/bitle_courier.c` | worker task, callbacks under the store's mutex, resets, failed sends | `BitleCourier`, `BitleCourierProofs` |
| Wall clock | `components/bitchat_utils/bitchat_time.c` | three tasks, one lock, NVS writes outside it, reboots | `BitchatTime`, `ClockOffset`, `BitchatTimeProofs` |
| Clocks of a mesh | announces of `main/noise_handshake.c` | late and lost packets, reboots | `ClockNet`, `BitchatTimeProofs` |
| Mesh relay | `main/bitle_mesh.c` | copies over several paths, echoes, losses, a bounded ring | `BitleMesh`, `BitleCourierProofs` |
| Fragment reassembly | `main/bitle_mesh.c` | interleaved streams, two slots, a timeout | `BitleFragments`, `PartsProofs` |
| Link registry | `main/bitle_link.c` | a snapshot under a lock, sends outside it, two tasks | `LinkTable` |
| Firmware updates | `main/bitle_ota.c` | a fleet, timeouts and retries, broken links, resets, rollback | `BitleOta`, `BitleOtaProofs` |
| BLE transport | `main/bitchat_ble.c` | host callbacks at both ends, a poll loop, failing links | `BitchatBle` |
| Noise sessions | `main/noise_handshake.c` | a bounded event queue, one worker, handle reuse, clock jumps | `BitleSessions` |
| LoRa trunk | `main/bitle_lora.c` | stop-and-wait on a shared lossy channel, governor, restarts | `LoraGovernor`, `BitleLora`, `BitleLoraProofs` |
| SX1262 driver | `main/sx1262.c` | interrupt flags that coincide, a shared buffer, failing SPI | `LoraRadio` |
| Gossip sync | `main/bitle_sync.c` | answers selected under a lock and sent after it, lost replays, restarts | `SyncStore`, `GcsFilter`, `BitleSync` |
| Packet codec and payloads | `main/packet_codec.c`, parts of `noise_handshake.c`, `bitle_sync.c`, `bitle_courier.c` | relays, replays, padding, damage, in any order | `PacketCodec`, `WireLife` |
| Start-up, identity, nickname | `main/main.c`, `nickname_manager.c`, key loading | power cuts, failing NVS | `BitleBoot`, `PartsProofs` |
| Noise library | `components/noise_ref` | messages lost, repeated, out of turn; errors in any call | `NoisePatterns`, `NoiseSymmetric`, `NoiseHandshake`, `NoiseProtocol`, `KeyObjects`, `RandState`, `StreamHash`, `AeadLife`, `MacArith`, `NoiseNames`, `PartsProofs` |

They meet as follows. Radio tasks hand received packets to the mesh, which drops
duplicates, lets the local handlers act and relays the rest on the other links.
Announces go to the session worker, which feeds the clock, the courier and the
updates. The courier keeps its envelopes in the flash mailbox. The clock's value
decides expiry in the mailbox and is stamped on announces, and so spreads
through the mesh. Updates travel as ordinary packets between neighbours. The
gossip sync replays public packets to neighbours that lack them.

The modules are joined where the code is. `BitleSessions` extends `BitchatBle`:
the worker's events are the ones the transport queues. `BitleLora` extends
`LoraRadio` and `LoraGovernor`; `BitleSync` extends `SyncStore` and `GcsFilter`;
`NoiseProtocol` runs two parties of `NoiseHandshake` on `NoiseSymmetric` with the
tables of `NoisePatterns`. `BitleCourier` uses the mailbox as the map that
`BitleStore` implements (records survive resets, a put drops the old record first
and may fail in between, the ring may overwrite the oldest). `ClockNet` moves
clocks by the rules of `ClockOffset`, which `BitchatTime` is shown, by TLC and by
proof, to implement. `BitleMesh` includes the replays of the sync, and `BitleOta`
hears announces that may be old ones replayed by it.

## Modules

Each module declares its `CONSTANTS` with the source's names in the comments;
`MC*` modules only give them values, where a configuration cannot. A definition whose name ends in `Mutant`
(once: `Blind`) is the one after it with a plausible bug.

**`BitleStore`** counts flash in units (a sector header, record headers, payload
units). Every flash operation is a step, so power can fail between any two; the
cut writes leave every partial result the chip can. The boot scan, the resume of
the write head, put (tombstone, quota, room, erase, header, payload), delete and
iterate are all there. The clock the mailbox reads may step either way, and each
boot starts from any reading. `passed` records which live records a boot left out
of the index as expired, `revived` those that a later boot took back: the scan
neither tombstones nor indexes an expired record. Left out: an erase cut short and
a sector header written in part.

**`BitleCourier`** splits an announce into the steps of the code: the walk over
the store with its hand-overs, then the deferred deletes, then the rewrites,
each a drop and a write. Envelopes carry the time their sender made the tag, by
the sender's clock, their expiry and copies. The clock steps either way. A boot
starts from any reading and leaves out what it finds expired (`skipped`), which a
later boot may have back (`back`); that more records come back than the index of
256 holds, twice the mailbox, is not considered. A peer is its bit in the mask of
carriers, which others may share. When the side table is full the worker waits
for the lock it holds (`pc = "waiting"`).

**`BitchatTime`** has the three tasks that call it. A call changes the clock in
one critical section and writes NVS in a later step. `ClockOffset` is the same
clock without uptime, tasks and NVS. **`ClockNet`** is a line of Bitles whose
first member sees a phone; packets carry the time and authority of their sender
as of sending.

**`BitleMesh`** has Bitles that run `bitle_mesh_inbound` as one step (it holds
the mesh lock) and phones that may echo. A packet's identity is its fingerprint,
which ignores the TTL and the replay mark. **`BitleFragments`** is
`handle_fragment` fed with fragments of several streams in any order, streams with
one fragment ID among them, and the ring of fingerprints that fragments, the
packets put together and all other traffic share and that forgets.

**`LinkTable`** is the table of links between the host task, which registers and
unregisters, and the two tasks that broadcast: the snapshot is one step, each send
another, and `drop_conn` clears the registry and the connection in two steps.

**`BitleOta`** gives every node two partitions, the selected one, its rollback
state, the stored manifest and the transfer in progress. ESP-IDF's bootloader
and `esp_ota_*` functions are modelled from their use.

**`BitchatBle`** names a possible connection by its handle, which is used again.
A Bitle scans, dials, discovers and subscribes; the other end sees the connection
and the subscription. The controller refuses connections beyond the table.
**`BitleSessions`** adds the worker: the session table, both roles of the
handshake, the identity announce with its clock generation, duplicate links,
maintenance. A packet is in the receiver's queue at once; its time there stands
for its time in the air. An announce is due when the worker's queue is empty and
the last one was read, and nodes redial when both queues are empty. A connection
that refuses packets is a credit of refusals per scene.

**`LoraRadio`** is the driver with the chip and the air behind it, **`LoraGovernor`**
the admission of packets, **`BitleLora`** the task: queue, fragments, channel
detection, acknowledgements, reassembly slots, beacon, start-up. Acknowledgement
deadlines and the age of slots are events, not clocks; an answer that is late
while it is under way costs a fault.

**`SyncStore`** is the bounded store, **`GcsFilter`** the filter bit by bit,
**`BitleSync`** the exchange. Ages count half minutes and saturate; time passes
only when no exchange is under way and no request is due; requests of equal age
are taken in table order. The rate window is measured on the wall clock, which
steps either way (`ClockStep`), the request interval on the uptime; whether a
packet is in its window is not undone by a step. A phone's request may fail to
verify or to parse; stored packets are taken as verified.

**`PacketCodec`** (frames and structured payloads) and **`WireLife`** work on bytes with scaled
field widths: a frame is built, relayed, replayed, padded, stripped, damaged or
cut, in any order, and read by every reader in the code. Signing and verification
are modelled with an ideal signature.

**`BitleBoot`** is `app_main` with the loading of keys and nickname; writes to NVS
become durable at the commit, power fails between any two steps, and a key that
cannot be written aborts the boot.

**`NoiseSymmetric`, `NoiseHandshake`, `NoiseProtocol`** are the library's objects and
calls with symbolic cryptography, over a channel that keeps everything ever sent.
**`KeyObjects`**, **`RandState`**, **`StreamHash`**, **`AeadLife`** (on `StreamHash`),
**`MacArith`** and **`NoiseNames`** take the objects one by one under any sequence
of calls: keypairs, the random generator, block buffering, the two AEAD
constructions, limb and field arithmetic, protocol names. The rounds of hashes
and ciphers are symbolic.

**`MCParts`** holds the parts that do not act on each other. Each initial state
picks one part and the others stand still, so that the state graph is the union
of theirs.

## Runs

`tlc -config <cfg> <module>`; each finishes in under five minutes on two cores.
A checked property is often the conjunction of several that are defined, and
commented, one by one before it.

| Run | Checks | Shows |
|---|---|---|
| store | IndexSound, RecordsKept, RingKept, CallsEnd | the index describes flash; accepted records survive reboots and nothing deleted, replaced, evicted or expired comes back; writes go to erased flash and the ring advances over its oldest sector; every put and boot ends, and a put is refused only when there is nothing to give up |
| courier | MailAccounted, MailLeaves, MailIsDelivered | budgets hold, spraying divides copies and creates none, tags are recognised for a day and, of mail that lives 25 hours, up to its last hour; mail leaves to its owner, by expiry or by a failure only; owners that keep announcing get what is recognised as theirs |
| time_clock | ClockBounded, Implements | timestamps cannot walk the clock, jumps show in the generation; the clock implements the offset clock |
| time_net | TracedError, EventuallyTraced | errors of authoritative clocks are bounded by hops; real time reaches every node |
| mesh | ActsOnce, FloodsEnd | a packet is acted upon once while the ring suffices, and only where it should; floods reach everybody in every race of their copies, and end |
| ota | UpdateSound, UpdateSteps, FleetUpdates | a node always runs a whole image, switches to verified releases only and to no older one; the newest release reaches the fleet |
| sessions | SessionsSound, VerifiedStays, SessionsServed | sessions belong to live links, ends agree on keys, one of two duplicate links goes and never both, every session keeps announcing with the current clock |
| lora | TrunkDelivers, TrunkLimits, DrainsUnlessCut | packets arrive whole or not at all, what was acknowledged arrived, attempts, airtime and announce rates are bounded, the queue drains |
| sync | SyncSound, SyncSteps, Converges | one packet per owner, exact filters, bounded answers; no class pushes out another; two Bitles come to hold the same packets |
| noise | HandshakeSound, NothingTwice, HandshakeCompletes | for every pattern: agreement at the end, no nonce or transport message twice, undisturbed handshakes complete |
| parts | ReassemblySound, FrameKept, PayloadsKept, IdentityKept, Starts, KeysSound, RandSound, DigestOfWhole, AeadSound, MacSound, NamesSound, LinksSound | the parts of `MCParts`, each with its own properties |
| wire_trunk | TrunkKeepsFrames (fails) | a version 2 frame that crosses the trunk is cut at the length a version 1 header would give |

Several properties carry a condition, because the code does not give more; the
next section shows what happens without it:

- `Durable`, `NoResurrection` and `HeadErased`: no flash error and no power loss
  within the two writes of a record so far. `Durable` and, within `RecordsKept`,
  `NewestWins`: also no record that one boot passed over as expired and a later
  boot, with its clock further back, took back (`Undamaged`).
- `Budgets`: records that a boot left out and a later one has back come on top.
  `TagCoversLifetime`: the clock is not a day behind the sender's.
  `MailIsDelivered`: unless the clock leaves the days of the tag or the worker is
  caught in `side_get` (`NeverCaught`, below).
- `DispatchedOnce`: until the ring has taken as many other fingerprints as it
  holds. `BuiltWhole`: streams that share fragment ID, sender and count may be
  mixed. `Reassembles`: the stream's fragment ID is its own.
- `ProcessedOnce` and `FloodReaches`: the ring holds all packets sent so far;
  for the flood also no lost copy and no replay that overtakes it.
- `AckedIsDelivered`: no unfinished packet ages out, nobody starts again, and the
  trunk has two nodes: with three, one node's acknowledgement ends the attempts
  for the other. `DeliveredWhole`: parts of two packets of one sender are not
  mixed as long as the sender has not started again.
  `SendsBounded` and `DrainsUnlessCut`: no retransmission cut off the node's own
  acknowledgement.
- `AskedOncePerMinute`, `AnswersBounded`: the peer table has room and no connection
  has handle 0, which marks a free entry. `AnswersBounded` allows another window's
  worth for every step of the wall clock, on which the window is kept
  (`bitle_sync.c:563`). `Converges` excepts packets whose bucket
  collides in the other's filter.
- `FleetUpdates`: no flash operation fails, and no offer falls into the three
  seconds before a reboot.
- `OneLegStays`: no link fails on its own meanwhile.
- `IdentityKept`: no NVS operation failed; power cuts are allowed.
- `HandshakeCompletes`: not from a stale static key with a pre-shared key and a
  hybrid key at once.

### Where the code and the words about it part

`wire_trunk` is the run of the first line. The others are properties that are
defined beside the ones above; each fails in the instance of its run with the
changes given.

| Property | Instance | What happens |
|---|---|---|
| TrunkKeepsFrames | MCWireTrunk.cfg | `bitle_lora.c:309` says that trimming never touches signed bytes; version 2 frames lose their end |
| RecordsFound | BitleStore, SectorSize 5, MaxRecords 3 | after a torn record, accepted records are written where the next boot does not look |
| NewestWins | the same, MaxCrashes 1 | a failed tombstone lets the older of two copies win, although the rebuild "dedups by key (newest wins) so it cannot resurrect a superseded copy" (`bitle_store.c:106`) |
| RecordsFound, NewestWins | BitleStore, MaxFaults 0 | no tombstone is needed to fail: a boot whose clock is ahead skips a record as expired and leaves it alive; a put of its key goes to the same sector; the next boot, its clock back, meets both copies under one sequence number and keeps the older (`bitle_store.c:371`) |
| QuotaTakesOldest | BitleStore, four keys, NSectors 3, SectorSize 5, MaxRecords 3, MaxPuts 8, Expiries and Times {0}, no power losses, no faults | on a sector boundary, eviction takes a newer sector |
| NeverCaught | MCCourier | with the side table full, `side_get` takes the store's mutex inside an iteration (`bitle_courier.c:194`) and waits for itself |
| PersistedCurrent | BitchatTime, MaxBoots 0, NvsMayFail FALSE | a slow task overwrites a later NVS estimate |
| RelayedIgnored | BitchatTime, MaxBoots 0 | legacy identity announces feed the clock whatever their TTL |
| ServesRunning, SelectedIsWhole, TransferResumes | MCOta with MCFirmware, Flashed {a}, Versions {1, 2}, MaxCrashes 0 | before its reboot a node serves its old image under the new manifest; an offer then overwrites the image just installed; a link that returns under another handle does not resume |
| LinkIsServed | MCSessions, Conns {"up", "down"}, no phones, OneLink | two ends that begin at once reset each other's session (`noise_handshake.c:357`) and leave a usable link with none |
| NoCipherLeak | MCSessions, OneApp | a second handshake on a session keeps the first one's cipher objects |
| AckedArrived | MCLora, JustLong | a slot that ages between two frames of a packet loses an acknowledged frame |
| Drains | MCLora, JustTalk | a retransmission that cuts off an acknowledgement leaves a frame nobody waits for (`bitle_lora.c:710`) |
| Arrives | MCLora, JustOne, SF 11 | a full frame is longer on the air than the transmit timeout |
| QuotasHold | MCSync, JustFull | "hard per-type quotas" (`bitle_sync.h:21`) are exceeded while slots are free |
| AskedOncePerMinuteAlways | MCSync, JustZero | connection handle 0 looks like a free entry |
| NicknameFollowsIdentity | MCParts | after a storage error the old generated name is kept |

Other observations made while modelling, with no run of their own:

- LoRa: sequence numbers restart at 1 after a reboot; a failed start of channel
  detection (`bitle_lora.c:716`, `737`, `758`) leaves the radio in standby until
  the next event; `tx_is_ack` stays set after a timed-out acknowledgement.
- Sync: `groupMessage` is named in the header and not accepted by the store; a
  slot may be reused between its selection and its copy, and the newer packet is
  then sent in its place.
- Noise sessions: a message read without a handshake is taken for an initiation
  (`noise_handshake.c:393`); a pending handshake has no timeout; the comment at
  1555 ("We answer as responder only") and the initiation at 1866 differ.
- Noise library: `noise_handshakestate_start` accepts XX fallback with a hybrid key
  although fallback patterns are documented as not applicable; fallback is said to
  need a pattern that ends in "K" and Xnoidh passes that test; a key of the random
  generator may give 17 blocks where the comment says 16.
- Start-up: any failed NVS read of a key makes a new identity; a failed
  `nvs_open` leaves zero keys and the boot goes on; `nickname_regenerate` accepts
  buffers of 9 bytes for names of 11 and has no caller.
- Hashing: two failed hashes both give the 0xFF digest and compare equal.
- `build_announce_payload` does not count the nine bytes of its last two TLVs in
  the room it asks for.

### Bounds

Bounds are constants named `Max...` and appear only in guards; sizes of the code
are constants with smaller values. They are chosen so that the cases that matter
occur:

- store: two sectors, so that the ring wraps and the head meets the oldest
  sector; one more key than the mailbox may hold; sectors that take two records or
  one, so that records end inside a sector and on its boundary; two power losses,
  so that three boots may disagree about the time; a flash error or torn write,
  which may fall into the recovery from a power loss. The invariants of the proofs
  (`StoreInv`, `RingInv`, `KeptInv`) were checked with three keys and two records too.
- courier: three keys for two envelopes and two side slots, so that the mailbox, a
  depositor's quota and the side table are all full at times; clock readings on
  both sides of a day boundary and a day apart; deposits of one day and of the
  cap; two peers of one bit; two resets or failures, so that a boot may have back
  what another left out.
- time: every timestamp around the skew, the validity limit and the build time;
  two generations and a reboot. A line of two nodes for the mesh of clocks.
- mesh: three Bitles, two joined twice (BLE and trunk), a phone that echoes, a
  ring of one packet and three packets, TTL 3, one loss or replay.
- ota: three nodes with three releases, two chunks in one erase sector, one
  retry, one reset and one fault of any kind.
- sessions: scenes of two Bitles that dial each other, one failing link, clocks
  corrected late, and a phone; two session slots, a queue of three. `up`, `down`
  and `app` are handles that are used again and again. In the scene with two
  links no connection refuses packets.
- lora: scenes of simultaneous senders, long messages over a bad channel, a queue
  that overflows, restarts, failing radio commands, and announces of three
  origins. Two throttle slots, two reassembly slots, one acknowledgement in the
  outbox, two attempts, one retry of channel detection; airtimes are the code's at
  SF 10, with a burst of 2.5 s and an interval of 8 s.
- sync: three slots, quotas of one, filters in which two messages collide, a peer
  table of two, one loss or restart; two steps of the wall clock by up to twice the
  rate window.
- noise: every pattern of the library with and without a pre-shared key, three
  handshakes, two messages read out of turn, a nonce that overflows at 3.
- parts: blocks of three bytes and messages of ten, so that every position in a
  block occurs before and after the length field; limbs of six bits; a reseed
  limit of eight bytes; two power cuts and a fault; every buffer length up to the
  longest protocol name; a table with one slot per connection and the trunk, as
  the configuration has (six connections, eight slots).

Deadlock is checked for the mailbox. The other systems may come to rest: their
environment stops when its bound is used up.

### Fairness

- `BitleCourier`: the worker keeps running; owners return again and again (strong
  fairness: an announce counts only while the worker is idle); a link does not
  refuse a packet for ever.
- `ClockNet`: packets keep being sent and arrive again and again.
- `BitleMesh`: receiving tasks keep running.
- `BitleOta`: queues are served in order (weak fairness per sender, receiver and
  packet type), timers fire, neighbours announce, a node told to reboot does.
- `BitleSessions`: the worker takes what is queued, a due announce is sent, the
  host reports what discovery finds and what was disconnected. Links may fail or
  refuse; nobody is obliged to dial.
- `BitleLora`: the task handles interrupt flags and runs every 50 ms, and the radio
  ends what it started. Nothing is assumed of the channel.
- `BitleSync`: ticks, requests and replies are processed and time passes. A finite
  number of replays is lost.
- `BitleBoot`: code runs on while there is power; cuts are finite.

Fairness of an action that is enabled in few states is written as "infinitely
often not due, or infinitely often taken", which TLC evaluates without `ENABLED`.
The end of a put or a boot in `BitleStore` is not a liveness property but a
measure that every step decreases (`StepsLeft`).

## Proofs

TLAPS proves the theorems below for every value of the constants that the named
assumptions allow: any number of nodes, keys, packets and links, any sizes and
any bounds on faults. `tlapm <module>` checks a module; the largest takes less than
ten minutes. Zenon is the default prover (`USE ZenonT(30)`); leaves that need
arithmetic or the theory of functions cite `SMTT(30)`. Each invariant theorem rests on an inductive invariant that is stronger
than the property; a lemma per action shows that the action keeps it, and the
last step combines the lemmas. The invariants were checked by TLC on the
instances of the runs before they were proved.

| Module | Theorem | States | Assumptions |
|---|---|---|---|
| `StoreKeptProofs` | `TypeCorrect`, `StoreInvariant`, `IndexIsSound` | `TypeOK`, `StoreInv`, `IndexSound` | `StoreAssumption` |
| | `PutsAreKept` | `RecordsKept` | |
| | `RingIsKept` | `RingKept` | |
| | `EveryCallEnds` | `CallsEnd`, an action property | |
| `BitchatTimeProofs` | `TypeCorrect`, `ClockNotRatcheted`, `GenerationTracksClock`, `ClockIsBounded` | `TypeOK`, `AntiRatchet`, `StaleWithinSkew`, `ClockBounded` | `TimeAssumption` |
| | `AuthorityIsKept` | `OnlyPhonesReanchor`, an action property | |
| | `ImplementsOffsetClock` | `Implements`, the refinement of `ClockOffset` | |
| | `TracedErrorBounded` | `TracedError` | `NetAssumption` |
| `BitleCourierProofs` | `MailboxAccounts` | `MailAccounted` | `CourierAssumption` |
| | `MailLeavesForCause` | `MailLeaves`, an action property | |
| | `EachActsOnce` | `ActsOnce` | `MeshAssumption` |
| `BitleOtaProofs` | `NodesRunWholeImages` | `UpdateSound` | `OtaAssumption` |
| | `UpdatesOnlyForward` | `UpdateSteps`, an action property | |
| `BitleLoraProofs` | `TrunkKeepsLimits` | `TrunkLimits` | `GovAssumption`, `LoraAssumption` |
| `PartsProofs` | `ReassemblyIsSound` | `ReassemblySound` | `FragAssumption` |
| | `KeysAreSound` | `KeysSound` | `KeyAssumption` |
| | `IdentityIsKept` | `IdentityKept` | `BootAssumption` |
| | `LinksAreSound` | `LinksSound` | `LinkAssumption` |

**Mailbox.** `StoreAssumption`: at least two sectors, a sector holds its header and
the largest record. `IndexSound` (indexed records are on programmed flash of open
sectors, keys are unique, the budget holds) is not inductive: nothing in it says
where the write head is, so a write could land in a sector about to be erased,
nor that the key being put is not indexed already. `StoreInv` adds that records
stay inside their sector, that the head is in an open sector that is not the one
being opened, that a sector being opened has no entries left, what a put has
already forgotten and counted, and what the scan and the resume walk have seen.
`TypeOK /\ StoreInv` is inductive (`IInv`). The lemmas for writes cover every partial
outcome of a power loss. `IInv` carries `SetFacts`, what the lemmas use about
finite sets; `SetFactsHold` derives it from the library's theorems.

`RingTakesOldest` needs the order of the whole ring. `RingInv` says that, starting
at the sector opened next, open sectors come in the order of their sequence
numbers; after a power loss, that they do from some sector; and that the scan has
found the highest number among the headers it has read. It holds with flash errors
anywhere. `RecordsKept` and `HeadErased` need to know what flash looks like.
`KeptInv` holds while no operation failed and no record was torn: a sector is a
run of whole records and then erased (`TidyInv`), the head is where erased flash
begins and the walks of a boot stop on the first unit of a record (`HeadInv`), each
put is on flash at most once and alive only while it is not gone (`VersionInv`),
index entries describe live records, and the last put of a key that is not gone is
live (`RecordInv`). As long as nothing was revived, the index is exactly the live
records no boot passed over, or those the scan has met so far, and these have
different keys and fit the index (`ListInv`): the scan can neither meet two copies of
a key nor run out of entries. For `CallsEnd`, a lemma per action shows that
`StepsLeft` falls; the quota loop ends because each round closes a sector or uses up
an error. `BitleStoreProofs` holds the lemmas on `IInv` and `RingInv`,
`StoreBootProofs` those on `StepsLeft` and the ones on `KeptInv` for boot, delete and
iterate, `StoreKeptProofs` those for put, and the theorems.

**Clock.** The inductive invariant `ClockInv /\ ClockTypes /\ RestTypes` relates
clock, anchor and announced offset: the clock is within the skew of its anchor and
of the offset of its generation, and the latter is no older than the anchor;
without the last part a new acquisition could leave a generation behind. The
refinement follows action by action; steps of uptime, NVS and boot counting are
stutters of the offset clock.

**Clocks of a line.** `NetInv` strengthens `TracedError` in two ways. Packets in
flight carry the bound with them, since the clock that stamped them may have
rebooted meanwhile. And it is the anchor of a traced clock, not the clock, that
leaves room for one more skew below the upper bound: the clock may still be
nudged up to that limit by unauthenticated packets. The two rules of the code
(`Tentative`, `Authoritative`) are the instances of `ClockOffset` that
`ImplementsOffsetClock` is about.

**Courier.** `CourierAssumption`: limits are positive, a day is no longer than the
longest lifetime, clock readings are past the cooldown. Between a hand-over and
its rewrite the mailbox holds the old copy count, and between the two halves of a
rewrite it does not hold the envelope at all. `CourierInv` therefore counts mail
and pending rewrites together: `Room` says the budgets hold of both, so that a
rewrite is never refused for want of room, and `Conserved` that the pending
rewrite accounts for the copies. `Places` and `Ops` say which lists the worker may
have in which step, that a rewrite is of mail of the same depositor, and that what
a boot left out is marked, so that it does not count when it is back. That the tag
covers a day's lifetime is arithmetic on days and needs no invariant.

**Mesh.** `ActsOnce` needs to know why a packet that was acted upon is not acted
upon again: `RingInv` says that a ring holds each packet once and only packets
that were sent, so it cannot push one out before more are sent than it holds.
`ActedInv` says that what was acted upon is then still in the ring, and `FlightInv`
where the copies in flight are.

**Updates.** `NodeOk` says what the partition that is not running may hold: an image
that is selected and not yet booted is whole, except that a transfer that began
after the selection may damage it. The damage never makes it read as an older
release, because the last chunk is the one that stays or goes. No transfer runs
while an image is on trial. The step lemma `Move` carries the two action
properties along with the invariant.

**LoRa.** `LoraAssumption`: at least two attempts per frame (the code has three),
nodes are among the origins of announces, and a scene offers packets.
With a single attempt `SendsBounded` is false: after a transmit timeout `tx_is_ack`
may still be set, the next frame's first attempt is taken for an acknowledgement
and made again. The first part of the module has the governor by itself. The bucket's
invariant `Budget` says that what announces took and what is left came from the
burst and from the refill since the observer began, and that announces alone took
no more than the burst and the time's share. `Memory` says that an origin that was
heard has a throttle slot that says when, or that as many others as there are slots
have been heard since; this is what `Throttled` needs when a slot is reused. The
task's invariant `TaskOk` ties the attempts left to the state of the radio; it holds
until a retransmission cuts off an acknowledgement, as `SendsBounded` does.

**Parts.** `FragAssumption`: only that sizes are positive and that the marks of a
slot never used and of other traffic are not keys or packets; streams may share
their fragment ID, or all of ID, sender and count. `FragInv`: the chunks of a slot
have its key and count, one to an index, and come from streams in progress, no two
slots have one key, an undisturbed stream in progress has a slot with all it got,
and the fingerprint of a packet is as deep in the ring as it is old.
`KeyAssumption`: no private key is zero. `KeyInv`: each object is empty, holds a
public key, or a pair that belongs together, and every signature and secret was
made from such a pair. `BootAssumption`: a first boot finds no name derived from
keys. `BootInv`: until the commit the keys in RAM are those NVS will hold, from then
on those it holds, and only the nickname is written again. `LinkAssumption`: the table
has more slots than there are connections (8 and 6 in the code). `LinkInv`: a handle
has an entry, and one only, exactly while its link is up, so that by counting a slot
is free whenever a link comes up; a broadcast has each of its targets either ahead of
it in the snapshot or behind it, and a target that was there throughout is still up
when its turn comes.

Only model-checked:

- all liveness properties: fairness and `ENABLED` are out of the prover's reach;
- `TrunkDelivers`, which follows a frame through the air and both ends;
- `SyncSound`, `SyncSteps`, `FrameKept`, `PayloadsKept`, `RandSound`, `DigestOfWhole`,
  `AeadSound` and `MacSound`: they rest on recursive operators (the filter, type-length-value
  items, block buffering, limb arithmetic), for which the prover has no SMT
  backend, and would need induction over the data;
- `SessionsSound`, `VerifiedStays`, `HandshakeSound`, `NothingTwice` and `NamesSound`:
  they rest on folds and filters over sequences, whose general facts need the same
  induction.

## Not modelled

- Elliptic curve arithmetic, NewHope, the rounds of hashes and ciphers, and the
  protobuf readers of the Noise library: pure computation on large numbers, beyond
  explicit states. Keys, secrets and digests are symbolic where they are used.
- The HMAC of `bitle_hash.c`, two streaming hashes in a row. If the inner one
  fails, the outer one still returns an ordinary-looking digest.
- The zlib inflater: external; the codec is checked with a marked payload.
- Register values of the SX1262, advertising data, stack start-up and logging.
- The in-memory link adapter, which serves the registry's self-test only, and
  functions without a caller.
- BLAKE2b's big-endian code, which is not compiled for this target.
- Host tools in `tools/` and scripts: offline programs without shared state.
