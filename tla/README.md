# TLA+ models of libicsneo

This directory holds TLA+ models of two parts of libicsneo, TLC configurations that
model-check them, and TLAPS proofs about the storage-read bridge and the CDC-ACM
device search. The code under
`src/` is a slice of the library:

| file | what it is |
|---|---|
| `src/disk/plasiondiskreaddriver.cpp` | `readLogicalDiskAligned`: a blocking, timeout-bounded read of device storage built on asynchronous message callbacks |
| `src/platform/posix/linux/cdcacmlinux.cpp` | `CDCACM::Find`: discovery of CDC-ACM devices through sysfs |
| `src/include/icsneo/communication/packet/canpacket.h` | bitfield layout of the hardware CAN packet |
| `src/include/icsneo/device/tree/radjupiter/radjupiter.h` | static device definition |
| `src/docs/Usage.rst` | user documentation of events, errors, callbacks and polling |

## 1. Inventory

### Components and how they interact

* **SyncBridge (storage read)**, `plasiondiskreaddriver.cpp`. It checks the request:
  the amount must be at most the maximum block size and a multiple of the minimum,
  the position a multiple of the minimum, and the sector must fit 32 bits. It then
  creates a mutex, a condition variable and the counters `copied` and `error` on its
  stack. It subscribes a lambda that captures them by reference, filtered to
  `NeoMemorySDRead`, and sends one 7-byte command frame: the opcode, 4 sector bytes
  and 2 length bytes. It waits with `wait_for(timeout, error || copied == amount)`,
  unsubscribes, and returns `amount` unless the wait timed out.
* **CallbackRegistry**: `Communication::addMessageCallback`, `removeMessageCallback`
  and dispatch. This code is not under `src/`. Spec 4.2 says dispatch copies the
  subscription list under a lock and calls the handlers outside it, on the reader
  thread that decoded the message.
* **The device** answers a read command with chunks of SD data. It is firmware,
  outside this repository.
* **CDC-ACM discovery**, `cdcacmlinux.cpp`. `Find` makes four passes over
  `/sys/bus/usb/drivers/cdc_acm`:
  1. It keeps the links whose name starts with a digit.
  2. It keeps those with exactly one tty.
  3. It reads each tty's `uevent` file until a line containing `PRODUCT=`, and keeps
     the entry if that line is well formed and carries Intrepid's vendor id.
  4. It reads the USB serial, parses the tty number into a handle (plus
     `HANDLE_OFFSET` = 10) and pushes a `FoundDevice`.

  The kernel may remove a device's files at any point (an unplug).
* **PacketCodec**, `canpacket.h`: only the bitfield layout. The encoder and decoder
  are not in `src/`. They overlay this struct on the 24-byte frame, so a model of
  them would be built from the layout alone, and its round trip would hold for any
  layout whose fields do not overlap. It is therefore not modelled (section 7).
* **EventStore, ErrorSlot, polling buffer**, `Usage.rst`: documented behaviour only.
  This is a buffer of 10,000 events with one reserved `TooManyEvents` slot, a
  per-thread last error, and a polling buffer of 20,000 messages.
* **RAD-Jupiter** definition: a constant table.

### State, operations, hard behaviours

* **SyncBridge.**
  * State: the caller's locals (`copied`, `error`, `into`, `hitTimeout`) and the
    registry's subscription set.
  * Concurrency: dispatch snapshots are in flight on reader threads, and command
    frames and reply chunks are in transit.
  * Hard behaviours:
    * The lambda can run on a snapshot taken before `removeMessageCallback`, that
      is, after the function returned.
    * A late reply to a timed-out read matches the next read's filter.
    * A foreign, duplicated or oversized chunk must not overrun `into`.
    * `error` is set and the waiter woken, but the return value ignores it.
    * The sector and length are truncated to their wire widths.
* **Find.**
  * State: `foundusbs`, the `foundttys` map with its PIDs, the open `ifstream`
    with its flags, and the output vector.
  * Concurrency: the kernel removing sysfs files between the passes and during a
    read.
  * Hard behaviours:
    * A failed `ifstream` never reaches eof, so the do-while at line 132 spins.
    * An unreadable serial is reported as success with an empty serial.
    * The result depends on which of the devices listed in pass 1 are still there
      at passes 3 and 4.

## 2. Plan

Modules, in the order they were built:

1. **`DiskRead`**: the bridge, the registry as the bridge sees it, and the device.
   **`DiskReadProofs`**: its inductive invariant and safety theorems (done).
2. **`CdcAcmFind`**: `Find` with concurrent unplugs (done).
   **`CdcAcmFindProofs`** proves `FindMatchesPlugged` (done).
3. **`ReadTransaction`**: the transaction of spec 4.4, which `DiskRead` refines.
   The refinement is checked by TLC and proved by TLAPS (done).
4. **`DiskReadShared`**: concurrent callers sharing the static filter (done).
   **`DiskReadSharedProofs`** proves its two invariants (done).
5. **`EventStore`** (from `Usage.rst`, spec-modelled): concurrent loggers, a drain
   with a filter, resizing, and the single-sentinel invariant (next).

## 3. Modules and their correspondence to the code

### `DiskRead` (core)

* **Constants.**
  * `MinBlock` and `MaxBlock` are the block-size bounds.
  * `SectorSize`, with the wire widths `SectorBits` and `LengthBits` (scaled down
    from 32 and 16).
  * `ChunkSize` is the size of a reply chunk.
  * `Positions` and `Amounts` are the requests a caller may make.
  * `MaxCalls` bounds the number of calls, and `MaxFaults` bounds the device
    faults.
* **Variables.**
  * Caller: `cpc` (idle / sending / waiting / woke), `calls`, `pos`, `amount`,
    `copied`, `error`, `into` (the chunks copied, in order), `hitTimeout` and
    `result`.
  * Registry: `registry` (ids of the subscribed lambdas), plus `snapshot` and
    `rmsg` (the dispatch in progress on the reader thread).
  * Wire: `cmds` (frames to the device) and `wire` (replies to the host).
  * Ghosts: `sent`, `faults` and `uaf`.
* **Actions.**
  * `Start(p, a)`: lines 9-32. This covers the early returns, the locals, and the
    subscription.
  * `Send`: lines 51-61. It covers the frame, and the wait that returns at once if
    the predicate already holds.
  * `Wake` and `Timeout`: line 61.
  * `Finish`: lines 62-67.
  * `Receive`: the registry's snapshot.
  * `Handler`: lines 32-49, the lambda run for a live call.
  * `HandlerAfterReturn`: the lambda run from a snapshot whose call has returned.
  * `DeviceServe`: the device answers one frame. The answer may be dropped,
    duplicated or corrupted, within `MaxFaults`.
* **Data abstraction.** A message is a record {kind, req, idx}. `into` is the
  sequence of chunks copied, so "the data returned is the data of this request" is
  a statement about `into`.

### `CdcAcmFind`

* **Constants.** `Entries`, the directory entries. `Profile[e]`, what the files of
  `e` contain: whether it is a USB link, how many ttys it has, its uevent lines as
  kinds (`other`, `offset`, `noslash`, `badhex`, `vendor`, `ours`), the PID, whether
  the name has a ':', and the tty number. `HandleOffset`, and `MaxUnplugs`.
* **Variables.** `phase`, the pass the code is in. `present`, the entries whose
  files exist. `foundusbs`, `foundttys`, `ttyPid` and `found`, the code's
  containers. `cur`, `fsGood` and `line`, the open stream. `unplugs`.
* **Actions.**
  * `ListDriver`: lines 88-103.
  * `ListTty`: lines 107-120.
  * `OpenUevent`: lines 123-131.
  * `ReadLine`: one iteration of lines 132-134. On a failed stream it changes
    nothing, exactly as `getline` does.
  * `CheckProduct`: lines 136-166.
  * `AddDevice`: lines 171-205, with `SerialOf` for `USBSerialGetter`.
  * `Unplug`: the kernel.

### `ReadTransaction` (abstract)

This is what spec 4.4 promises of a synchronous read, at the level of the
transaction. It has `tstate` (Idle / Subscribed / Sent), the request, the set of
subscriptions, the set of commands sent and the last result.

* `Refuse`: a request failing the preconditions returns with nothing sent or
  subscribed.
* `Accept`: a valid request subscribes exactly its own handler.
* `SendCommand`: one command is sent, for exactly its byte range.
* `Return`: unsubscribes, with no result or with the full length.

Which of the two results is returned is left open. The code's choice, `amount`
even after an error, is finding 1, which `NoSuccessAfterError` checks separately.

`DiskRead` defines the mapping `Txn`:

* `tstate` comes from `cpc`: idle is Idle, sending is Subscribed, and waiting or
  woke is Sent.
* `subscribed` is `registry`.
* `frames` is each frame sent, read back as the device reads it: sector times
  `SectorSize`, and the length field.
* `Valid` is the negation of the checks of lines 13-25.

The reader thread, the device, `Wake` and `Timeout` are stutters of the
transaction.

### `DiskReadShared`

This models several callers of `readLogicalDiskAligned` on one device.

* **State.** Each caller's locals are functions of the caller: `pc[c]`,
  `amount[c]`, `copied[c]`, `error[c]`, `into[c]`, `hitTimeout[c]` and
  `result[c]`. The registry is `Communication`'s callback map: a function from
  callback numbers to callback ids `<<caller, call>>`. `addMessageCallback`
  (`Added`) uses the next number, counted by `nextCb`. `removeMessageCallback`
  (`Without`) erases one entry.
* **Dispatch.** The reader hands each chunk to every callback in the snapshot,
  in the order of their numbers (`First`, `Rest`). All callbacks share the static `NeoMemorySDRead` filter of line 11.
* **Actions.** They are those of `DiskRead`, per caller.
* **Left out.** The offset and sector checks, and device faults, are left out:
  they are identical for every caller, and `DiskRead` checks them.

`PROJECT.json` "map" gives the lines of every definition.

## 4. Runs

| run | config | checks | result |
|---|---|---|---|
| `disk_read` | `MCDiskRead.cfg` | `TypeOK`, `NoOverrun`, `FramesMatchRequests`, `SubscriptionScoped`, `CallReturns` | pass, 16,971 states |
| `disk_read_error_ignored` | `MCDiskRead_NoSuccessAfterError.cfg` | `NoSuccessAfterError` | violated (finding 1) |
| `disk_read_stale_chunks` | `MCDiskRead_SuccessDataFresh.cfg` | `SuccessDataFresh` | violated (finding 2) |
| `disk_read_handler_after_return` | `MCDiskRead_NoHandlerAfterReturn.cfg` | `NoHandlerAfterReturn` | violated (finding 3) |
| `disk_read_txn` | `MCDiskRead_Txn.cfg` | `TxnRefinement` (`Spec => Txn!TSpec`) | pass, 16,971 states |
| `disk_read_shared` | `MCDiskReadShared.cfg` | `TypeOK`, `SubscriptionsScoped`, `IInv` | pass, 697,225 states |
| `disk_read_shared_cross_feed` | `MCDiskReadShared_OwnData.cfg` | `OwnDataOnly` | violated (finding 6) |
| `cdcacm_find_unplug` | `MCCdcAcmFind.cfg` | `FindMatchesPlugged`, `FindInv` | pass, 13,028 states |
| `cdcacm_find_returns` | `MCCdcAcmFind_Returns.cfg` | `FindReturns` | pass |
| `cdcacm_find_hangs_on_unplug` | `MCCdcAcmFind_ReturnsUnplug.cfg` | `FindReturns` | violated (finding 4) |
| `cdcacm_find_empty_serial` | `MCCdcAcmFind_SerialKnown.cfg` | `SerialKnown` | violated (finding 5) |

### Bounds

**`MCDiskRead`** uses `MinBlock = 2`, `MaxBlock = 4`, `SectorSize = 2`,
`ChunkSize = 2`, positions {0,1,2,4}, amounts {0,2,3,4,8}, two calls and one device
fault. Every guard is reached:

* amount 8 is too large, and amount 3 and position 1 are misaligned;
* position 4 with `SectorBits = 1` gives sector 2, which overflows the field;
* amount 0 completes before any chunk arrives;
* amount 4 needs two chunks, so an overrun needs a duplicated or stale chunk.

With two calls, a timed-out call's replies can reach a later call.
`LengthBits = 3` scales the 2-byte length field of line 57-58 down so that it holds
`MaxBlock = 4` but not amount 8, which it would send as length 0. Without the
check of line 13, the frame for amount 8 breaks the `len = amount` conjunct of
`FramesMatchRequests`; this was checked with that property's `amount <= MaxBlock`
conjunct removed, so the truncation is caught by itself and not only through the
restated bound.

**`MCCdcAcmFind`** has nine entries, one for each way an entry is kept or dropped:

* a non-link entry, and one with many ttys or none;
* a first PRODUCT= line that is not at column 0, another vendor, or no PRODUCT=
  line;
* a name without ':', and a tty without digits;
* two good devices.

One unplug can land at any step of any pass.

**`MCDiskReadShared`** has two callers (symmetric), `MinBlock = ChunkSize = 1`,
`MaxBlock = 2`, amounts {1,2,3} and two calls each.

* Amount 3 is refused.
* Amount 2 needs two chunks, so a foreign chunk can complete it, or, without the
  bound test, push `copied` past `MaxBlock`.
* Two calls per caller let a caller's new callback meet the chunks of the other
  caller's earlier call.

### Fairness

* **`DiskRead`**: weak fairness of `Send`, `Timeout` and `Finish`.
  * The caller's thread runs.
  * `wait_for` returns by the deadline at the latest.
  * Nothing is assumed of the device or of the reader threads, so `CallReturns`
    must hold even if no reply ever comes.
* **`CdcAcmFind`**: weak fairness of the steps of `Find`, the only thread involved.
  The kernel is not required to unplug anything.

`CHECK_DEADLOCK FALSE` is set where the model really stops:

* `DiskRead` stops once the caller has made its `MaxCalls` calls;
* `Find` stops after it returns.

### Mutants

Every property of a passing run is broken by one plausible bug in the code it is
about (`PROJECT.json` "mutants"):

* accepting any chunk type, or accepting chunks past the amount;
* dropping the sector-overflow check;
* keeping the subscription after a timeout;
* a `wait_for` that never times out;
* testing `pos == npos` instead of `pos != 0`;
* dropping `!fs.eof()`;
* subscribing before the checks of lines 13-25, which breaks the refinement;
* removing callbacks by filter instead of by id, when two callers share it;
* dropping the bound check of line 13 in the concurrent model, which breaks
  `CallerOK` and so `IInv`;
* binding the map entry by copy at line 125, so the PID is never stored, which
  breaks `FindInv`.

## 5. Findings

1. **Errored reads report success** (`plasiondiskreaddriver.cpp:67`). The handler
   sets `error` and wakes the waiter, but the return ignores it. TLC's trace: a
   duplicated or stale chunk overflows the amount, and the call returns `amount`.
   Spec 4.4 requires an empty result.
2. **Late chunks complete the next read** (line 36). The filter is only
   `NeoMemorySDRead`, and no chunk carries a request id. After a timeout, the
   device's late reply is copied into the next call's buffer and returned as that
   call's data.
3. **The lambda can run after return** (lines 32-33 and 62). A dispatch that copied
   the subscriptions before `removeMessageCallback` calls the lambda afterwards. It
   locks the destroyed mutex and writes the destroyed `copied`. Spec 4.4 says a
   late response never touches the transaction state. That claim holds only for
   dispatches that start after the unsubscription.
4. **`Find` hangs on an unplug** (`cdcacmlinux.cpp:134`). An `ifstream` that failed
   to open (or whose device vanished) makes `getline` set failbit but never eofbit.
   The do-while then loops for ever with an empty line.
5. **Empty serial reported** (`cdcacmlinux.cpp:70`). Opening the serial file throws
   nothing, so `USBSerialGetter` reports success with an empty serial. The comment
   at line 177 says such a device is skipped.

6. **Concurrent reads cross-feed** (line 11). Every call subscribes with the same
   static filter, and chunks carry no request id, so each callback copies the
   other caller's chunks. TLC's trace: both callers send, and the device answers
   c2. The answer completes c1, which returns success holding c2's data. Spec
   4.4 and 6 describe a transaction as a private receiver. Whether `Device`
   serialises disk access is outside `src/`. If it does, this is latent.

## 6. Proofs

`DiskReadProofs` proves, for every value of the constants satisfying
`DiskAssumption`:

* `TypeCorrect`: `Spec => []TypeOK`.
* `NoOverrunHolds`: `Spec => []NoOverrun`.
* `FramesMatchRequestsHolds`: `Spec => []FramesMatchRequests`.
* `SubscriptionScopedHolds`: `Spec => []SubscriptionScoped`.

`DiskAssumption` requires positive block, sector and chunk sizes, a minimum block
that is a multiple of the sector and the chunk size, and `MaxBlock < 2^LengthBits`.

All four theorems follow from `IInvHolds`, `Spec => []IInv`.

`IInv` strengthens the four properties with `CallerOK` and with facts about frames:

* **`CallerOK`**: while a call is in progress, its request passed the checks of
  lines 13-25, and its number is within the bound.
* **Frame facts**: every frame still queued to the device, and every frame sent,
  matches its request.

The plain conjunction of the properties is not inductive:

* the invariant about `sent` needs to know that the caller's current request was
  accepted, or `Send` could emit a bad frame;
* `DeviceServe` reads `cmds`, so the frames in flight must be typed.

The proof has one lemma per action (`StartIInv`, `SendIInv`, ...). These are
combined in `NextIInv` by a case split over `Next`. The numeric steps rest on the
small lemmas `DivMultiple`, `AlignedSector`, `LengthFits` and `SectorExact`. The
sequence facts come from `SequenceTheorems`.

**`TxnRefines`**: `Spec => TxnRefinement`, that is, `DiskRead` implements
`ReadTransaction` under `Txn`. The proof follows the usual refinement layout:

* `InitRefines`: `Init => Txn!TInit`.
* `NextRefines`: `IInv /\ [Next]_vars => [Txn!TNext]_Txn!tvars`.
  * `Start` is a `Refuse` or an `Accept`.
  * `Send` is a `SendCommand`.
  * `Finish` is a `Return`.
  * The other actions leave the mapped state unchanged.
* The temporal combination with `IInvHolds` is done by PTL.

`IInv` is needed again here:

* `SubscriptionScoped` gives an empty registry at `Start` and the current call's
  id at `Finish`;
* `SendFrame` gives a frame that reads back as exactly the caller's range.

`tlapm DiskReadProofs.tla` checks all 350 obligations.

`DiskReadSharedProofs` proves, for any set of callers and every value of the
constants satisfying `SharedAssumption`:

* `SharedTypeCorrect`: `Spec => []TypeOK`. In particular no caller's `copied`
  passes `MaxBlock`, although every callback receives every caller's chunks.
* `SubscriptionsScopedHolds`: `Spec => []SubscriptionsScoped`.

Both follow from `SharedIInvHolds`, `Spec => []IInv`. Here
`IInv == TypeOK /\ SubscriptionsScoped /\ CallerOK`. `CallerOK` says that a call
in progress has a call number within the bound, an amount that passed line 13,
and `copied <= amount`. Without it, `Handler`'s step `copied + ChunkSize` could
not be bounded by `MaxBlock`. `TypeOK` also bounds the callback numbers by
`nextCb`, so a newly added number is always fresh. The `disk_read_shared` run
checks `IInv` as an invariant on 697,225 states; `MCDiskReadShared` extends
`DiskReadSharedProofs` for this.

The proof has one lemma per action. Some facts are shared between them:

* `InCallStep`: a caller step that keeps the registry and the call's locals, and
  moves no caller into or out of `"idle"`.
* `ReaderStep`: a reader or device step, which leaves the callers alone.
* `IdleUnregistered`: an idle caller has no callback.
* `RestType`: what a dispatch step leaves of the snapshot.
* `FirstIn`: the first callback of a non-empty snapshot is one of its entries.

`FirstIn` rests on `NatMin`: every non-empty set of naturals has a least
element. `NatMin` is derived from `WFMin` and `NatLessThanWellFounded` of
`WellFoundedInduction`. The registry is a numbered map rather than a sequence
filtered with `SelectSeq` so that its facts stay first-order.

`CdcAcmFindProofs` proves, for every set of entries and every profile satisfying
`FindAssumption` and `NoneAssumption`:

* `FindMatchesPluggedHolds`: `Spec => []FindMatchesPlugged`, for any number of
  unplugs at any points of the scan.
* `FindInvHolds`: `Spec => []FindInv`.

`NoneAssumption` says that the model's "no file open" sentinel names no entry.

`FindMatchesPlugged` speaks only of the end of the scan, so it is not inductive.
`FindInv` says what the maps hold after each pass:

* `TtyPass`: every USB link still present was listed, and every one visited that
  is still present with one tty was kept.
* `KeptPass`: from pass 3 on, every entry still present that passes 2 and 3
  accept is kept.
* `UeventPass`: the entries pass 3 has checked carry their own PID. `Reading`
  says that the lines read so far, all but the last, have no `PRODUCT=`.
* `SerialPass` and `FoundOK`: pass 4 pushed one device per kept entry it
  visited, with that entry's PID and handle.

An unplug only shrinks `present`, and every conjunct that mentions `present`
says "still present => kept", so unplugs keep them all.

The reference's `FirstProduct` picks the least index of a `PRODUCT=` line.
Two lemmas connect it with the loop of lines 132-134:

* `FirstProductAt`: a `PRODUCT=` line after lines without one is the first.
* `FirstProductNone`: a file with no `PRODUCT=` line has none.

Both are direct: the index the loop stops at is the unique least one, so no
induction is needed. `CheckProductInv` uses them to show that an erased entry
never qualifies, and that a kept one does. The `cdcacm_find_unplug` run checks
`FindInv` as an invariant; `MCCdcAcmFind` extends `CdcAcmFindProofs` for this.

### What is only model-checked

* The liveness properties `CallReturns` and `FindReturns`. They need fairness and
  ENABLED, which TLAPS does not handle.
* The violated properties, by construction.

## 7. Not modelled

* `radjupiter.h` has no behaviour: a constant table of networks.
* The EventStore and polling buffers are planned (plan step 6). Their code is not
  under `src/`.
* The registry beyond what the bridge uses: other filters, polling and user
  callbacks.
* `canpacket.h`. The only code under `src/` is the declaration of
  `HardwareCANPacket`; the bodies of `DecodeToMessage` and `EncodeFromMessage` are
  not. Encode and decode could only be modelled as the overlay of that one layout,
  and then `decode(encode(m)) = m` holds for any layout without overlapping fields,
  whatever the code; such a model would check nothing about the code.
* The `Directory` readdir wrapper and `HandleToTTY`, which is pure formatting.
* In `Find`, the early return when the `cdc_acm` driver directory cannot be opened
  (lines 89-90): the model assumes the directory exists. The result vector is
  modelled as a set, so a device pushed twice could not be told from one pushed
  once, and no property can speak of duplicates in the vector.
