# Congateway in TLA+

Congateway is the firmware of a door controller: an nRF52 with a BLE custom
service that phones write a serial number and a password to, a PN532 reader for
MIFARE cards on I2C, and an NFC field detector that wakes the chip by resetting
it.  This directory holds TLA+ models of it, the TLC configurations that check
them, and proofs checked by TLAPS.  The program's own code is `src/congateway`,
`src/external/nfc_adafruit_library/adafruit_pn532.c`, and edits to the Nordic
SDK in `src/components`; the rest of the repository is the SDK.  Of the SDK
the models take what carries the gateway's own state across resets and
interrupts: the flash data storage, the peer manager on top of it, and the
atomic FIFO under both.

## Inventory

| Component | Code | State it keeps | Operations |
|---|---|---|---|
| Door controller | `ble_fsm.c`, `ble_fsm_actions.c`, `ble_fsm_context.h` | one `fsm_context_t` per write: state, ring of ten events, received data; the pins 27 and 28 | `fsm_run`, six state handlers, `fsm_add_event`, `fsm_get_next_event`, check of password and serial, notification of the unique password |
| BLE link | `ble_manager.c`, `ble_cus.c`, SDK `ble_advertising.c`, `nrf_sdh_ble.c` | connection handles of three modules, advertising, queue of events in the SoftDevice | handlers of connection, disconnection, write, PHY request, timeouts; start of advertising, deletion of bonds |
| Connection parameters and timer | SDK `ble_conn_params.c`, `app_timer2.c`, `drv_rtc.c`; `peripheral_manager.c` | one instance per link, timer's request queue, RTC1 | negotiation on connection and update, start and stop of the timer, `RTC1_IRQHandler` |
| Card reader | `card_reader_manager.c` | `card_read_state`, `init_next_state`, UID; on the card: key and memory block | `mifare_start`, called by the main loop |
| Type 2 tag library | `card_reader_manager.c`, `adafruit_pn532.c` | static buffer of the read; on the tag: pages | reading the blocks of a tag, writing a URI record page by page |
| PN532 driver | `adafruit_pn532.c` | packet buffers, listed tag | commands, acknowledgement, answers with timeouts, frames |
| Peer manager | SDK `peer_manager.c`, `peer_manager_handler.c`, `peer_database.c`, `peer_data_storage.c`, `peer_id.c`; `ble_manager.c` | ids in use and to be deleted, write buffers, highest rank and its token, `flash_cleaning`, `flash_write_after_gc`, queue of ranks | storing bonds and ranks, cleaning the flash, deletion of one and of all peers, handlers of fds events |
| Flash data storage | SDK `fds.c`, on `nrf_fstorage` | the flash pages; in RAM `m_pages`, `m_swap_page`, `m_gc`, `m_queue`, `m_latest_rec_id` | installation at a boot, write, update, delete, delete file, garbage collection, open and close |
| Atomic FIFO | SDK `nrf_atfifo.c`, `nrf_atfifo_internal.h` | head and tail pairs, the ring | allocate and put, get and free, clear, from nested interrupts |
| Start-up and main loop | `main.c`, `init_interface.c` | table of modules | initialisation in table order, then `timers_init`, then the loop |
| NFC wake-up | `nfc_manager.c` | - | `NFCT_IRQHandler`: reset |
| Software UART | `software_uart.c`, `uart_config.c` | - | debugging output nobody calls |

How they interact.  The SoftDevice (closed code, external to the models) raises
events; one software interrupt fetches them and calls every registered observer
for each in turn.  The write observer of `ble_cus.c` runs the whole state
machine of the door inside that interrupt, 1.5 s of busy waiting included, while
the radio goes on: links drop and events queue up.  The connection parameters
module observes the same events and drives the application timer, whose clock
RTC1 and interrupt vector are taken by `peripheral_manager.c`.  The main loop
runs underneath and steps the card reader.  An NFC field resets everything at
any moment; what remains is what is on cards, in phones and in flash.

Bonds live in flash.  The peer manager calls fds, fds asks fstorage for one
flash operation at a time, and its completion is an interrupt in which fds goes
on with its queue and calls the peer manager's handlers, which call fds again.
The queues of fds, of fstorage and of the timer are atomic FIFOs.

What is hard here: events handled after the fact they tell of has changed; one
handle value (0) for every link there ever is; resets in the middle of anything;
a queue that is never drained; results dropped, overwritten or uninitialised;
one interrupt with two owners; power that goes while a page of flash is half
copied; calls refused by a full queue that somebody has to repeat; rings shared
by interrupts without a lock.  `PROJECT.json` lists each such place under
`hazards`, with the properties that cover it.

What makes each component correct:

- the door opens only for an authorised write, once, and shuts again; every
  write is decided; the handler returns;
- the link's observers agree on who is connected, nobody gets another's
  password, and the gateway does not stay unreachable;
- the timer is in use only for a living link, its requests come in pairs, and
  the error handler is not reached in normal use;
- a URI write that succeeds leaves a whole record and touches nothing beyond the
  data area; what is read back is the tag's and not an earlier one's;
- a record in flash appears once, when asked for, goes only while asked for,
  and never comes back; an update leaves the old copy or the new one; every
  state a power cut leaves is installed by the next boots;
- a bond goes only with its peer, an id is free only when its bonds are gone,
  all bonds are erased before anyone may connect (the last two are what the
  headers promise, and not what the code keeps: see the findings);
- a slot of the FIFO has one owner, and the ring is a bounded queue;
- a card is never left with data under the wrong key, and one that stays on the
  reader is served.

## Modules

| Module | Models | Built from |
|---|---|---|
| `DoorAccess` | what the gateway promises about the door | - |
| `BleFsm` | the door controller | implements `DoorAccess` by `INSTANCE`; run inside `BleLink` |
| `BleLink` | SoftDevice, event dispatch, handles, advertising, start-up | extends `BleFsm`: its actions are steps or stutters of the controller |
| `ConnTimer` | connection parameters, application timer, RTC1, order of start-up | stands alone |
| `CardReader` | `mifare_start`, the cards and the exchanges with them | stands alone |
| `Exchange` | what a call of the PN532 driver promises the card reader | - |
| `Pn532` | the PN532 driver, and the chip as its environment | implements `Exchange` by `INSTANCE` |
| `Type2Tag` | reading and writing Type 2 tags, the tags as environment | stands alone |
| `RecordStore` | what fds promises of the records it holds | - |
| `Fds` | the flash data storage over flash that loses power | implements `RecordStore` by `INSTANCE` while no flash operation is given up |
| `PeerManager` | the peer manager and the erasing of bonds at a start | extends `Fds`: its client, in place of the arbitrary one |
| `AtomicQueue` | what the FIFO promises its users | - |
| `AtFifo` | the atomic FIFO in nested interrupts | implements `AtomicQueue` by `INSTANCE` |
| `BleLink_proofs`, `ConnTimer_proofs`, `CardReader_proofs`, `Pn532_proofs`, `Type2Tag_proofs`, `AtFifo_proofs`, `Fds_proofs`, `PeerManager_proofs` | their theorems | extend the module; `BleLink_proofs` holds those of `BleFsm` too, and the last section of `PeerManager_proofs` is about `Fds` |
| `MCBleLink`, `MCType2Tag` | instances for TLC | extend the module they check |

### BleFsm

The variables are the members of `fsm_context_t` under their own names, the
local `current_event` of `fsm_run`, the level written to the door pins, the event buffer
being handled (`write`), and two history variables.  One action is one turn of
the loop of `fsm_run`: the handler of the current state, then
`fsm_get_next_event`, which reads the state and ring the handler left.
`state_door_open` is two actions, before and after `nrf_delay_ms(1500)`.  Bytes are
abstracted: a write is a pair of a serial and a password.  `parse_data` takes
ten bytes whatever the length of the write, and the buffer they lie in is not
cleared, so a short write may be any pair; that is why every run and theorem
speaks of the bytes in the buffer (`write`), not of what the phone meant.  A
notification may fail at will.

The password check has one consequence worth knowing: `_tst_serial_num_list`
holds five entries of zeros, so six zero bytes are a listed serial; the
constants of the instances include that (`ZeroSerial` is listed).

### BleLink

Connections are numbered to tell them apart, though the program only ever sees
handle 0.  `evtq` is what the SoftDevice holds and the application has not
fetched.  Every observer's work for one event is one action, since they run in
one go; a write only starts the controller, whose steps interleave with the
radio (`Environment`) but not with other events, as dispatch waits for
`pc = "ready"`.  `AppErrorCheckFails` is the branch of `APP_ERROR_CHECK` when a
queued event's link is gone; the release build resets
(`app_error_weak.c:103-105`).  `InitBle` chooses the uninitialised
`bool x` of `init_ble`, `PeersDeleted` the outcome of the deletion, which
`PeerManager` models in full.

### ConnTimer

The timer's queue (`m_req_fifo`) has no action that takes a request out, because
the program has none that runs: `drv_rtc.c:351-356` has the library's handler
commented out and `RTC1_IRQHandler` of `peripheral_manager.c` does not call it.
For the same reason timer expiry, `update_timeout_handler` and the event
`BLE_CONN_PARAMS_EVT_FAILED` are unreachable and left out.  A request made
before `timers_init` finds a queue of no slots.  `on_write` of
`ble_conn_params.c` compares with `BLE_GATT_HANDLE_INVALID` and never matches.
RTC1 counts in units of a few seconds; `pending` is the interrupt's state in the
NVIC.

### CardReader

One call of `mifare_start` is one action.  An exchange with the card may be
carried out and reported, carried out and reported as failed, or not carried
out.  `configure_custom_key` is two exchanges; the outcomes include a success of
the first alone.  Its result is dropped, and the `err_code` tested is
uninitialised: the choice is nondeterministic.

### Pn532

A call of the driver is a path through `pc`: the command is made up (`Call`) and
written, the acknowledgement waited for and read, the interrupt line seen off,
the answer waited for, read and judged.  All commands share these stages;
`passive_activation_retries_set` ends with the acknowledgement, and what a call
accepts as its answer is `Accepts`.  `next` and `past_init` say which call comes:
those of `adafruit_pn532_init`, each only after the one before succeeded, then
those of `mifare_start`, whose own logic is `CardReader`'s.  A frame is
abstracted to what it is about.  `fresh` and `carried` are history.

The chip is external.  It acknowledges, works and answers when it likes or not
at all.  Two things are assumed of it, both needed by the driver: a new command
withdraws a frame that was not read, and the line is high again within the
thousand polls of `adafruit_pn532_ack_read`.  An I2C transfer may be reported to
have failed before or after it had its effect.

`CardReader` relies on `Exchange`: its exchanges succeed and were carried out, or
are reported as failed and were carried out or not.  That a command may be
carried out between the report and the next command is no more than that,
since the reader does nothing in between.

### Type2Tag

No code of this program calls the Type 2 tag operations yet (`tag_detect_and_read`
and `adafruit_pn532_ndef_uri_tag2_write` are there for a caller), so the model calls
them in any order, one exchange an action.  A page's content is abstracted to
which part of which record it is; the number and length arithmetic is kept, with
its bytes: `strlen` in a `uint8_t`, `block_num`, `blocks_to_read`.  The size of the
tag is what its header states; the caller of the write is taken to pass it, cut
off at the 255 a byte holds.  A page write may fail before or after it was done.
`t2t_data` outlives the read, as the static buffer does.  What
`t2t_data_analyze` makes of the buffer is not modelled; properties speak of the
buffer it is given.

### Fds

`flash` is the pages, each with a tag and `Slots` slots.  A record takes one
slot and is four groups of words in the order of their addresses (key and
length, file id, record id, data); `Program` says what writing a word over
another does, so that a write over leftovers shows.  `Execute` hands fstorage a
flash operation as the list of states the page goes through; `PowerCut` leaves
any of them, `FlashTimeout` is fstorage giving up.  `hand` says where
`queue_process` is: waiting for the flash (`idle`), about to execute the head of
the queue (`run`), or in the users' event handlers (`event`), from which they
may call again.  Every step of `init_execute`, `write_execute`,
`delete_execute` and `gc_execute` is an action; the states of the collection are
named for those of `fds_gc_state_t`, and `GcStep` and `GcAgain` are the two
ways through `gc_execute`, advancing the state or repeating a step that was
left off.  `Boot` is
`fds_init`: `PagesInit` is `Scan`, `ScanPage` taken over the pages one by one as
`pages_init` does, and `InitStep` is its table of what was seen (`Seen`).

A client calls anything at any time, with one limit: it asks for a collection
when none is pending, as `flash_cleaning` of `pm_handler_flash_clean` keeps it.
A descriptor the client has open (`opened`) holds the address the record had
and, like `gc_run_count` in the code, whether a collection has started since
(`moved`).  The static search token of `file_find_and_delete` is `tok`.
A call that finds the queue full is left out of `Fds`, as
`queue_buf_get` (`fds.c:622-628`) then clears memory at `NULL`: the chip faults
or it is refused, and `PeerManager` has both.

### PeerManager

What a handler does is a sequence of calls of fds, and a call that finds the
queue empty runs it at once.  So each context has an `agenda`: `idle` for `main`
and the handlers of BLE events, `event` for the handler of an fds event, which
pre-empts the first.  An item is one call and the state changes around it:
`store` (`write_buf_store`), `rank` (`pm_peer_rank_highest` in
`pm_handler_flash_clean`), `full` (its `PM_EVT_STORAGE_FULL`), `gc`, `cleaning`
(the assignment after `fds_gc` has returned), `deletes`
(`peer_data_delete_process`) and `deferred` (the same, at the end of
`fds_evt_handler`).

`peer_data_delete_process` also runs in `main`, under `pm_peers_delete`, where the
event of an earlier deletion may come between any two of its calls, and the
handler of that event runs the function itself.  So it is a step for each call,
the item in hand naming the next one and the local `peer_id`: `StartDeletes` (the
flag), `NextDeleted` (`peer_id_get_next_deleted`), `FindInFile` (the search),
`FreeId` and `Unmark` (the two flags `peer_id_free` clears), `DeletePeer`
(`fds_file_delete`) and `Defer`.  The search token is in the order of these
items: the first search has a cleared token and sees the flash (`find`), a search that
finds nothing leaves the token at its end, and so whatever peer comes next is
freed (`free`) without being looked for.  One search is one step: while `main` erases bonds nothing is written or
collected, records only go, and so a search that is interrupted answers as it would at its
end, or at the record it found.

`FdsEvent` handles an event in the order of its observers.
Ids of peers are those of their files, ranks are compared by the order in which
they were requested.  `APP_ERROR_CHECK` stops the chip (`Stop`): what comes
after is a `Reset` or nothing.  The phones are the environment: one may bond
(`Bonded`) or come back (`BondedPeer`) at any moment in which `main` would let
its event in.

### AtFifo

One action is one `ldrex`/`strex` loop, since an exception clears the exclusive
monitor and a loop that was interrupted starts again.  Calls in hand form two
stacks, as an interrupt ends before what it interrupted goes on; puts and gets do
not nest in each other, as fds keeps a get open over a whole flash operation.
Each call keeps the head or tail it found, as the contexts of the code do.

## Runs

| Run | Question | Instance | Distinct states |
|---|---|---|---|
| `link` | does the controller decide every write right, and do stale events, drops and resets confuse it, the handles, advertising or the notification? | 2 connections, 2 queued events, ring of 3 | 115,860 |
| `link_app_error` | can a call under `APP_ERROR_CHECK` fail? | the same, ring of 10 | yes: finding |
| `timer` | is the timer in use only with a link, how long does the queue last, and which request finds no room? | 5 slots | 1,182 |
| `cards` | swaps, lost answers, resets: keys, data and progress | 2 cards | 920 |
| `pn532` | late answers, unread frames, failed transfers, resets of the host alone: whose frame is read, and what does success mean? | every command the program sends | 642 |
| `tags` | is a written record whole and inside the data area, and is it read back, whatever fails and whatever was there before? | tags of 16 and 40 bytes, URIs of 1, 8, 32 and 257, buffer of 64 | 2,502,158 |
| `storage` | is a record lost, doubled or brought back by updates, collections, power cuts and installations? | 2 data pages of 2 records and the swap page, 3 writes, 1 fault, a client with a record open | 705,817 |
| `storage_timeout` | is flash handed out again erased? | the same | no: finding |
| `peers` | are bonds kept, do the handlers free ids safely, does an erasure end in advertising, are deferred deletions done? | 3 peers, 1 data page of 4 records, queue of 3, 4 buffers, 4 events, 1 fault | 155,610 |
| `peers_erase` | are all bonds erased before advertising? | the same, queue of 4 | no: finding |
| `peers_clean` | is a peer deleted for its space only when the flash is full? | the same, queue of 4 | no: finding |
| `fifo` | is the ring a bounded queue when puts and gets interrupt one another? | 5 slots, nesting 3 deep, 2 items | 61,920 |

Bounds.  The ring of the controller in `link` has three slots, not ten, so that
the seven events of a run wrap it; the theorems cover every size from two.  Two
connections (`MaxConns`) are what it takes for one to be stale; two queued
events (`MaxEvents`, disconnections on top) let a write or timeout wait behind
another event.  `link` has one listed and one unknown serial, the listed one the zeros of a context that was not filled.  `served` in `ConnTimer` saturates at `MaxServed`, the size of the
queue, which is past the point where the property speaks of it.  The queue of `timer` has an odd number of slots, so that starts and stops may both find no
room; in the ten of the code only a start can find none,
and `QueueLasts` is proved for every number.  Two cards let
one be swapped for the other.  `Pn532` has no constant; its states are all there
are.  In `tags` one tag
is too small for the longer URIs and one takes all but 32; the lengths 8 and 32 fill their last
page, 1 does not, and 257 wraps; the small buffer is larger than either tag and
holds what one leaves for the other.  No symmetry is used, since
liveness is checked.

Two data pages let a collection go from one page to the next, and three writes fill one page
and begin another, or update a record that is being collected; a page of two
records can hold a live and a removed one, which is what a collection tells
apart.  One fault (`MaxFaults`: a power cut or a flash operation given up) may
fall between or inside any two flash operations; a second cut, during the
installation after the first, is not in these instances.  In `peers` one data page of four
records holds two peers with bond and rank, so that the third fills the flash;
the queue of three, one less than the code's, is full when a peer is deleted for
its space, so that this deletion is refused and deferred, which with four takes
more events than the instance has; the runs that expect a
violation have the code's four.  An id is freed too early with two peers, but
`ErasesAll` takes three to fall.  Four events are too
few to overrun the `rank_queue` of eight.  `peers` was also run
with two data pages (294,977 states), with pages of three and of two records, and
with a queue of four (159,908), to the same end.  Five slots and a nesting of three
fill the FIFO, wrap it, and let an interrupting put or get interrupt again.

Fairness.  `fsm_run` is a loop in an interrupt, so its next turn comes
(`WF(FsmRun)`); the dispatch interrupt is taken when events wait and `main` goes
on (`WF(Dispatch)`, `WF(StartUp)`); RTC1 counts, and its pending interrupt is
taken (`WF(Tick)`, `WF(RTC1_IRQHandler)`, and `Tick` does not outrun a pending
interrupt by more than `MaxLatency`, as the only other interrupt of that
priority is the 1.5 s of the door); the main loop is woken by RTC1 every ten
seconds at the latest (`WF(mifare_start)`); a call of the driver is straight-line
code with bounded waits (`WF(InCall)`), and the chip lets go of the line after a
frame was read (`WF(ChipReleases)`), though it need never answer; a chip without power is powered again and runs
`fds_init` (`WF(Boot)`), the SoftDevice reports each flash operation
(`WF(FlashDone)`), the handler of that report runs (`WF(QueueProcess)`), and the
peer manager's handlers are straight-line code in it or in `main`
(`WF(PeerSteps)`, which fires until none of its steps is possible).  Phones, cards and fields owe nothing.
Where progress needs them to leave the gateway alone, the
property says so: `Connectable` from when the NFC fields cease, `ServesCard` for a card
that stays while exchanges succeed, `Installs`, `EraseEnds` and `Freed` as long as no flash
operation is given up, the last two also as long as the chip does not stop.

## What the checks show

The controller is sound: a zeroed context, which would authorise anyone, is
never decided upon; the unchecked ring is empty whenever a handler runs; a
redelivered event always leads on.  The link's bare handles suffice only because advertising restarts
after the disconnection is handled; the mutant that advertises earlier sends the password to
the wrong phone.  Five connections with unacceptable parameters fill the timer
queue; the sixth resets the gateway (with `>` for `>=` in `SurvivesConnections` and ten
slots, TLC finds it).  RTC1 is saved from an interrupt that
nobody would clear by being cleared every ten seconds.  The PN532 driver stays in
step with a chip that answers late only because a new command makes the chip
drop what it holds, and because the interrupt line is polled away after the
acknowledgement: the mutant without that poll reads an answer that is not there,
as the driver drops the byte that would tell.

The flash data storage keeps its records through every power cut of the
instance: the swap page is found to be the copy, or the leftover, it is, because the page it was
copied from is erased before the swap page is tagged.  Updates leave the old copy until
the new one is complete.  Two copies may be there after a cut, with ids of their own.
The peer manager keeps bonds through rank updates and collections.  A peer whose
deletion is to make room is deleted in the end, and the handlers of events, which nothing
interrupts, free an id only when its bonds are gone (`HandlersFreeEmpty`).  A start that erases
all bonds does end in advertising (`EraseEnds`), but not always with the bonds
gone.  In the last round of `pm_peers_delete`, `main` has just picked the first peer
left when the event comes that its file has been deleted; the handler frees
the id and asks for the deletion of the next file.  `main` goes on, finds nothing of the
first peer, and with the token at the end of the flash frees all the others at once.  The event of the next
file then finds no peer left and starts advertising, and a third peer's bond stays in
flash with nobody to delete it: the next boot, which takes its ids from the
flash, knows that phone again.  The FIFO's promise to its users is kept
by two rules: the last slot stays free, and only the outermost put or
get publishes.

Disagreements with what the code's comments and documentation say are the runs
that expect a violation, each with an entry under `findings`: a stale handle
under `APP_ERROR_CHECK` (`link_app_error`);
flash handed out again with the words of a failed write in it
(`storage_timeout`); ids freed with their bonds in flash, and
advertising started with a bond left (`peers_erase`); a peer deleted right after a collection though the flash has
room (`peers_clean`).

Met while modelling, visible in the models' definitions, and not runs of their own:

- timer requests are never processed (`app_timer2.c:523` says the RTC handler
  does it; `ConnTimer` has no such action because nothing calls that handler),
  and the eleventh ends in `APP_ERROR_HANDLER` (`ble_manager.c:290`);
- cards get their key and data whatever their UID, though a comment speaks of a
  list (`card_reader_manager.c:433-434`, `488`), and the result of
  `configure_custom_key` is dropped (`489-492`);
- the last four blocks of a tag are not read (`card_reader_manager.c:110`), and the
  walk over TLV blocks does not move on from one that is not NDEF (`164`);
- a URI longer than 255 characters wraps its length byte
  (`adafruit_pn532.c:760`), so that a shorter one is written and reported as
  written; `WrittenIsWhole` is about the lengths a byte holds;
- `flash_cleaning` is set after `fds_gc` returns (`peer_manager_handler.c:412-424`).  A collection with
  nothing to collect ends before that, so the flag is cleared and then set, and
  no later full flash is cleaned until a reset;
- `peer_ids_load` runs when `pm_init` returns, which may be before an asynchronous
  installation has ended: the bonds are unknown to it until the next reset, and
  advertising with `erase_bonds` starts with bonds left (`ErasesAll` speaks of
  an erasure that has begun);
- `pm_peers_delete` with as many bonds as the queue has places ends in the fault
  of `queue_buf_get`; a phone that bonds while the storage is being installed
  ends in `APP_ERROR_CHECK`; after `PM_EVT_PEERS_DELETE_FAILED` nobody starts
  advertising (`ble_manager.c:359`);
- an update whose record is gone keeps its reservation of space until a reset
  (`fds.c:1267-1270`, `UpdateFindsNothing`).

What some properties leave out: `NotifiedBeforeOpen` says that the notification
is tried, not that it succeeds, and the door opens for a phone that never got
its password; `OpensOnlyForAuthorised` is about the bytes in the buffer, whatever wrote
them; `SurvivesConnections` speaks of the gateway that is up, and a phone that
connects before `timers_init` resets it; `CallsReturn` has the chip let go of the
interrupt line within the thousand polls of the driver; `ReadsBack` ends before the
last four blocks and `WrittenIsWhole` at the lengths that wrap.

The write of a URI leaves the right room for its terminator, in the last page
or one of its own, and old content never shows through a record written whole.
The read is complete for records that end before the last four blocks.

## Proofs

Every theorem is stated for all values of the constants, from the assumptions
the modules name: the listed serials are serials and two passwords differ
(`SerialAssumption`, `PasswordAssumption`), the ring has two slots or more
(`QueueAssumption`), `NoWrite` is no write; the bounds of the link are positive
(`LinkBounds`); the timer's queue is not empty and RTC1's compare values leave
room for the latency of its interrupt (`OpQueueAssumption`, `ClockAssumption`);
`NoCard` is no card; a tag states its size
in a byte (`TagAssumption`), lengths of URIs are naturals (`UrlAssumption`), the buffer is
that of the code or smaller and holds a header (`BufferAssumption`); the FIFO has a
slot and there is an item (`SizeAssumption`, `ItemsAssumption`); the flash has a data page
besides the swap page, a page a record, the queue of fds an element, and file ids are
positive (`ConstantsAssumption`).  TLC evaluates them in the runs.

*Controller* (`BleLink_proofs`).  `OpensOnlyForAuthorised` alone is not
inductive: the handler that opens the door looks at the current event only, and
the invariant has to know how that event came to be.  `IInv` says, for each of
the pairs of state and event a run goes through, what is known of the write by
then (`Undecided`, `Parsed` with `FirstTime`, `Subsequent` or `Refused`, and
`Granted`), and that the ring is empty on entry to a handler
(`NothingLeftBehind`), without which nothing is known of the next event.
`IterateAdds` and `IterateGoes` state once what a loop turn does to an empty
ring; each handler then has a lemma.  `Implementation` is the safety half of the
refinement of `DoorAccess`.  These theorems are stated of `Safe`, the controller's
steps without its fairness, which is what the link supplies.

*Link* (`BleLink_proofs`).  `LinkIInv` describes the whole queue of events: all
are of the last connection, its connection event first, its disconnection last
(`Ordered`), and the gateway advertises only with the queue empty and the link
gone (`Between`).  From this a write is always fetched with the handles valid, and a
disconnection always finds its slave handle and restarts advertising.  `Added` and
`Fetched` state what a queue is after `Append` and `Tail`.  `LinkRunsFsm` shows that
every step of the link is a step or stutter of the controller, so the
controller's theorems carry over (`LinkGuardsDoor`, `LinkKeepsDoor`).

*Timer* (`ConnTimer_proofs`).  The invariant is the conjunction of a part about
the queue (`TimerPart`, by parity of its length), one about the clock
(`ClockPart`: a counter past `COMPARE[0]` has raised it) and one about the link
(`RequestsCounted`: two requests per connection at most), each kept separately.

*Cards* (`CardReader_proofs`).  Inductive with one addition: a session open on
the way to the write was opened with the custom key; `CardTypes` needs none.

*PN532 driver* (`Pn532_proofs`).  No constant to generalise over; the proof gives
the reason.  `InStepIInv` says, for each stage of a call, what the chip is about
(`AckAhead`, `AnswerAhead`) and what `carried` is worth (`CarriedKnown`).
`AcceptedIsCarried` is the heart: the answer in hand is this call's, so what is
accepted was carried out.  From it, `DriverKeepsPromise` is the safety half of
`Exchange`; `CallsReturn` and the fair half stay with TLC.

*Type 2 tags* (`Type2Tag_proofs`).  `NumbersIInv` ties `current_page` to what is left
of `uri_len` (`4 * current_page + uri_len` is constant while text is written) and
says that a read is only under way on a tag that fits the buffer.  From it
`WritesStayInside`, also for lengths that wrap, and `ReadGetsOn`: 1024 bytes are few
enough for a byte to number the blocks.  `WholeIInv` adds that the pages before `current_page` hold
their part of the record, from which `SuccessIsWhole`.  `ReadIInv` says that the blocks before
`block_num` are in the buffer as they are on the tag, whatever was there before;
with `LoopBound`, that the loop ends at or past its bound, it gives `ReadsAreBack`.

*Atomic FIFO* (`AtFifo_proofs`).  Positions are compared by their distance along
the ring (`Dist`), about which five lemmas say all that is needed.  `Room` says
that the arcs from `head.wr` over `head.rd`, `tail.rd` and `tail.wr` do not close
the circle; `PutsPart` and `GetsPart` place each call in hand on its arc in the
order of the stack, the outermost at its beginning.  From these `OneOwner` is
`SlotsOwned` for any size of ring and any depth of nesting, and `OneSlotFree` why a full
ring differs from an empty one.  `RingIsAQueue` is the refinement
`ImplementsQueue`.  The queue's three sequences are runs of slots, which grow at their
end (`RunAppend`), lose their head (`RunTail`) and join (`RunJoined`);
`PromisedPart` says that a claimed slot holds its put's item or is promised it, so that
filling it changes nothing the queue shows; and every action is then one of the
queue's, or a stutter, as when a call that interrupted another ends (`MapStep`).

*Flash data storage* (`Fds_proofs`).  Theorems of every behaviour in which
fstorage gives no operation up, and one, `FdsTypeOK`, of every behaviour there is;
once an operation is given up words are spoiled, which is what
`storage_timeout` shows.  So `IInv` is `timeouts = 0 => Good`, with any number of
power cuts, pages, records to a page, files, keys and queue elements.  `Good` has three parts.
`FlashOK` is about the flash alone: every page is used from its first slot on, at
most one is tagged as swap and not all as data, and no two records a reset would
find share an id or a request.  A swap page counts only while another page is
untagged (`Alive`), which is the reason why a cut in the middle of a collection neither doubles
nor loses a record.  Since power may go at any word, `FlashOK` holds of every
stage of every flash operation (`StageEffect`), and a boot relies on nothing else.
`OnOK` is what RAM knows: each physical page has one role (`Roles`); numbers and
ids handed out are on no other record (`NumbersOK`); the space reserved covers
what the queue will write (`SpaceOK`); and for the operation in hand, how far it
has come (`WritingOK`, `DeletingOK`, `TokOK`, `GcOK`, `InstallOK`).  `GcOK` is the
heart: until the collected page is erased, the swap page holds copies of what was
valid up to `src` (`CopiedUpTo`) and nothing else; once it is erased, they are the records.
`ModeOK` says which of these a phase entitles to.

`Effect` names what a flash operation may do to the records: nothing, the record
at the head of the queue appears (`Commits`), or one the head asks to have removed
goes (`Removes`).  `StepEffect` extends it to every action; with what the queue asks
for it is the step of `RecordStore`, so that `FdsKeepsRecords` is the refinement.
`FdsUpdateNeverLoses`, `FdsReadableIsStored`, `FdsUniqueIds`, `FdsOffsetsErased` and
`FdsNothingReturns` (what is gone stays gone) follow, and `FdsNeverFails`: no power cut, wherever it
comes, leaves pages that `pages_init` refuses to install.

`FdsTypeOK` (in the last section of `PeerManager_proofs`; it is about `Fds` with any
client and uses no assumption of `PeerManager`) needs an invariant of its own, `LooseInv`: what is left of `Good` when
operations are given up, any number of them.  Records may be lost and words
spoiled then, but the storage stays within its pages: the slots in front of a write offset have
been used, none behind it has a finished record (`Within`), whichever of the two
offsets `page_offsets_update` chose; the operation in flight leaves a page like that
(`Outcome`, `LooseStages`); space reserved and offset never exceed the page
(`SpaceOK`), and a collection copies no further than it reads (`GcReached`: `swap.offset <= gc.src`),
which also holds of one that was left half-way and is resumed by the next `fds_gc`.
The proof follows the scan of `pages_init` again (`LooseScan`), since a reset may meet
any of these pages.

`pages_init` is a loop; what it returns is proved by induction over the pages
(`ScanEnds`), in a form the prover has: `SetInduction` gets induction over a set
from well-foundedness, and `ScanDef` unfolds the recursive function by
`CHOOSE`.

*Peer manager* (`PeerManager_proofs`, which extends `Fds_proofs`).  `PInv` is
`timeouts = 0 => Good /\ PeerOK`, for any number of peers, buffers, queue elements,
pages and resets.  `PeerIsStep` makes every step of the peer manager a step of the
storage, given `PeerOK`: the one thing fds takes from its client is that no second
collection is asked for (`Collecting`), and that is what `flash_cleaning` is for.
It is set only after `fds_gc` has returned, when the collection may already have
run to its first flash operation, so `CollectOK` has to say where the assignment
can still be outstanding: `Cleans` is the flag, or the agenda item that sets it, in
front of its agenda; and an agenda that is still to call `fds_gc` waits behind a deletion
that cannot have ended (`DeletesFirst`), or the event in between would start a collection of
its own.  `AgendaOK` gives the agendas their shape, and every store a buffer that is not
free; `StageOK` says what `main` has done by each stage; `BuffersOK` and `RanksOK` that what
waits for an event is in the queue of fds with its token, and not the operation whose event
has been heard; `PeersOK` that a peer to be deleted keeps its id, unless `peer_id_free` is between its two
flags (`UnmarkOK`).  One lemma per
action (`DoStoreBond`, ..., `DoReset`) keeps them; `GoodStep` of `Fds_proofs` keeps the rest.
From `PeerInvariant` follow `PeerTypes`, `PeerCollectsOnce`, and what fds promises, under this
client: `PeerKeepsRecords`, `PeerUpdateNeverLoses`, `PeerNothingReturns`, `PeerReads`.

`pds_peer_data_store` looks the record up when a rank or bond comes, and fds uses
its id when the queue has got to the update.  `AimOK` says what that id is worth in
between: it was handed out before, and any record in flash, or still to be written, that has
it is of the update's own peer and key (`Aims`).  `PeerAims` proves it beside `PInv`,
step by step of what the queue does (`SameOp`); with it a removal by update takes a record
of the key it writes, and there is another of that key, so that `PeerBondsOutlast` leaves
only "delete file" of the peer itself.

Only model-checked: `PeerTypeOK` after a flash operation was
given up (until then it is `PeerTypes`); `HandlersFreeEmpty`, which needs the records
of the file that a deletion has passed,
of which the invariant of `Fds` says nothing; `KeepsBonds`, which says beyond
`PeerBondsOutlast` that the peer whose file goes is still marked, and so needs the order in
which the stores and deletions of one peer are queued; and liveness (`Connectable`, `ServesCard`,
`CallsReturn`, `Installs`, `EraseEnds`, `Freed`, the fair parts of `ImplementsDoor` and `ImplementsExchange`),
which is outside the prover's reach.

## Not modelled

The SDK and SoftDevice other than named above; static set-up of GAP, GATT and
the characteristic; queued writes; the security procedures of the peer manager,
its identity and GATT cache managers, and its data other than bonds and ranks;
reservations (`fds_reserve`), the CRC of records, which `sdk_config.h` leaves
off, and lengths of records; the flash driver beneath fds, whose operations are
done, given up or cut; pins (the
controller writes the output level of pins 27 and 28, which `gpio_config` leaves
as inputs; the models speak of the level written) and I2C set-up; logging;
power management; the software UART; Type 4 tags, the bytes of frames and their
checksums, and what is made of the content of a tag once it is in the buffer.
The rest of the repository is the vendored SDK: headers of register fields,
drivers, stacks and libraries this program does not link, or links without state
of its own.

## What could follow

1. A module that composes `PeerManager` with `BleLink`, so that the outcome of
   the deletion is no longer a choice there, and one of main, both interrupts
   and the pins over the modules above; `CardReader` over `Exchange`.
2. The walk over TLV blocks in `t2t_data_analyze`, the frames' lengths and
   checksums modulo 256, and `is_conn_params_ok`, against reference definitions.
3. Theorems: `HandlersFreeEmpty`, from an invariant of `Fds` that says which
   records of the file a deletion has passed; a bound on the event queue
   of `BleLink`.
