# Verification of the reSpeaker firmware samples

TLA+ models of the programs in this repository, TLC runs that check them on
small instances, and theorems about eight of the models that the TLA+ proof system
checks for every value of their constants. `PROJECT.json` holds the
same information for tools: which lines of the source a definition stands for,
what each run checks, and for every checked property a plausible bug (a mutated
definition, commented `Mutant:` in the modules) that makes it fail.

Paths below are relative to `src/`.

## 1. The system

The repository is a set of independent Zephyr applications for one board and a
module of drivers for it. There is no program that contains all of them, so the
models form several families, one per application.

| component | source | state it keeps | operations | status |
|---|---|---|---|---|
| gesture driver | `driver/custom_driver_module/drivers/input/button_gesture_gpio.c` | flags `pressed`, `armed`, `long_sent`, `tap_pending`; three time stamps; three delayable work items | edge interrupt, debounce, long press and tap finalisation handlers, boot, callback registration | modelled, proved |
| button wrapper | `driver/app/src/button.c` | message queue of eight events | gesture callback, purge, poll | modelled, proved |
| recording pen UI and `main()` | `driver/app/src/main.c` | scene, recording mode, LVGL timers, visibility of the widgets | scene changes, reaction to events, boot, tick timer | partly modelled, proved |
| SoftAP | `wifi/wifi_softAP/src/main.c` | station table, `ap_running`, time of last activity, idle work item | start, event handlers, idle check, shutdown | modelled, proved |
| USB mass storage | `dfu/usb_msc/src/main.c` | the disk, the mount and its flags, the USB device | boot scan, scan on button press, host access, reset | modelled, proved |
| throughput client | `wifi/Wi-Fi_speed_test_54LM20_7002EB2/src/main.c` | semaphore, connected flag, upload session | wait for the network, upload, result | modelled, proved |
| Bluetooth LE server | `bt/bt_battery_server/src` | advertising work, connection objects, attribute values | connection callbacks, attribute handlers | modelled, proved |
| OLED driver (CH1115) | `.../drivers/display/custom_OLED_Display_128X64` | suspended flag; what the panel shows and whether it is lit | initialisation, writing a picture, blanking, power management | partly modelled, proved |
| pre-LVGL UI | `driver/app/simple_ui.c` | scene, columns of the scrolling bars, volume | scene switch, animation step, drawing | partly modelled, proved |
| SD card driver | `.../drivers/storage/custom_sd_spi_sdmmc` | card type, mutex; mode and content of the card | initialisation, single and multiple block transfers | partly modelled, proved |
| SD card example | `.../examples/sd_card_example.c` | none | mounts, formats, writes and lists files once | not modelled |
| RTC demo, USB DFU, power management, Python tools | `driver/app/rtc_demo.c`, `dfu/usb_dfu`, `pm`, `*/tools` | next to none | straight-line code | not modelled |

How they interact:

* An edge interrupt restarts a timeout of the kernel; the timeout queues a work
  item on the system workqueue; the handler reads the pin, cancels and restarts
  the other items and calls back into the button wrapper.
* The wrapper puts events on a message queue without waiting. The main thread
  runs LVGL, whose 50 ms tick timer drains the queue into the user interface.
* In the network samples the `net_mgmt` event thread, the system workqueue and
  the main thread share plain variables; only the station table has a mutex.
* The USB sample shares sectors between a host and its own file system.
* The pre-LVGL user interface sends whole pictures to the OLED driver and does not
  look at the result; power management may blank the panel between two pages.
* Any thread may call the SD driver; each call holds its mutex from the command to
  the end of the transfer. The card goes on programming after the mutex is free.

What is hard in this code, and what makes each part correct:

| part | hard | correct when |
|---|---|---|
| gesture driver | a timeout that has already queued its item when the handler that should stop it runs; a pin that bounces, cannot be read, or is read late; 32-bit uptimes that wrap; a button that is down at boot | every press is reported once, as what it was, in bounded time; nothing is reported that was not pressed |
| wrapper and UI | gestures that arrive during boot and while the queue is drained; a full queue; an LVGL timer that cannot be created | the screen follows from the presses, presses may be lost but not invented or used twice, a recording is always visible |
| SoftAP | events, the idle check and `main()` interleaved; a full station table; requests that fail | nobody is cut off, an unused access point goes down, no sooner than configured |
| USB | scans on two threads, a host that writes meanwhile, resets and failing mounts | one master of the disk at a time; only a boot scan may format; the drive comes back |
| throughput client | a network that comes and goes around the semaphore, or came before anybody listened | the test is run for a network that came and stays, and not before it came |
| OLED and pre-LVGL UI | transfers that fail between two pages, suspend and resume at any moment, a picture that takes longer than a tick | a torn picture is newer at the top, bars stay apart, a lost picture is made good and seen |
| SD driver | a card that is busy, refuses data, is pulled, or still waits for a stop token; threads that queue for the mutex | a successful call did what it says, to its own blocks, and leaves the card ready for the next |
| BLE server | advertising asked for at a moment when no connection object is free | the device can always be found again |

The full list, with the line each hazard bites at, is `hazards` in `PROJECT.json`.

## 2. Plan

Done, in this order: the gesture driver with its abstract specification and its
proofs; the recording pen above it; the SoftAP; the USB, throughput and Bluetooth
samples; the scrolling bars of the pen (`RecBars`); the OLED driver and the
pre-LVGL user interface (`Ch1115`, `SimpleUi`); the SD card driver (`SdCard`,
`SdSpi`); calls that fail without the code acting on it, in `UsbMsc` and
`BleServer`; proofs about `SimpleUi`, `UsbMsc`, `ZperfClient`, `BleServer`, `SdSpi`, `SoftAp` and
`RecordingPen`.

Left, modules:

1. `GestureBoot`: the steps of `bg_init()` one by one, rather than the states they
   can leave.
2. `SoftAp` with a bounded `net_mgmt` queue that loses events.

Every invariant and action property of a passing run has a theorem. Left, theorems: what
`GestureBoot` will need, and how much of `NoStaleEntry` survives a lost event.

## 3. Modules

No module declares a RECURSIVE operator, so theorems can be added to each. Each
has an MC module (`MCButtonGesture`, ...) that the configurations instantiate.

### GestureLedger and ButtonGesture

`GestureLedger` is what a button driver owes its user, with no clock, timer or
queue: a debounced press is entered as a credit, and each gesture pays for
credits; DOUBLE for two, LONG while the button is still down.

`ButtonGesture` is the driver. One action per handler: `gpio_isr`,
`edge_work_handler` (which calls `handle_press_edge` or one of the six ways
through `handle_release_edge`), `long_work_handler`, `tap_finalize_handler`, and
`Tick`, a millisecond. The workqueue thread is cooperative and nothing in the
handlers blocks, so a handler is one step. The pin may move between any two
steps.

* Time stamps are kept as ages (`edge_age` is now minus `last_edge_ms`): the code
  only ever uses differences. With `UptimeWraps` an old age may start again at
  0, as a difference of 32-bit uptimes does after 2^32 ms.
* `timer[w]` and `queued[w]` are the two ways a delayable work item may be
  pending. `k_work_reschedule()` restarts the timeout and leaves a queued item
  on the queue; `k_work_cancel_delayable()` clears both. This difference is
  where the interesting behaviour is.
* `Jitter`: the kernel rounds a timeout up to ticks and `k_uptime_get_32()`
  rounds down. `MaxStall`: how long a queued item may wait for the thread.
* `Init` is the set of states `bg_init()` can leave behind, including a button
  down at boot and a debounce delay started before the level was read.

### PenRemote, PenUi and RecordingPen

`PenRemote` is what the one button means to the person holding the pen. `PenUi`
is the user interface: for each scene the widgets that are shown and the timers
that run, and the reactions of `ui_tick_cb()`. LVGL runs on one thread, so a
scene change is one step. `lv_timers` counts the timers LVGL has on its list,
`ui_timer` the pointers the program holds; a leak shows as a difference.
`RecordingPen` composes it with the wrapper and with the gesture driver *at its
word*: the driver is `GestureLedger`, which `ButtonGesture` is proved to
implement. A gesture may arrive between any two steps of the main thread, also
between two callback registrations and between two events it takes.

`PenDevice` puts the driver itself, `ButtonGesture` with its interrupt, work items
and clock, below that application: a handler that reports a gesture appends its
event in the same step, as `emit()` calls the callback from the handler. It adds
no variable. It has no run of its own: that the application then behaves as
`RecordingPen` says is proved for every value of the constants
(`AppRunsOnDriver`), so the safety that `bg_safety` and `pen` check apart holds of the whole.

`RecBars` is the row of bars of the recording page and runs inside `PenUi`. Each
tick of `bars_timer` moves it by a pixel, puts a row that has moved by a whole pitch
back while the heights are handed on, draws a new volume and then the picture.
`Width`, `Left` and `HalfOf` are that picture, with the rounding of its divisions:
dots on the right half, on the left bars whose width follows the volume, which are
moved to the middle of their pitch cell, and whose height grows away from the centre and follows
the volume too. `BarsScroll` is about what is drawn: the cells move by a pixel also
when the row is put back, a dot by exactly one, and the middle of a bar by one give or
take the half pixel that the recentring rounds away ("so width changes don't cause jitter",
447). What it does not promise is what the code does not do: heights rise and fall with the
volume, and a dot that crosses the centre turns into a bar further right in its
cell (with the configured sizes its middle goes back by half a pixel or one), because
only bars are recentred.

### SoftAp

Actions follow the three threads. `main()` is split where another thread may
run: between the enable request and `ap_running = (ret == 0)`, between that and
the time stamp, and before the first idle check. A station event is two steps:
the time stamp, then the table under the mutex. The idle check is one step up to
its first blocking call and `disable_softap()` ends in a second one. The driver
and the stations are the environment (marked external in the map).
The Wi-Fi driver answers when it likes. Two variables are histories: `empty_for`, how
long nobody was associated, and `late`, that the idle check asked the driver to stop
before its answer to the start was handled.

`News` are the events the table has not seen, the one under way included, and
`Unseen(s)` the places in it that are about station `s`. `TableFollowsEvents` says that
along these places arrivals and departures alternate, from the opposite of the
station's entry to where the station is now.

### UsbMsc

`firmware_scan_once()` is a sequence of stages, run by the main thread at boot
and by the workqueue after a button press. `disk` survives `Reset`; everything
else starts again. While the host writes, or a file system is being made, the
disk is `torn`. Mounting, unmounting, `usbd_disable()` and `usbd_enable()` may each
fail; the history `failed` names those whose last call failed, and the properties say
how far each failure reaches, since the code prints it and goes on.

### ZperfClient and BleServer

`ZperfClient`: `L4Disconnected` models `k_sem_reset()` completely, including
that it aborts a `k_sem_take()` under way. The network may change at any moment,
also before the callback is added (`early`, a history, as is `seen`). `BleServer`: a connection object goes
from free to connected to closing and becomes free only when the stack recycles
it; advertising needs a free one. A request may also be refused although
an object is free (`refused`, a history), which nothing tries again. The battery callback returns `uint8_t` and is
called through a pointer to a function returning `bool`; the model lets the
caller see either the level or 1.

### Ch1115 and SimpleUi

`Ch1115` is the driver together with what the panel shows. A page of the panel is
known by its *age*: how many pictures have been rendered since the one it shows a
part of. A write goes page by page and stops at the first transfer that fails; a
transfer that fails may have reached the panel or not. Suspend and resume come from
outside: `prj.conf` enables `CONFIG_PM_DEVICE` and nothing in the application calls
it. `pm` is a history: what the last power management request returned to its caller.
After one that failed nobody knows whether the panel is lit; `PicturesRecover` says
what follows once one was reported as done.

`SimpleUi` is `main()` of `simple_ui.c` above it. A column is known by the
height of the bar that stands at it, `since` counts ticks to the next switch of the page,
and a turn of the loop takes up to `MaxDelay` ticks. One thing the model made
visible: the comments at `simple_ui.c` 36 and 632 speak of a switch between INFO and
recording, but `scenes[]` holds REC and QR, so that INFO is shown once and never
again.

### SdCard and SdSpi

`SdCard` is the card and external: what a card of each kind answers to the commands
the driver sends, in the mode it is in. Its header lists what is assumed. A block the
card has accepted is on the disk, and in `unsaved` until it is programmed: until then a
programming error or a pull may spoil it, which only CMD13 would tell and the driver never
sends. The card may be
absent, of any kind, busy after every block, refuse a block, and be pulled and put
back (`"deaf"`: without initialisation it does not answer).

`SdSpi` is the driver: the stages of `sd_spi_init()`, then per thread a call from
the mutex through command, blocks and stop to the return. A wait for a busy card
either ends or is given up. `Word` is the width of the retry counter, which wraps
when the last try fails. `stranded` is a history: the stop token of a multiple block
write was not sent because the card stayed busy.

What reading and checking it showed, besides the run `sd_last_block`:

* The branch for version 1 cards (315-331) cannot be taken: an idle card answers
  CMD8 with the idle bit set (0x05), and the code compares with 0x04 alone. Such a
  card is initialised as a version 2 card or not at all; `TypeCorrect` of
  `SdSpiProofs` contains that it is never *taken* for version 1.
* A busy card holds the line low, and its zero bytes read as an R1 without an error:
  a command right after a write may be lost while the driver goes on to wait for
  its data, and the call fails with EIO. It never succeeds wrongly (`ReadIsCurrent`).
* A stop token that waits for a busy card in vain is not sent at all, and the card
  takes the blocks of the next multiple block write as the continuation of the
  old one. `TransferClosed`, `WriteLands` and `OwnBlocksOnly` exclude exactly this.
* Success is reported when the card accepts a block (180-188, 455): the driver neither
  waits until it is programmed nor asks. A card pulled in this window, or one that fails to
  program, loses a block that was reported as written. `WriteLands` is therefore about
  acceptance: the block is at its place or was spoilt by the card while unsaved.
* The capacity (abstracted) is taken from CSD bytes in the wrong order and
  multiplied in 32 bits; `DISK_IOCTL_CTRL_SYNC` does not wait for the card.

## 4. Runs

| run | shows | bounds |
|---|---|---|
| `bg_safety` | the driver's timeouts belong to its flags and stamps, gestures come in bounded time, LONG is never early, and it implements `GestureLedger`, with failing reads and a wrapping uptime | debounce 2, tap 3, double click 6, long press 5 ms, jitter 1, stall 2 |
| `bg_live` | with reliable reads no edge is lost; the driver settles on the button's level; each press is reported | debounce 2, tap 3, double click 4, long press 5 ms, jitter 1, stall 1 |
| `bg_early_single` | *violated:* SINGLE no sooner than `double-click-ms` | debounce 1, tap 2, double click 3, long press 4 ms, jitter 1 |
| `pen` | screen, scene and timers agree; the bars as drawn scroll by a pixel in their cells; the pen implements `PenRemote`; a queued long press is served | queue of 3, timers may fail; 4 columns, 2 bars, pitch 4, widths 1 to 3, two heights, volumes 0 to 2 |
| `softap` | the table follows the air; the idle manager lives; nobody is cut off; not turned off early; turned off in the end, also when the driver answers late | 3 stations, table of 3, idle timeout 3, period 2 |
| `softap_table_full` | *violated:* nobody is cut off | 2 stations, table of 1 |
| `msc` | one master of the disk; formatting at boot only; nothing but the host changes an offered disk; the drive comes back: each but for the failed request it names | mount, unmount, enable and disable may fail; resets |
| `zperf` | a connection that has gone does not let `main()` through; it waits for a report; a network that comes, is reported and stays gets its upload, whatever it did while `main()` waited | 5 unhandled changes of the network |
| `ble` | the device never ends up neither advertising nor connected with nothing under way; it can be found again; but for a refused request | one connection object, full battery 4, requests may be refused |
| `oled` | a torn picture is newer at the top; bars stay apart; lost pictures are made good, and seen once the panel is reported awake | 3 pages, ages to 2, 6 columns, gap and widths 2, pages switch every 3 ticks, turns of 1 or 2 ticks |
| `sd` | transfers are closed; reads are current; the card has taken what is reported as written, but for the last block of several, and loses it only by not saving it; no call touches blocks of another | 3 blocks of 2 bytes, 2 threads, 2 tries, words of 3 bits |
| `sd_last_block` | *violated:* a write that reports success has written all its blocks | as `sd` |

Why these bounds are enough:

* In the driver, only the order of the delays and the distance at which an age
  passes a delay matter. With a debounce of two milliseconds an edge can come
  while the item of the one before is due or queued, so that the handler runs with an
  age below the delay and takes its early return (159), on which `EdgeNeverLost` rests;
  with one millisecond that never happens. `MaxAge` is one more than the oldest age a live timeout
  can have, so that every comparison in the code is decided below it. `bg_safety`
  has the long press shorter than the double click so that a long press can
  catch up with a tap before it; the other runs have the usual order. A stall of
  2 ms lets all three items be queued at once and an age pass a delay meanwhile.
* The code looks at the head of the event queue and at whether it is full. Three
  slots give a head, something behind it and an overflow; the code's eight slots
  add states of the same kind.
* Bars need a screen with columns on both sides of the centre, a pitch with room for an
  odd and an even rest around the bar, and a volume between none and full. Two bars
  and two heights show whether a height is handed on.
* Three stations give one that joins, one that leaves and one that stays. The
  idle timeout is longer than the check period and no multiple of it, so checks
  fall on both sides of it. `MaxEvents` bounds what the *stations* cause before
  one event is handled; `MaxLag` how long an event waits. The answer to a request
  may come at any time, also after the idle timeout.
* `UsbMsc` and `BleServer` are finite as they stand. The network of `ZperfClient`
  may change five times ahead of the event thread, more than the semaphore (of
  limit 1), the flag and `main()` together can remember.
* Three pages give a first, a last and one between; an age of 2 tells the current
  picture, the one before it and older ones apart, which is all an interrupted write
  can mix. Six columns hold two bars and the middle of the screen, where dots turn into
  bars. Two heights or one make no difference to where bars stand.
* Three blocks let a call start and end inside the card and two calls overlap. Blocks
  of two bytes tell a block number from a byte address. Each thread writes its own
  content, so that whose data a block holds can be seen. Two tries reach the last
  one, and a word of three bits the wrap after it.

CHECK_DEADLOCK is on but in `oled` and `sd`: `main()` of the user interface returns
when the panel is not ready, and an initialisation of the SD card that failed
leaves nothing to do. In the other runs the environment may always do something.

What the violated runs show (`findings`):

* `bg_early_single`: the branch for a late second tap (`button_gesture_gpio.c`
  140-145) rearms the finaliser for the new tap with `k_work_reschedule()`. With
  a jitter of one millisecond every state that reaches this branch has the old
  finaliser already on the queue - that is why the tap is late - and it stays
  there. It runs next, finds the flag of the *new* tap and reports it at once as
  SINGLE, so that a third tap right after it can no longer make a double click.
  The binding promises `double-click-ms` between two taps.
* `softap_table_full`: a station that finds the table full is associated but not
  tracked; once the tracked ones have gone the idle check sees none and disables
  the access point under it.
* `sd_last_block`: for the last block of several, `sd_spi_write_blocks()` hands the
  stop token to `sd_spi_send_block()` as its start token, and that function sends no
  data with a stop token and returns 0. The last block is never written.

Four more things the models know and the properties name: an edge that finds the
debounce item already on the queue is sampled without its own debounce delay; if the
network is up before the callback of the throughput client is added, its event is
missed, and if it then goes, `k_sem_reset()` ends the wait and the upload starts
(`early` in `WaitsForNetwork` and `TestIsRun`); the upload is tried once, so that a network
that drops in the settle delay gets none even if it comes back to stay (a hypothesis of
`TestIsRun`); if the start of the access point is
answered after the idle check has already stopped it, `ap_running` is set with no check
to follow (`late` in `IdleManagerAlive`), until the interface's going down ends that
(`IdleApGoesDown`); a `usbd_disable()` that fails leaves
the disk with two masters for that scan, an `fs_unmount()` that fails until a reset
(`failed` in `OneMaster`).

## 5. Fairness

* `ButtonGesture`: time passes, and the kernel runs what is on the workqueue
  (weak fairness of `RunWork` as a whole). Nothing is assumed about the button.
  The workqueue is first in, first out in the model, so no fairness per item is
  needed. `Settles` and `Reported` are checked with reliable reads: the code does
  not retry a failed one.
* `RecordingPen`: the main thread is not starved. It is preemptible but the
  workqueue blocks between edges. `LongPressServed` assumes the tick timer
  exists, whose creation the code does not check.
* `SoftAp`: each thread is scheduled, time passes, and the Wi-Fi driver answers
  and lets the stations go when it stops; stations need do nothing.
* `UsbMsc`: both threads are scheduled. Nothing is assumed about host, button or
  reset, and `DriveComesBack` ends at a reset or at a failed `usbd_enable()`.
* `ZperfClient`: both threads are scheduled and an upload ends.
* `BleServer`: the workqueue runs and the stack recycles an object that is down;
  no central has to come or go.
* `SimpleUi`: the main thread is scheduled. `PicturesRecover` takes a bus that works
  and a panel that stays active *from some time on* as its hypothesis, not as fairness.
* `SdSpi` has no liveness property: a call may wait for the mutex as long as others
  keep it (`K_FOREVER`), and nothing in the code bounds that.

## 6. What is proved

Each `...Proofs` module extends the module it is about and assumes only the named
assumption on that module's constants.

### ButtonGestureProofs

`ButtonGestureProofs` extends `PenDevice`, and with it `ButtonGesture`. From
`ConstantsAssumption` alone
(positive delays in any order, any jitter and stall, and `MaxAge` beyond the
latest moment a timeout can be served):

| theorem | states |
|---|---|
| `TypeCorrect` | `Spec => []TypeOK`: in particular no timeout and no wait exceeds its bound |
| `Invariance` | `Spec => []IInv` |
| `LongPressIsWatched` | the long press item is live exactly while an unreported press is down |
| `TapIsWatched` | a pending tap has its finaliser coming |
| `GesturesAreInTime` | a press is reported within `LongMs + Jitter + MaxStall`, a tap within `DoubleMs + Jitter + MaxStall` |
| `TimeoutsStayTrue` | a timeout under way is that of the press now held or of the last tap, and ends its delay after that began |
| `LongIsNeverEarly` | LONG only for a press of `LongMs` |
| `LedgerIsKept` | `ButtonGesture` implements `GestureLedger` |
| `SingleIsNotEarly` | with `Jitter = 0` and `MaxStall = 0`, the finaliser never reports a tap before `DoubleMs` |
| `EdgesAreKept` | with `~ReadMayFail` and `~UptimeWraps`, an early return of the edge handler is never the last look at a changed level |
| `AppRunsOnDriver` | `DeviceSpec => AppIsKept`: above the driver itself the application is the one of `RecordingPen` |
| `PenKeepsRemote` | driver and application together implement `PenRemote`, and a recording is always to be seen; from the assumptions of `RecordingPen` on its own constants |

The inductive invariant is `IInv == TypeOK /\ Coherent /\ TimeoutsAgree`.

* `Coherent` relates flags to live items. `LongPressWatched` and `TapWatched` are
  not inductive on their own: one needs `SilentUntilArmed` (a button down at boot
  has no press to watch, so that its release finds nothing to cancel) and
  `LongQueuedOnce` (a queued long press item has no second timeout behind it, so
  that running it ends the watch).
* `TimeoutsAgree` relates running timeouts to the time stamps: age plus what is
  left of the timeout is the delay, up to `Jitter`. It is what makes a live
  timeout the one of *this* press or tap and not of an earlier one. For taps it
  says less when the item is queued than when it is running, because of the late
  second tap described above. The wrap of the uptime enters here: an age that
  may start again has reached `MaxAge`, which no live timeout allows.
* The bounds of `ReportedInTime` and `LongNeverEarly` follow from `TimeoutsAgree`.
  The refinement needs `Coherent` only: each handler maps to a step of the ledger
  with `credit` the number of presses down or pending, or to `Quiet`.
* `EdgeNeverLost` is itself inductive relative to `IInv`.
* `AppRunsOnDriver` instantiates `RecordingPenProofs` with the driver's ledger for
  `held` and `credit`: a step of a handler is a step of the ledger (`LedgerNext`), and
  with the event it appends it is `DriverStep`. The theorems about `RecordingPen`
  are then about the pen, hence `PenKeepsRemote`.
* `SingleNotEarly` is false in general (`bg_early_single`). On an exact clock
  `TimeoutsAgree` makes the late second tap impossible, so that a finaliser lives
  only as long as its tap (`FinaliserIsOfTap`, inductive relative to `IInv`).

### SimpleUiProofs

For every width, height, spacing, thickness and volume range with thickness at most the
gap (`SimpleUiAssumption`):

| theorem | states |
|---|---|
| `TypeCorrect` | `Spec => []TypeOK` |
| `BarsStayApart` | bars never run into each other, at any volume |
| `PagesStayInOrder` | a torn picture is newer at the top |

`BarsApart` needs that two bars are more than `SpawnGap` columns apart, and that the
newest is as far from the right edge as the countdown has run (`BarsInv`): only then is
the next one far enough. `PagesInOrder` needs that while a picture is being sent, the
pages above the current one show it and the pages from there on do not show anything
newer (`OrderInv`).

### UsbMscProofs

Whichever of the four requests may fail:

| theorem | states |
|---|---|
| `TypeCorrect` | `Spec => []TypeOK` |
| `OneMasterAtATime` | the FAT is not mounted with USB on, unless the last disable or unmount failed |
| `FormattedAtBootOnly` | a drive that has been offered is never formatted |
| `HostWritesOnly` | an offered disk is changed by the host alone |

The invariant `IInv == TypeOK /\ Phases /\ FlagKept /\ MasterKnown` ties the stage of
each scan to the place of `main()` (the two scans never overlap, because the button is
enabled after the scan at boot), the saved flags to the flag they will restore, and a
mounted FAT to the stage it is mounted in or to a failed unmount.

### BleServerProofs and ZperfClientProofs

| theorem | states |
|---|---|
| `TypeCorrect` (both) | `Spec => []TypeOK` |
| `NeverLeftAlone` | the device advertises, serves, is about to, or had a request refused; for any number of connection objects |
| `SemaphoreStaysFresh` | the semaphore never counts a connection that is known to be gone |
| `NetworkIsWaitedFor` | `main()` goes on only after a connection was reported, or when the network was up too early |

`NeverStranded` is inductive: every step that frees an object queues the work, and the
work finds a free object or the object is in use. `NetworkIsWaitedFor` needs that as
long as nothing has been reported, the next report is a connection (`FirstIsUp`): the
network was down when the callback was added, or had come up before.

### SdSpiProofs

For cards of any size and kind, any number of threads, tries and word size:

| theorem | states |
|---|---|
| `TypeCorrect` | `Spec => []TypeOK`: the driver never takes a card for version 1 |
| `OneCallAtATime` | a thread that is in a call holds the mutex, and no other is in one |
| `TransfersAreClosed` | between two calls the card is deselected and expects a command, unless a stop token was lost |
| `BlocksAreOwn` | a call changes no block but its own: block numbers and byte addresses are not mixed up, and nothing is left announced for erasing; a block changes otherwise only if the card took it and spoils it unsaved |
| `ReadsAreCurrent` | a read that succeeds returned what its blocks hold, for any number of them |
| `WritesLand` | every block of a write that succeeds was taken by the card at its place, but for the last of several, and is there unless the card failed to save it |

`IInv == Owners /\ Places /\ Modes` says who holds the mutex, that a card with
something unsaved is busy or waits for more (`Working`, so that what has been read
cannot be spoilt any more), that nothing has been
transferred before the command and nothing is stopped after a single block, and what
the card may be doing at each place of a call. The last is where the exits matter: a
single block leaves the card ready whatever its outcome, several need the stop.
`Targets` says where the card is: the address of a transfer is the one the card's
kind expects, the card is at the block the loop is at, and blocks announced for erasing
belong to the write that announced them. `Delivered` says how far a call has come: what
was read so far is what the card holds there, what was written so far is there or spoilt, and the
card erases only ahead of it. Nothing else may write these blocks meanwhile, because of
`Owners`.

The proofs have one step per action, and under it one per conjunct that the action
can disturb.

### SoftApProofs

For any number of stations, any size of the table and any timeouts, and an event queue
of any length:

| theorem | states |
|---|---|
| `TypeCorrect` | `Spec => []TypeOK` |
| `IdleManagerStaysAlive` | as long as the access point is taken for running its idle manager is under way, unless it overtook the answer to the start |
| `EntriesAreNotStale` | a station in the table is there once, and is on the air or has an event on its way |
| `TableFollows` | with `Room`, the table lags behind the air by the events not handled, and by nothing else |
| `NobodyIsCutOff` | with `Room`, the access point is turned off under no station whose events have been handled |
| `OnlyTurnedOffWhenIdle` | with `Room` and no event on its way, it is turned off only after a whole idle timeout without a station |

`Room` is `IsFiniteSet(Sta) /\ Cardinality(Sta) <= MaxStations`: an entry for every station.
It is a hypothesis and not an assumption on the constants because the code does not
ensure it: `softap_table_full` shows that `CutsOffNobody` fails without it. What is left
without it is `EntriesAreNotStale`, which no run checks: a table that is too small misses
stations but keeps none that has gone.

*The idle manager.* `main()`, the event thread and the first check race: the driver's
answer may set `ap_running` before or after `main()` does, and a check that finds it clear
never schedules the next. `IdleManagerAlive` is therefore not inductive; `StartIsSafe`
adds that until the answer has been handled the flag is not cleared by anybody and nobody
asks for the access point to stop, unless the check does (`late`).

*The table.* `Leads(q, s, T, A)` says that the events of a queue `q` about `s` lead from
being in `T` or not to being in `A` or not, alternating. It speaks of the places in the
queue and their order, so that no recursion over the queue is needed: the lemmas
`OwnAppended`, `OtherAppended`, `OwnTaken` and `OtherTaken` say what an event posted
at one end and one handled at the other do to it. The invariant `TableInv` is that no
station has two entries (`EntriesApart`) and that there is a *ledger* `T`, a table that
always had room, from which the news leads to the stations on the air; the stations in
`sta_list` are in `T`, and with `Room` they are all of it. When a station arrives that is
not in `T` and `Room` holds, it finds a free entry by the pigeonhole principle
(`EntryFree`): otherwise the other stations, fewer than the entries, would fill them
all without one being there twice.

*The clock.* `NotTurnedOffEarly` needs `ClockInv`: with nobody on the air, the idle time
exceeds the time since somebody was there only while the event of a station is still in
the queue, because every station event resets it when it is taken up.

### RecordingPenProofs

For any queue size, and any screen, pitch, bar widths, heights, volumes and number of bars that
fill the screen (`RecBarsAssumption`):

| theorem | states |
|---|---|
| `TypeCorrect` | `Spec => []TypeOK` |
| `ScreenFollowsScene` | the screen shows the page of the scene, and the mode in force |
| `RecordingStaysVisible` | a recording is seen by its bars or by the dot; no timer is leaked |
| `BarsMoveSmoothly` | `Spec => BarsScroll`: the picture moves by a pixel, a bar stays in its cell and at its middle whatever the volume, and grows unless the volume falls |
| `RemoteIsKept` | `Spec => RemoteKept`: the application implements `PenRemote` |

`Reactions` and the `Entering...` lemmas reduce the user interface to three scene
changes; `UiInv` is inductive over them because `RestartTimers` subtracts the timers the
program knows, which are all there are (`RecordingIsVisible`). The refinement maps the
presses not yet reacted to to the driver's credit plus what is on the queue, a double
press counted twice: `Queued` and `Taken` say what appending and taking an event does
to that number. It needs that nothing but the black scene is shown before the loop, and
of the driver only what `GestureLedger` promises, which `ButtonGesture` is proved to
keep (`LedgerIsKept`).

For `BarsMoveSmoothly`, `RowScrolls` says that the cell at a column is afterwards the one that
was a pixel to its right, with the same target height; `BarInCell` bounds where a bar of any
volume lies in its cell, and `BarsGrow` that its height is monotone in volume and distance
from the centre, both from what integer division preserves (`Quotients`).

### Only model-checked

On the instances above, the liveness properties (fairness and ENABLED are out of the
prover's reach): `Settles`, `Reported`, `LongPressServed`, `IdleApGoesDown`,
`DriveComesBack`, `TestIsRun`, `FoundAgain` and `PicturesRecover`. `TypeOK` of `SimpleUi`,
`SdSpi`, `ZperfClient` and `UsbMsc` is proved and no longer part of a run.

## 7. What is not modelled, and limits

* Widget geometry, drawing, glyphs, icons, log messages; the FPS test of `main.c`
  (53-195, not called by `main()`); the rate computation in the log of the throughput
  client.
* The order of the statements inside `bg_init()`: its possible outcomes are
  initial states.
* Calls whose failure the code only prints are modelled as failing, and the
  properties name the failure they do not survive (`failed`, `refused`, `pm`,
  `stranded`): the code has no recovery there.
* A lost `net_mgmt` event in the SoftAP sample: a hazard without a property.
* Of the OLED driver, contrast, pixel format, clearing and the frame counter; of the
  pre-LVGL user interface, the setters for time, mute, recording and volume. Nothing
  in the application calls them.
* Of the SD driver, the branch that cannot be taken (315-331), CID and `ioctl`, which
  change no state, and the capacity, which is only zero or not. The driver is not
  enabled by the application's configuration and cannot be built as it stands: it
  assigns through a pointer to const (246, 258) and its CMake file names a source
  that is not there. The model takes these assignments as meant.
* The SD card example: no CMake file builds it, and the disk it mounts is not
  registered by the driver. Its disk calls would be calls of `SdSpi`.
* The RTC demo, USB DFU and power management samples are straight-line code in
  one thread over libraries that are not in the repository; the Python tools run
  on a host and share no state with the firmware.
