# TLA+ models of tosca

This directory holds TLA+ specifications of the `tosca` workspace (`src/crates/`), and the
TLC configurations that check them. `PROJECT.json` lists:

- the components and the runs;
- the mutants that each property must catch;
- the map from every modelled definition to the source lines it translates;
- the findings and the hazards.

## 1. The system

| crate | parts | state and concurrency |
|---|---|---|
| `tosca-controller` | `Controller` (`controller.rs`), `Policy` (`policy.rs`), event subscription (`events.rs`), response parsers (`response.rs`); `device.rs`, `request.rs`, `discovery.rs`, `error.rs` are declared in `lib.rs` but not present | the registry, the policy, one tokio task per event subscription, a bounded mpsc channel shared by the fan-in tasks, broadcast channels, CancellationTokens |
| `tosca` | hazards catalogue, event/economy/energy data types, responses, route macros | data and builders |
| `tosca-esp32c3` | HTTP server (`server.rs`), light device (`devices/light.rs`), mDNS, Wi-Fi, broker, firmware examples | embassy tasks; the `light-with-events` example shares an overwriting `Signal` and an `AtomicBool` between the LED task and the request handlers |
| `tosca-drivers` | DHT22 and BH1750 drivers | bit-banged decoding, wrapping checksum, register bounds |
| `tosca-os` | MAC address lookup, error responses | I/O |

### How the controller's parts interact

The caller owns the `Controller`. Its `&mut self` methods are:

- `discover`, which replaces the registry;
- `change_policy`;
- `start_event_receivers`, which creates one `mpsc::channel(buffer_size)`. It spawns `run_global_event_subscriber` for each device that has events and no `event_handle`, and returns the receiver.

`shutdown(self)` walks the registry in order. For each device it cancels the token, then awaits the `event_handle` if there is one.

`device(id)` and `request(route)` borrow the Controller (`&self`). While a sender lives, none of the `&mut` methods can run. The `RequestSender` caches its skip decision, taken from `Policy` by `evaluate_privacy_policy`.

Every subscriber task loops over a `select!` between its token and `eventloop.poll()`:

- **Fan-in tasks** then await `send` into the shared bounded channel. They stop when the receiver is gone.
- **Fan-out tasks** (`run_event_subscriber`) send into a broadcast channel. They stop when no receiver is left, and otherwise sleep 100 ms.

### What is hard here

- Tasks interleave with each other, with the consumer and with the caller.
- A fan-in task's `send(..).await` lies outside the `select!`.
- The `?` in `start_event_receivers` leaves spawned tasks behind.
- `discover` replaces the registry under running tasks.
- Device ids are positional, and they key both the event payloads and the local policy.
- `shutdown` awaits only the handles it knows of.
- A broker connection error is handled like an ignored packet, and the subscription is made only once.

`PROJECT.json` "hazards" lists each of these at its line.

## 2. Modules

| module | models | state (VARIABLES) | actions |
|---|---|---|---|
| `Policy` | `policy.rs`, `DeviceSender::request`/`evaluate_privacy_policy` | none: pure operators over a policy record `[block_on_hazards, block_device_on_hazards]` | `PolicyInit`, `PolicyNew`, `BlockDeviceOnHazards` (HashMap insert replaces), `OnlyLocalPolicy`, `GlobalBlockedHazards`, `LocalBlockedHazards`, `EvaluatePrivacyPolicy`, `RequestSkip`; `BlockedByPolicy` is the spec's reference decision |
| `RequestGate` (EXTENDS `Policy`) | the request path of `controller.rs` | `registry` (sequence of physical devices; id = index), `policy`, `dsender`, `rsender`, `log` of sends (with the policy in force), `result`, `ops` | `Discover` (success or error), `ChangePolicy`, `Device` (three outcomes), `Request` (route lookup, then skip), `Send`, `SendWithParameters` (fallback when there are no parameters), `RetrieveResponse` (spec-modelled: `request.rs` is absent), drops of the senders |
| `ControllerEvents` | `start_event_receivers`, `discover`, `shutdown`, `events.rs` | `registry` of `[dev, token, handle]`, `tokens`, `cancelled`, `tasks` (per task: registry index, device, token, mode, channel, `pc`, `polled`, broadcast receivers), `chans` (capacity, queue, receiver state, delivered payloads), `ctl` (the caller's position inside a method), `calls` | `Discover`; `StartEventReceivers` split at every iteration of its loop (`StartSkipStarted`, `StartSkipNoEvents`, `StartSpawn`, `StartSubscribeFails`, `StartFinish`); `DeviceSubscribe` (`run_device_subscriber`); `ShutdownBegin/Cancel/Await/Done`; per task: `TaskCancel`, `TaskPollGlobal`, `TaskSend`, `TaskPollDevice`, `TaskWake`; consumer: `Recv`, `DropReceiver`, `Resubscribe`, `DropBroadcastReceiver` |
| `Firmware` | the `light` and `light-with-events` examples of `tosca-esp32c3` (`examples/*/src/main.rs`) | `led`, `ledPc` (the `change_led` task), `notifyLed` (the `NOTIFY_LED` Signal slot), `toggleController`, per client handler `[pc, input]`, `button` (the `press_button` task), counters, `lastDone`, a history variable holding the last command that finished, and, for the light example, `toggleSeconds` (`TOGGLE_SECONDS`), `ledSeconds` (the period of `change_led`'s current pass) and `lastSeconds` (history: the period the last toggle request set) | `NotifyLedBegin`/`NotifyLedEnd` (`notify_led` split at its timer), `TurnLightOffBadParameter`, `Toggle`, `ToggleWithParameters`, `ToggleWithParametersBadParameter`, `PressButton`/`ButtonSignal`/`ButtonRearm`, `LedReceive`, `LedToggleStep`, `LedToggleExit`, `LedPause` |
| `ServerRoutes` | the `Light` builder (`devices/light.rs`) and the request handler of `server.rs` | `routeConfigs`, `indexArray`, `functions` (the six function vectors), `calls` (the builder calls made), `phase`, `served` (the response to one request) | `AddRoute` (typestate order: on, off, then routes), `Build`, `Serve`. `Handle`, `AnalyzeRoute`, `ScanRoutes`, `ParseGetParameters`, `ParseHeadersParameters` and `RunFunction` are operators. A path is a sequence of tokens, `"/"` or a word, and `SplitTerminator` reproduces `split_terminator` on it. `Serve` also chooses what the handler's future resolved to (`Outcomes`: Ok, Err, or a value serde_json cannot write) and records the status, Content-Type and body kind that `response.rs` writes (`Written`, from `Headers`, `json_to_response`, `ErrorResponse` and the `From<Result<..>>` impls). `FuncBody` is the body type the `server.rs` function aliases fix, and `ResponseKindOf` is the kind each `*_route` method advertises |
| `Hazards` (instantiated by `ServerRoutes` as `Hz`) | the hazards catalogue of `tosca` (`hazards.rs`) | none: constant tables | `Hazard`, `Category`, `ALL_HAZARDS`, `ALL_CATEGORIES`, the three arms of `category`, `id` and `from_id` as tables of their match arms, `Category::hazards`, `data`. Names and descriptions are text and are left out |
| `Bh1750` | the BH1750 driver of `tosca-drivers` (`bh1750.rs`) | driver: `mtreg`, `continuousResolution`; the sensor (environment): `[power, mode, res, mt, n, data]`; `reading` (the last Ok reading, with the resolution and MTreg it was converted with); `last` (the last call and its outcome) | `PowerOn`, `PowerDown`, `Reset`, `SetMtreg`, `OneTimeMeasurement`, `StartContinuousMeasurement`, `ReadContinuousMeasurement`. Each I2C transaction has an outcome in `I2cOutcomes`, and `?` stops the method at the first failure |
| `Dht22` | the DHT22 driver of `tosca-drivers` (`dht22.rs`) | `env` (the sensor: present or not, its values, its pulse timings, a disturbed bit), `line` (the pulse train on the wire, with absolute times), `result` | `Read`: the whole of `Dht22::read` in one step. `WaitUntilState`, `ReadBits` (`read_raw_data` with `read_byte`), `Byte`, `ValidateChecksum`, `DecodeHumidity` and `DecodeTemperature` are operators |

`StartEventReceivers` is split into one step per loop iteration. Its `.await` points (the broker subscribe) let the spawned tasks run between iterations, and in the code the caller's progress through the loop is sequential.

`shutdown` is split the same way, because `event_handle.await` suspends it.

An event batch is abstracted to a per-task sequence number. A broker packet that `parse_event` discards changes no state, so it is not a step.

In `Firmware`, an embassy task runs until its next `.await`, so each action is the code between two awaits (timers, `Signal::wait`, a button edge). `notify_led` is two actions, because its 100 ms timer lies between clearing `TOGGLE_CONTROLLER` and signalling.

The two examples share `notify_led`, the handlers, `press_button` and `change_led`. The light example's `toggle` stores 1 in `TOGGLE_SECONDS`, which is light-with-events' fixed one-second timer, so one module models both. `ParamToggleRoute` adds the light example's `toggle_with_parameters`. The events notifier of light-with-events only publishes the LED level, so it is part of `change_led`'s steps.

In `ServerRoutes`, the builder is explored over every chain of builder calls the typestate allows, duplicates included. Each built device then serves one request. The handler reads the device and changes nothing, so a single request per device shows every behaviour of it.

In `Bh1750`, the sensor follows the behaviour stated in the driver's own documentation:
- a one-time measurement powers the sensor down when it completes;
- `reset` acts only while the sensor is powered on;
- MTreg is written in two halves;
- a measurement takes `default_time * MTreg / 69` ms, the formula in the comment of `measurement_time_ms` (bh1750.rs:282), kept exact. The driver's `u32` division floors it, so `Covered` compares the two after multiplying both by 69.

In `Dht22`, `read` is synchronous and blocks from the start signal to the decoded result, and the driver keeps nothing between calls. So one `Read` step computes the call over the line's timeline. Time 0 is the moment `send_start_signal` releases the line. `wait_until_state` polls every `PollPeriod` µs, up to `MAX_ATTEMPTS` times: the first poll at or after the edge sees it, or the wait ends in `Timeout`. Each bit is sampled `BIT_SAMPLE_DELAY_US` after the detected rising edge. The sensor's side follows the DHT22 datasheet the driver's comments cite:
- a 20–40 µs wait, then 80 µs low and 80 µs high;
- per bit, 50 µs low, then 26–28 µs high for a 0 or 70 µs for a 1, MSB first;
- a final low pulse, then the pull-up;
- the checksum is the low byte of the sum of the four data bytes;
- the temperature is sign and magnitude.

A disturbed bit is sent with the other bit's pulse length. An absent sensor leaves the line high. Humidity and temperature are kept in tenths, which is what the `/ 10.0` of the decoders scales.

A measurement is stamped with its resolution, its MTreg and a sequence number, so a reading can be compared with what the sensor measured. The driver's wait covers a measurement when `measurement_time_ms` with the driver's `mtreg` is at least the typical time for the sensor's MTreg. Otherwise `read_raw` may return the previous data register.

## 3. Runs

| run | cfg | expect | what it shows |
|---|---|---|---|
| events_safety | `MCControllerEvents.cfg` | pass | `NoLossNoReorder`: while the consumer holds its receiver, each fan-in task's decoded batches are all in the channel (or in its pending send), once each and in broker order. This holds with two tasks sharing a one-slot channel, a failing broker subscribe, rediscovery, and per-device subscriptions. |
| events_shutdown_liveness | `MCControllerEventsLive.cfg` | pass | `ShutdownReturns`: once the caller enters `shutdown`, it returns, although it awaits each per-device task, which only its own token stops. Cancelling before awaiting is what makes this hold. `ShutdownStopsRegistryTasks`: after `shutdown`, every task started for a device of the registry it was given eventually leaves its loop. Deadlock is not reported in this run: a task whose broker stays quiet waits in its `select!` for good, and whether `shutdown` then hangs is the question `ShutdownReturns` answers. |
| events_shutdown_join | `..._ShutdownJoinsTasks.cfg` | violation | `shutdown` returns before the fan-in tasks stop (only one call: start, then shutdown). |
| events_fanout_stop | `..._FanOutStopsOnlyOnCancel.cfg` | violation | A fan-out task stops on a send with no receivers, against spec 4.3. |
| gate | `MCRequestGate.cfg` | pass | `GateDecides`: a send is `Skipped`, with no transport call, exactly when the policy in force at send time blocks a hazard of the route for its id. The module has no type invariant in the run: its one clause beyond types, a held `DeviceSender`'s id in range of the registry, only restated the borrow that guards `discover`. |
| firmware_sequential | `MCFirmware.cfg` | pass | The light example with one client connection. `LastCommandWins`: `On`, `Off`, failing requests, `toggle` and `toggle_with_parameters`, in any order, leave the LED as the last finished request asked. `TogglePeriodFollows`: the toggle loop settles on the period the last toggle request set, even when that request came while the loop was running. |
| firmware_no_toggle | `MCFirmwareNoToggle.cfg` | pass | The same property with two concurrent handlers and the button, without the `/toggle` route. The overwriting Signal loses commands, but only ones that a later command supersedes. |
| firmware_concurrent_toggle | `MCFirmware_LastCommandWins.cfg` | violation | A `/toggle` served while an `On` handler sleeps in `notify_led` leaves the LED toggling forever after "Light on" was answered (main.rs:181). The light example's `notify_led` is the same code. |
| routes | `MCServerRoutes.cfg` | pass | `DispatchAgrees`: for every route table the builder can make, every origin-form request target runs the handler of the first registered route it names, with the right GET parameters. `TypeOK` adds that no request panics, the 128-byte body bound included. `AnswerAsAdvertised`: the answer is 200 exactly for the main route and a handler that returned Ok with a writable body, and a handler's 200 body is the kind its RouteConfig advertises, although the body type comes from the function alias and the advertised kind from a separate argument of the `*_route` method. `HazardCatalogueConsistent`: every hazard a registered route carries reads back through its serialized id and category, and the hazards.rs tables agree with each other (no test compares `category` with `Category::hazards`). |
| bh1750 | `MCBh1750.cfg` | pass | With failing I2C transactions, `MtregSync` says the two MTreg halves reassemble to the clamped value whenever `set_mtreg` returns Ok. No property claims that one-time readings are fresh: with the exact measurement time, `set_mtreg(100)` then `one_time_measurement(High)` can read the previous register, because the driver waits 173 ms for 173.9 ms (hazard at bh1750.rs:283). |
| bh1750_stale_mode | `MCBh1750_ContinuousResolution.cfg` | violation | `ContinuousResolutionFaithful` is violated by `start_continuous_measurement(High)`, `one_time_measurement(High2)`, `read_continuous_measurement`. The one-time measurement leaves its High2 count in the register, and the read converts it with High's factor, giving twice the light measured. `continuous_resolution` is never cleared (bh1750.rs:241). |
| dht22 | `MCDht22.cfg` | pass | `ReadsWhatWasSent`: across the datasheet timing ranges, an undisturbed frame reads Ok with the sensor's values. This holds even where the bytes sum past 255 and the temperature is negative. `NoCorruptReading`: a frame with any one disturbed bit never reads Ok with other values. An absent sensor reads as `Timeout`. |

### Bounds

**`ControllerEvents`** uses two devices, and discovery returns them in either order, so rediscovery can both reorder devices and orphan tasks.

- **events_safety:** `MaxCalls = 2` allows start twice, or a device subscribe then a start (which fires `StartSkipStarted`), or start then discover. `MaxPolls = 2` gives a task a second batch to block on. `BufferSizes = {1}` makes the channel fill with one batch, so backpressure happens. One broker refuses the subscription. The run reaches 1.5 million states in under three minutes.
- **events_shutdown_liveness:** one device has no events (fires `StartSkipNoEvents`), and its only event device's broker may refuse. `MaxCalls = 2` and `MaxPolls = 2`. With `MaxCalls = 3` the run takes about ten minutes.

**`RequestGate`** uses the controller tests' scenario:

- global `{LogEnergyConsumption}`;
- local `{FireHazard}` for device 0;
- `/on` with no hazard, `/off`, `/toggle`.

It adds a second policy built with `only_local_policy(1, ..)` followed by `block_device_on_hazards(1, ..)`, which exercises the replacement. It has three discoverable registries, including a one-device one. `MaxOps = 8` covers a policy change, a rediscovery that reorders the registry, then device, request and send, and a second sender after both are dropped (680,552 states in a few seconds). Deadlock is not checked: the caller simply stops after `MaxOps` operations.

**`Firmware`** uses:
- `MaxRequests` of 2 to 4 and `MaxPresses` of 0 or 2;
- one or two clients.

Two clients are enough to let one handler sleep in `notify_led` while another runs. Deadlock is not checked: once the bounds are spent, every task waits on an await, so the firmware idles rather than stops.

**`ServerRoutes`** uses `MaxRoutes = 5`, with the example's `/on`, `/off` (u8 `test-value`) and `/toggle`, plus three more routes:
- a stateful `/toggle` whose configuration equals the first once its prohibited hazard is dropped, which exercises the duplicate check;
- `/toggle/` with a `seconds` parameter, which the first `/toggle` shadows;
- `/info`.

The duplicate-check mutant needs a route after the duplicate that a request can still reach, and `/info` is that route. Paths have up to five tokens over the route words, the main route and a numeral. The bodies cover:
- a missing or non-numeric Content-Length;
- a Content-Length of 129;
- a wrong content type;
- a read error;
- invalid JSON;
- good and mistyped parameters.

**`Bh1750`** lets `set_mtreg` take 0, 100 and 255. These are below, inside and above the clamp range. The halves of 100 (3, 4) both differ from those of the default 69 (2, 5), so a half-written register lies away from the driver's value. `MaxCalls = 5` reaches start, stop, read and a set in between, and a second set after a failed one (322,778 states in about ten seconds). The violation run uses reliable I2C and `MaxCalls = 3`, to show that the stale resolution needs no failure. The property compares resolutions only, so the shorter wait violates it only when the register holds a measurement made in another resolution.

**`Dht22`** sends three values:
- 65.2 %RH at 35.1 °C;
- 100.0 %RH at −40.0 °C, whose bytes sum past 255 and whose sign bit is set;
- zeros, an all-zero frame.

The timings are both ends of the sensor's response delay (20 and 40 µs) and of the 0-bit pulse (26 and 28 µs). The glitch is none, or any one of the 40 bits. The sensor may be absent. The run polls every microsecond, as `POLL_DELAY_US` does with an instant pin read. There are 1,968 states, since each sensor behaviour is one read, and the run takes about 50 s.

**`Firmware`** (firmware_sequential) sends `seconds` 0, 3 and 7 against the route's range max of 5. So the stored period is the value itself, the max, or a 0 that the range's minimum does not stop (light main.rs:221).

### Fairness (`ControllerEvents`)

- **`select!` choice:** `tokio::select!` picks a ready branch at random. A cancelled token stays ready, so the cancellation branch is eventually taken: strong fairness on `TaskCancel(t)`.
- **Progress:** a send with room, the end of a 100 ms sleep, and the steps of `shutdown` all make progress once enabled: weak fairness.
- **The consumer (an assumption):** `WF(Recv(c))` assumes the consumer keeps reading a receiver it holds. Without it, a cancelled task blocked in `send(..).await` would never stop (hazard at events.rs:117).
- **Behaviour after `shutdown`:** the program may stop, so the `Terminated` step stutters.

### Fairness (`Firmware`)

The embassy executor runs every ready task, and timers expire. So the step after each await is weakly fair:
- the end of `notify_led`;
- the button's signal and re-arm;
- every step of `change_led`.

New requests and button presses are never forced.

## 4. Mutants

Each property of a passing run is broken by a mutation of the code it is about:

| mutant | kills |
|---|---|
| `try_send`-like dropping on a full channel | `NoLossNoReorder` |
| cancelling only awaited tasks in `shutdown` | `ShutdownStopsRegistryTasks` |
| `shutdown` awaiting `event_handle` before cancelling the token | `ShutdownReturns` |
| a channel one slot smaller than `buffer_size` | `ControllerEvents` `TypeOK` |
| an evaluation without the local rule | `GateDecides` |
| a handler passing `Toggle` to `notify_led` | `Firmware` `TypeOK` |
| `change_led` keeping the period of its previous pass | `TogglePeriodFollows` |
| `notify_led` not clearing `TOGGLE_CONTROLLER` | `LastCommandWins` (sequential) |
| a queue-like signal that keeps the first input | `LastCommandWins` (two clients) |
| no size check before the body slice | `ServerRoutes` `TypeOK` |
| `route_func_manager` without its duplicate check | `DispatchAgrees` |
| `stateless_info_route` passing `ResponseKind::Serial` | `AnswerAsAdvertised` |
| `FireHazard` filed under the financial arm of `category` | `HazardCatalogueConsistent` |
| clamping only from above | `Bh1750` `TypeOK` |
| the MTreg split at bit 4 | `MtregSync` |
| `decode_temperature` without masking the sign bit | `Dht22` `TypeOK` |
| a checksum sum that does not wrap | `ReadsWhatWasSent` |
| no checksum comparison | `NoCorruptReading` |

## 5. Not modelled, and why

The project uses twelve runs, the most it keeps. New checks are composed into existing runs, as `Hazards` and the `response.rs` writing are in `routes`. The code defects listed as hazards without a property would each need a violation run of their own. These are:
- the positional ids below;
- `buffer_size` 0;
- the short body read;
- the missing body parameter;
- the zero toggle period;
- the floored BH1750 wait (bh1750.rs:283), less than 1 ms short;
- the `press_button` flag race (light-with-events main.rs:95), the same race as `notify_led`'s.

The four violation runs show the findings; they take precedence.

**Why the runs are not merged.** The safety properties of `events_safety` can be checked in the liveness run's configuration in seconds, and all three of their mutants are still caught there. But that configuration has a single event device, so the fan-in channel never has two producers. Merging would drop the interleaving `NoLossNoReorder` exists for. With both event devices and the liveness property, the run exceeds ten minutes.

**No `Controller` composition.** `RequestGate` and `ControllerEvents` share only the registry, which `discover` replaces wholesale, and the `&mut self` borrow a live sender holds. The borrow keeps `discover`, `change_policy`, `start_event_receivers` and `shutdown` apart from the senders, and both modules already model it. What a composition would add is the stale positional id below. `Controller::devices_mut`, which hands the caller the registry to change in place, is not modelled.

**Positional ids** are not checked by a run. They are the local policy key (controller.rs:118) and the payload id and MQTT client id (events.rs:117, :203). `RequestGate` and `ControllerEvents` reach the states where an id names another device after rediscovery. Spec section 9 already lists positional ids as a known fragility, so no run restates it.

**The MQTT client's fault handling** is rumqttc's and the broker's. A `ConnectionError` from `eventloop.poll()` goes through `parse_event` like a discarded packet, and `continue` polls again at once (events.rs:113, :145). The subscription is made once, in `init` (events.rs:207). After a broker restart with the default clean session it is not renewed, and the task stays alive but receives nothing. Both are listed as hazards. In the model a discarded packet is a stutter, so neither is visible to a property.

**Other parts left out:**
- **The tosca `Events` container (`events.rs`):** ten vectors with builders that replace, `add_*` that push, and `update_*_value` by index. It is filled and published by the esp32c3 `EventsManager`, which is not under `src/`, so no modelled component calls it. The crate's tests check its serde round trip.
- **`energy.rs`, `economy.rs` and `tosca/src/response.rs`:** clamping constructors (`EnergyEfficiency`, `CarbonFootprint`, `Roi`) and serde types, with no state.
- **The MAC lookup in `tosca-os` (`mac.rs`):** `get_mac_addresses` keeps the last physical Wi-Fi and Ethernet interface in `read_dir` order. On Windows, `process_adapter`'s doc says it extracts the first matching address, but the code keeps the last. The predicates are file-system probes that a model could only take as inputs.
- **`start_event_receivers`' double-start skip:** it never triggers, because `event_handle` is never set. This is part of the `events_shutdown_join` finding.
- **`CompleteLight::main_route`** (light.rs 213-219): the model keeps the default main route `/light`, and no example calls the builder. `server.rs:447` compares the first segment with `main_route[1..]`. That slice panics for an empty main route. For a main route without a leading `/` it drops the first character. Both are character-level behaviour, below the model's segment-level paths, so they are listed as a hazard without a property.
- **A failing pin read (`Dht22Error::Pin`):** it ends `read` through `?` like a timeout, with no state left behind.
- **The `Server` configuration (`server.rs` 147–322):** port, keep-alive, I/O and handler timeouts, and the TCP and mDNS setup in `Server::run`. It is I/O wiring, and the examples set only the keep-alive timeout.
- **Other parts out of reach or holding no state:** mDNS discovery and the Wi-Fi wait loops, HTTP body parsing in the controller (`response.rs`), and the error builders.
- **Broker session take-over** for duplicate MQTT client ids.
