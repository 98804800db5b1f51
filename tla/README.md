# Verification of ha-sydpower

TLA+ specifications, TLC model-checking runs and TLAPS proofs for
`ha-sydpower`: the Python library `sydpower`, which speaks a Modbus dialect to
portable power stations over Bluetooth Low Energy, and the Home Assistant
integration `custom_components/sydpower` built on it.

Run from this directory: `tlc -config X.cfg M` for a run listed below and
`tlapm M.tla` for the proof modules `BleExchangeProofs`, `CoordinatorProofs`,
`ScheduledChargeProofs`, `EntryOptionsProofs`, `PowerReadingsProofs`,
`EntitiesProofs` and `DiscoveryProofs`, and for `Recursion`, the lemmas the last
four share.

## The system

| Part | Source | State | Operations |
| --- | --- | --- | --- |
| Register exchange | `sydpower/device.py`, `sydpower/protocol.py` | `_client`, `_active_buffer`, `_response_future`; the buffer's `_raw` | `connect`, `disconnect`, `read_holding_registers`, `read_input_registers`, `write_register(s)`, the callback `_on_notification` |
| Coordinator | `coordinator.py` | `_io_lock`, `data`, `last_update_success`, the debouncer of Home Assistant's `DataUpdateCoordinator`, `_correction` | the poll `_async_update_data`, `async_write_register`, the requested refresh |
| Writing entities | `switch.py`, `light.py`, `number.py`, `select.py`, `button.py`, `datetime.py` | none: they read `coordinator.data` | service calls that end in `async_write_register` |
| Scheduled charge | `datetime.py` | `_target`, restored after a restart | `native_value`, `async_set_value` |
| Calibration | `sydpower/calibration.py` | none | `fit_correction`, `CorrectionModel.watts` |
| Config and options flow | `config_flow.py` | the open flows and dialogs; the entry's data and options | find and confirm a station, create its entry; add, review, clear samples; set the poll interval |
| Entry lifecycle | `__init__.py` | `hass.data[DOMAIN]`, the loaded platforms | set up, unload, reload on an options change |
| Write allowlist, encodings | `constants.py`, `device.py:286`, `select.py:71` | none | `_check_writes_safe`, `setting_encoding` |
| Catalog | `sydpower/catalog.py`, `fault_messages.py` | the cached file | look-ups, the state word, fault groups, firmware gates |
| Scanner | `sydpower/scanner.py` | the best advertisement per address | `scan`, `_parse_advertisement` |
| Reading entities | `sensor.py`, `binary_sensor.py` | none | functions of the snapshot |
| Command line | `cli.py` | the banks printed last | choose a station, dump its banks, watch them |
| Packaging, extraction tools | `setup.py`, `analysis/` | none at run time | |

How they interact. A coordinator's task (poll, debounced refresh or service
call) resolves a BLE device, takes `_io_lock`, and enters a `SydpowerDevice`
of its own: connect, access registers, disconnect. `device.py` sends one
request at a time and waits on a future; Bleak calls `_on_notification`
between any two steps of the event loop, which feeds the `ResponseBuffer` and
completes the future. After the lock is released the task publishes the
snapshot, and every entity is a function of it. The options flow polls through
the same coordinator and stores samples in the entry's options, which reloads
the entry. The entities are built at setup from the catalog, the product the
config flow wrote into the entry and the first snapshot. The config flow sees
advertisements through Home Assistant, the command line through a scan of its
own.

What is hard. Replies carry no identification other than a function code, so a
reply that is late, split, damaged or left over from an earlier connection can
meet the wrong request. A request whose reply is lost may have been carried
out. The link goes down without notice. In the coordinator three kinds of
tasks interleave at every `await`, a write lands some time after it was
echoed, a read-back may fail after the write landed, and a failed write waits
for a refresh that needs the lock. The datetime entity compares a countdown in
whole minutes, read at arbitrary moments, with a remembered time, across
restarts. The catalog, the encodings, the allowlist and the register map each
say part of what a setting is, and every offered choice has to go through all of
them. Advertisements arrive in parts, and two flows for one station can both
have passed their check when the first makes its entry.

What makes each part correct:

- exchange: a successful access returns what it asked for, intact; replies of
  other calls do no harm; a call makes its attempts, no more, and ends; seen
  from outside it is one access to a register that changes meanwhile;
- coordinator: one connection at a time; what is shown never goes back in
  time and includes the write that was just reported as done; calls return;
  what landed is shown eventually;
- scheduled charge: the displayed time does not wander, and follows a schedule
  changed elsewhere;
- calibration: no correction while not charging; the fit reproduces samples
  that lie on a line;
- options flow: no sample is lost, out of date, or taken in pass-through;
- lifecycle: entities exist only over a coordinator that has been read, and
  the correction in force is the one of the samples stored;
- entities: a choice that is offered is accepted and means to the station what
  it says; selects and sensors show what the station reports; a gated option is
  not offered; nothing outside the allowlist is ever sent;
- scanner and command line: the strongest advertisement of each station counts,
  its identity is read whichever way it came, and a watched dump hides no change;
- config flow: an entry has the parameters of its station, and is replaced by
  no flow but one that raced with it.

## Modules

`ResponseBuffer` holds the constants and operators of the reply accumulator
(`protocol.py:145-291`). A reply is one or two notifications ("chunks"). Bytes
are abstracted to what `feed()` distinguishes: the function code it sees, if
enough bytes have arrived, and if the CRC holds. Where the bytes decide and
the abstraction has lost them (the bytes of a continuation read as a header)
`LeadingCode` and `LongEnough` give every outcome and the exchange picks one.
`FeedOutcomes` is `feed()`, `Decoded` is `result()`. A chunk also carries the
number of the call it answers and if its bytes are undamaged. No operator
decides by the call; `good` stands for what the CRC detects, so an undetected
collision of the 16-bit CRC is not modelled.

`BleExchange` EXTENDS it with one `SydpowerDevice` and one station. `pc` is
the await the task is suspended in.

| Action | Code |
| --- | --- |
| `Connect`, `LinkUp`, `ConnectFails`, `Subscribed`, `SubscribeFails` | `connect`, split at its awaits |
| `ConnectCancelled` | its caller cancels it: no `except` clause catches that, and a link that is up already stays up with nobody to close it |
| `Disconnect` | `disconnect`; neither the errors it swallows nor a cancellation make a difference the next connect could see |
| `Call` | an access up to the await of `write_gatt_char` |
| `Sent`, `SendFails` | that await returns, or raises outside the `try`: buffer and future stay armed |
| `Finish`, `TimesOut`, `Cancelled` | the ends of `wait_for`, with the `finally` clause and the retry |
| `Notified` | `_on_notification` |
| `StationAnswers`, `StationRefuses`, `PanelChange`, `LinkDrops`, `NotificationLost` | the station and the radio (external) |

A timeout may fire although the future is already done: `TimesOut` has no
guard on the future. `read_*` and `write_*` differ in the function code and
the value only. All calls use the whole bank (the only way the integration
and the tests call them), so `start` and `count` are left out.

`RegisterAccess` is what the exchange promises: an access begins, the register
changes any number of times, and the access succeeds with a value or fails
(`Begin`, `Change`, `Succeed`, `Fail`, `Connect`). An access that begins with
nothing outstanding succeeds only with a content the register had since, and a
write only with its own value; of any other access no more is promised than
some content in a reply of the right kind. `BleExchange!Access` is the
refinement mapping: connecting is no access, and an access is over once the
task has left its last await. Retries, queues and
buffers are hidden by it.

`Coordinator` models `coordinator.py` above that. A task is the poll timer's,
the debounced refresh's or a service call's; `pc` is its await, `ioLock` the
queue of `_io_lock` with the owner in front. A register access is one step:
it succeeds, fails, or is answered by a late reply, which is what
`BleExchange` shows it can do. The register under study has a value and a
version, the number of times it has changed, so that snapshots can be ordered;
the code reads neither of the two orders. `async with self._io_lock, device`
leaves the lock after the connection is closed, and what follows the release
(publishing, requesting a refresh) runs without another await, so `WriteReturns`,
`WriteFails` and `RefreshEnds` are single steps. The debouncer follows Home
Assistant's `Debouncer` as the code uses it (immediate, then a cooldown, one
more run if asked for meanwhile); it and `DataUpdateCoordinator` are external.
Both of them cancel a debounced refresh when other data arrives.

A service call may be cancelled, as by a script that is restarted. While it waits
for the lock it leaves the queue (`LeavesQueue`); while it holds the lock its
connection is closed, the lock released, and nothing else happens (`Drops`,
`Dropped`), since `CancelledError` is none of the errors `coordinator.py:215`
catches: no refresh is requested. What an access leaves behind that was cancelled
is what one that failed leaves (`LeavesBehind`). A cancellation of the last
await, of the refresh a failed write requested, is a matter of the external debouncer
and not modelled. The history variable `stray` remembers whose snapshot was an
abandoned reply.

Each of the seven proof modules, `XProofs`, EXTENDS the component `X` and
holds its theorems. `Recursion` says what a loop computes that is written as a
recursive function. `MCBleExchange`, `MCCoordinator` and `MCEntryOptions` add
the symmetry sets TLC needs, `MCEntities` and `MCDiscovery` the products,
stations and advertisements.

`ScheduledCharge` models the datetime entity. The station counts minutes down;
the entity remembers the time that was asked for and shows it as long as the
countdown agrees with it. The history variable `lag` is the time the write of the
remembered time had waited.

| Action | Code |
| --- | --- |
| `Poll`, `PollFails` | a snapshot is published, or fails: `native_value`, which may change `_target` |
| `SetValue`, `Cancel` | `async_set_value`, and the button, up to the await of `async_write_register` |
| `Written`, `ReadBack`, `CallFails` | the write takes effect; it is read back and published, and then `_target` assigned; it fails |
| `Restart` | Home Assistant stops and starts in an orderly way; `async_added_to_hass` restores the state it saved |
| `Elsewhere`, `Tick` | the vendor's application, time (external) |

The station's minutes are its own: a delay written in the middle of one of
them loses up to a minute, which is the reason the code gives for its
tolerance. `Schedule` leaves open where in its minute the station is.

`EntryOptions` models `__init__.py`, the options flow of `config_flow.py` and
the correction a coordinator caches. A setup makes a new coordinator, and a
task started on an earlier one (a service call, a dialog's poll) may still be
running, so `using` says which coordinator a task entered and `linked` which
tasks have a connection. A whole register access of `Coordinator` is one
connection here, and a reading is a number and whether the station charges.

| Action | Code |
| --- | --- |
| `NotReachable`, `Setup`, `FirstRefresh`, `SetupFails`, `Loaded` | `async_setup_entry`, split at its awaits; the fit of `correction` at its first use |
| `Unload`, `Unloaded`, `UnloadFails` | the reload `async_update_listener` asks for, and `async_unload_entry` |
| `Begins`, `Link`, `Ends` | a poll or service call of a coordinator |
| `Open`, `KeepOrClear`, `Choose`, `Review`, `Abandon` | `async_step_init`, `async_step_review_samples`, a dialog the user closes |
| `Submit`, `Polled` | `async_step_add_sample`, before and after the await of `async_refresh` |
| `DeviceChanges` | the station (external) |

External, and modelled from how the code depends on it: Home Assistant sets an
entry up again after `ConfigEntryNotReady` (state `retry` of `SetupBegins`: by its timer, or by a
reload still pending, which has nothing to unload), calls the update listener when the
options changed and reloads one at a time; unloading shuts the coordinator down
and cancels its scheduled poll, but neither a service call nor an options
dialog; a coordinator that was shut down does not poll.

`PowerReadings` is about the numbers in the samples: a station that reports
its output too low by `Offset + Slope * rate` while it charges, samples taken
by one or two meters that may be off, `fit_correction`, `CorrectionModel.watts`
and the corrected sensors. The floating-point results are exact fractions,
numerators over a common denominator `over`; the rounding of what is shown to
hundredths is left out.

`Catalog` has no state: the look-ups, the firmware gate, the words put together
from input registers, the active faults, the encodings and the allowlist with
`_check_writes_safe`. A register the code takes apart into bits is the set of
its bits, and a name the sequence of its words: the number that tells two
sensors of one name apart is a word of `Numerals`.

`Entities` EXTENDS it with the entities of one entry and the registers of a
station.

| Action | Code |
| --- | --- |
| `Setup` | a setup or a reload: the first refresh, and the entities built from it and the catalog |
| `ServiceCall`, with `Write` | a call of any entity that writes, `async_write_register`, the check of the library, the read-back |
| `LibraryWrite` | `write_registers` by a user of the library, with the unsafe flag or without |
| `Poll` | a poll that publishes a snapshot or fails |
| `PanelChanges` | the station (external) |

What a call may ask for (`Requests`) is computed from the same descriptions as
what is shown: `Selects`, `Switches`, `LightModes`, thresholds, the charging
current, the scheduled time (`ScheduleRequests`), the buttons; `StateSensors`, `Problem`, `VoltageShown` and
`FirmwareShown` are the sensors. The station is external, and what its registers
mean is stated apart from the code's encodings: `Stores` is the content
that stands for an option, `Input` the bits of its registers. Its control
registers and its reported bits vary independently, as the code never derives
one from the other. Home Assistant calls available entities only, and holds
options and numbers to the lists and limits the entity declares. A call is one
step, since concurrent calls are the subject of `Coordinator`. `built` is the
version the entities were built from: the gate is not computed again until the
entry is reloaded.

`Scanner` has the operators on advertisements: how a station broadcasts
(external), `Parsed`, `Strength`, and the parameters the catalog gives a product.
`CommandLine` and `ConfigFlow` EXTEND it, and `Discovery` composes the two: they
share nothing but the air, so a behaviour is of one of the programs.

| Module | Action | Code |
| --- | --- | --- |
| `CommandLine` | `Hear`, `Resolve` | the callback of `scan`, its sorted list, `resolve_device` |
| | `ReadBank`, `Show`, `Stop` | `read_banks`, `print_bank` and `print_changes`, an error or an interrupt |
| | `StationChanges`, `RunAgain` | the station, the user (external) |
| `ConfigFlow` | `StepBluetooth`, `Confirm` | `async_step_bluetooth` and its confirmation |
| | `StepUser`, `Submit` | `async_step_user`, shown and submitted |
| | `CreateEntry` | the entry made once the catalog is loaded |
| | `Receive`, `Dismiss`, `RemoveEntry` | Home Assistant and its user (external) |

Home Assistant is modelled as the code depends on it: it keeps what was received
of a station, refuses a second discovery of one in progress, aborts the other
flows for a station when an entry is made, where a flow that is past its
check may be dropped or go on, and puts a new entry in the place of one
with the same identity.

A definition commented "Slip" is a variant of the definition after it with a
plausible mistake. It is not part of the specification: it shows that the
property meant to notice the mistake does.

## Runs

| Run | Configuration | What it shows |
| --- | --- | --- |
| `exchange` | `BleExchange.cfg` | `TypeOK`, `ReturnsTheRightBank`, `NeverGarbled`, `CleanCallIsTruthful`, `WholeRepliesNeverFail`, `ImplementsRegisterAccess`, with split replies, exceptions, losses, reconnections, cancelled connects and accesses |
| `exchange_live` | `BleExchangeLive.cfg` | `TimeoutAfterEveryAttempt`, `EveryCallEnds`, with the library's three attempts and damaged replies |
| `coordinator` | `Coordinator.cfg` | `TypeOK`, `OneClientAtATime`, `ReadBackIsFresh`, `LastWriteWins`, `NeverBackwards`, with a poll, refreshes, faults, cancelled calls and late replies |
| `coordinator_live` | `CoordinatorLive.cfg` | `EveryCallReturns`, `WritesConverge`, with polling disabled, faults, cancelled calls and late replies |
| `last_request` | `LastRequest.cfg` | violated: finding 1 |
| `silent_failure` | `SilentFailure.cfg` | violated: finding 2 |
| `scheduled_charge` | `ScheduledCharge.cfg` | `TypeOK`, `NeverDrifts`, `ShowsTheSchedule`, with polls at any moment, writes that wait for any time, changes made elsewhere and restarts |
| `entry_options` | `EntryOptions.cfg` | `TypeOK`, `ReadBeforeEntities`, `CorrectionInForce`, `OnlyWhileCharging`, `NoSampleLost`, `SampleIsFresh`, with two dialogs, changing readings, failed refreshes and reloads that overtake a poll |
| `two_clients` | `TwoClients.cfg` | violated: finding 3 |
| `power_readings` | `PowerReadings.cfg` | `TypeOK`, `ShowsTheTruth`, `BestFit`, over all sequences of three samples, against the lines of a window |
| `entities` | `Entities.cfg` | `TypeOK`, `NoControlIsRefused`, `DoesWhatWasAsked`, `SelectsShowTheStation`, `SensorsTellTheTruth`, `GateHonoured`, `WritesStayPermitted`, for three products of the catalog and one it does not know |
| `discovery` | `Discovery.cfg` | `TypeOK`, `StrongestIsKept`, `IdentityIsRead`, `WatchTellsEverything`, `EntryFitsTheStation`, `OnlyRacersReplace`, with whole and partial advertisements and overlapping flows |

Bounds. `MaxCalls = 2`: one call that leaves something behind and one that
meets it. `MaxRetries = 2` in the safety run (a retry exists; three, the
library's number, in the live run). `MaxQueue = 3`: a split reply and one more
notification; with loss a queue of three already holds every pairing of
stale and fresh chunks the two-chunk buffer can see. Two register contents
are enough to tell a splice from a reply. In `Coordinator` two service calls,
one poll task and the refresh task are all the kinds of overlap there are;
one change at the front panel is enough to make a stale snapshot differ.
In `ScheduledCharge` a minute has four ticks, so a poll can fall on it, near it
or half way; delays of one and two minutes and two schedules in three minutes
of time let a stale target meet another schedule. In `EntryOptions` two dialogs
and two changes of the options in three setups (the first and two reloads)
overlap a save with every step of a setup and of an unloading; two changes of
the readings tell those from before a submission, those a reload found and those of the
poll apart. In `PowerReadings` two charge
rates resolve a slope, and a third sample makes the fit inexact when a meter is
off by `Glitch`; the lines compared with the fit have offsets and slopes n / d with
`|n| <= Window` and `d <= Parts`, here 6 and 2, and both constants are arbitrary in the theorem. In `Entities` two moves are a change at the station and a call
that meets it, or two calls; polls and setups are free. Its data are those of the
catalog that make a difference: a product the gate applies to, one
with the charging power and with ports on one bit, one with a single port, and
the fallback; thresholds and currents on the limits, off them and on a tie of the
rounding; spans that begin, run or end outside the allowlist. In `Discovery` three
advertisements of two stations, three changes of the banks, and two flows
at a time of four altogether let an entry be made, removed and made again while
another flow is past its check; the three devices are a legacy station with
prefix and serial number, a newer one whose identifier begins with the value of
the prefix, and a foreign one with the same UUID. `Values` (and the service calls, and the dialogs) are symmetric in the safety runs; runs with
liveness use no symmetry. Deadlock is not checked: once the bounded
calls are used up the system may stop.

Fairness. `BleExchange.FairSpec` is weak fairness of the client's own steps:
asyncio resumes a task whose await has completed, and each await completes
(connecting and GATT requests have timeouts in the Bluetooth stack, the reply
is bounded by `COMMAND_TIMEOUT`). Nothing is assumed of the station or the
radio. `Coordinator.FairSpec` adds that the debouncer's timer fires and that
the station carries out a write it accepted; no poll and no user is
assumed to come.

Timing. `Coordinator` has one assumption about time, in the guards of `Settled`
and `LinkUp`: a write takes effect within `WRITE_SETTLE_DELAY` (one second), and
before another connection is established. Without it no delay would be
long enough for `ReadBackIsFresh`. `ScheduledCharge` has none: a call waits for
the lock and the connection as long as it takes. `NeverDrifts` speaks of those
times whose write took effect within half a minute of the call, `2 * lag <= Minute`, which
is what the tolerance of two minutes has room for.

Limits. `WritesConverge` states its two exceptions: the snapshot shown last was
taken from an abandoned reply, and the call was cancelled. In `ScheduledCharge` a schedule set elsewhere within the tolerance of
the remembered time is taken for the remembered one, as the code intends, so
`ShowsTheSchedule` allows for the tolerance.

## Findings

1. A switch writes "unless the device already reports the requested state"
   (`switch.py:175`); while an opposite write is in flight the snapshot is out
   of date, and the later request is dropped (`last_request`). The light does
   the same.
2. `async_write_register` raises "rather than failing silently"
   (`coordinator.py:189`); a late echo of another write makes it succeed although
   nothing was written (`silent_failure`). The cause is in the library: `_send`
   waits for "the matching response" (`device.py:351`), but only the function
   code is matched (`protocol.py:200`), which is why `CleanCallIsTruthful`
   speaks of calls that begin with nothing outstanding.
3. "All access is serialised", as the station accepts a single client
   (`coordinator.py:100`); the lock belongs to a coordinator, and a reload makes
   another one while a task of the old one may be connected (`two_clients`).

Noted without a run, in the library:

- A frame of another function code is dropped "rather than failing the whole
  exchange" (`protocol.py:202`); the rest of a frame in two notifications can
  still fail it, as `FeedOutcomes` allows. `docs/register-map-v0.md:349` says that
  `feed()` raises `ProtocolError` on it so that `_send` retries; the code discards
  the frame, and `_send` retries on timeouts only.
- `_send` "Retries up to *retries* times" (`device.py:353`), and
  `constants.py:31` explains the value 3 as three retries after the first send;
  the loop makes three sends altogether.
- A legacy station the catalog does not know gets the parameters of a newer one,
  so that its prefix is read as part of the identifier (`IdentityIsRead` excepts it).
- A signal of 0 dBm counts as the weakest (`scanner.py:168`).
- `--csv FILE` without `--csv-header` leaves the file empty: the loop over the
  devices is nested under the header (`cli.py:322`).
- `print_changes` names the new count only when a bank changes its length, so
  the values are unknown until they change (`WatchTellsEverything` excepts them).

In the integration:

- The target of a scheduled charge is restored "so a restart does not shift the
  value" (`datetime.py:96`); what is restored is the state shown last. After
  a service call that is the projection, cut to whole minutes, until the next poll, and
  nothing while the entity was unavailable. `NeverDrifts` holds through restarts but for
  these two cases (`shown # target`).
- "The value therefore never drifts", and a countdown that disagrees means that
  "the schedule was changed elsewhere" (`datetime.py:15`). The delay is computed
  (`datetime.py:151`) before the lock and the connection are awaited
  (`datetime.py:165`). A poll in front may keep the lock for three times five
  seconds in each bank, and connecting takes up to three attempts
  (`coordinator.py:165`). If the two make more than half a minute, the delay
  may be off by more than the tolerance, and the time asked for is replaced once by
  the projection; without its premise on `lag` TLC finds `NeverDrifts` violated.
- A failed write asks for a refresh so that the entities converge on what may have
  landed, polling or not (`coordinator.py:216`). They do not if the call was cancelled, as
  `coordinator.py:215` does not catch `CancelledError`, nor, with polling disabled, if the
  refresh is answered by the abandoned reply to the read-back, sent before the write
  took effect: nothing reads again. `WritesConverge` excepts both; without either
  exception TLC finds it violated.
- Samples of an earlier format are to be recorded again "in the integration
  options" (`coordinator.py:130`), but the dialog raises the same `TypeError`
  when it describes the fit (`config_flow.py:442`). The review drops samples by
  their index in the list as it is at submission (`config_flow.py:357`), so with
  two dialogs open it may drop another one than was ticked.
- Options saved during the first refresh cause no reload, since the listener is
  registered after it (`__init__.py:78`): the poll interval stays the old one.
- An advertisement without a UUID makes an entry with the default parameters,
  for good (`EntryFitsTheStation` states it).
- The check for a configured station comes before the await of the catalog, so
  of two submissions for one station the second replaces the entry of the
  first, with any options set on it (`OnlyRacersReplace` allows no other way).
- The gate drops the option 0 of every setting (`select.py:94`), where
  `catalog.py:198` speaks of the AC no-load standby timer: on a gated POWER-0504 the DC
  input type, which has 0 and 1, is no longer offered at all. `GateHonoured` demands
  the loss of 0 of the timer alone and says which options no gate may take.
- A port whose name adds nothing to its output's is taken for "the output's
  only port" (`binary_sensor.py:85`); in 26 products another port shares
  its bit, as "AC 30A" of POWER-004E, and gets no sensor either. `SensorsTellTheTruth` says which
  ports have one: the first with each bit, in the catalog's order, unless it is of that kind.
- `connect` closes the link again when subscribing fails (`device.py:185`), not when it is
  cancelled there: the link stays up, and `disconnect` knows no client to close.
- State sensors are for "any product in the catalog" (`binary_sensor.py:12`),
  but products of protocols 1 and 2 use bits beyond the 32 of the state
  word, and control the light through another register, so that its modes are
  taken for ports. The allowlist goes by register number alone: in those products
  register 24 is the AC standby timer, and the light is not register 27.

## Proofs

`BleExchangeProofs` proves the safety of the exchange for every number of
retries, calls, values and queued notifications and every set of
disturbances, from the two assumptions on the constants
(`GarbledAssumption`, `ExchangeAssumption`).

The properties are not inductive. `IInv` adds to them

- `BufferInv`: a buffer that starts with an intact header was matched against
  the request; a completed one holds one frame whose CRC holds; while an
  attempt has seen whole replies only, the buffer is empty or complete;
- `AttemptInv`: the loop variable counts the requests sent;
- `CleanInv`: after a clean start everything in the inbox, in the outbox and in
  the buffer belongs to this call and carries contents the register had during it.

`FeedFacts`, `WholeReply`, `DecodedFrame` and `RepliesFacts` say what one
notification and one reply can do; `TypeStep`, `BufferStep`, `AttemptStep`,
`SafetyStep` and `CleanStep` are the parts of the step
`IInv /\ [Next]_vars => IInv'`, with one case per action. `Inductive` combines
them, and the theorems `TypeCorrect`, `RightBank`, `Intact`,
`EveryAttemptMade`, `CleanTruth` and `WholeRepliesSafe` follow.

`Implements` is the refinement: `InitMaps` maps the initial states of the exchange to
initial states of `RegisterAccess`, and `StepMaps` every step, from a state of
`IInv`, to a step of it or a stutter, with one case per action. The invariant
is needed where an access succeeds: `CleanInv` makes the reply one of this
call with a content the register had meanwhile.

`CoordinatorProofs` proves the safety of the coordinator for every set of
service calls and values and any number of changes at the panel, from the
assumptions of `Coordinator`. Its `IInv` adds to `TypeOK`

- `LockInv`: the queue of `_io_lock` has no duplicates, a task is in it exactly
  while its `pc` is between asking for the lock and leaving it, and only the
  task in front has a connection. `Queues`, `Joins`, `Leaves` say what appending
  and removing the head do to it;
- `SnapshotInv`: what a task has read, and what a late reply carries, lies
  between the published version and the register's; no late reply is left once
  a read of the current connection has succeeded;
- `LandedInv`: the version a write left in the station is not newer than the
  register, nor than the read-back that follows it; a write is pending only
  while its task waits for it or has failed;
- `OrderInv`: as long as nothing but successful calls has written, the value
  requested last is that of the last call in the queue, or, when all have
  written, what the register holds or is about to. `TroubleLasts` shows that
  the premise, once false, stays false.

`TypeStep`, `LockStep`, `SnapshotStep`, `LandedStep` and `OrderStep` are the parts
of the step, one case per action. `Inductive`, `TypeCorrect`, `SingleClient`,
`Monotonic`, `FreshReadBack` and `LastOneWins` follow. `SingleClient` is about the
tasks of one coordinator; finding 3 is about two of them.

`ScheduledChargeProofs` proves the scheduled charge for every resolution of time
(`Minute` ticks), every longest delay, any wait and every horizon. `IInv` adds
to `TypeOK` and `ShowsTheSchedule` that the history variables are in step
(`EditsInv`) and that the delay of a call is the nearest to the time it asks for, as it
was when the call began (`CallInv`). `RoundedFacts`, `ProjectedFacts`,
`NativeFacts` and `ScheduleFacts` say what the rounding, the projection,
`native_value` and a new schedule may do; `TypeCorrect` and `NearTheSchedule`
follow. `NoDrift` needs `DriftInv`, by which a remembered time whose write waited
half a minute at most, or that was adopted, agrees with every countdown the
schedule in the station can still show; it has no hypothesis, as the wait is in the
state. The rounding of the delay takes
half a minute of the tolerance of two, the station's own minutes one,
and the wait has what is left. A restart leaves the time alone where the state
shown is the remembered one (`TargetStays`).

`EntryOptionsProofs` proves `ReadFirst` and `InForce` for any number of dialogs,
setups, changes and readings. Its `IInv` adds to `CorrectionInForce`

- `KindInv`: the kinds of the variables the argument is about;
- `LifeInv`: from a setup on, the newest coordinator is the registered one and was
  not shut down; from the first refresh on, it has been read and changes of the
  options are listened to; entities are there only when the entry is loaded.

A poll, a service call and a step of a dialog is `Outside` the entry's life
(`TaskSteps`, `DialogSteps`): it leaves readings with some coordinator, and
changes the samples only with a reload requested if anybody listens, which is all
`OutsideStep` needs. The steps of the entry's life have a lemma each. From
`EntryAssumption` the argument uses that there is a setup and that `None` is no
reading.

The second half is about the samples. `DialogInv` consists of `OptionsInv`
(samples were read while charging, and there are no more of them than changes),
`TaskInv`, `PollInv` (a dialog that polls is in a coordinator, which has readings
if the dialog has seen some) and `FittedInv`. An `Answer` is what a dialog may do
to the options; every step of a dialog gives one, and a step of anything else
leaves dialogs and samples alone (`QuietStep`, `EntrySteps`). `WithoutKeeps` is the
induction over the loop that drops samples: of those the user did not tick
none is lost. `DialogsInductive`, `TypeCorrect`, `ChargingOnly` and `NothingLost`
follow, the last about dialogs that add a sample.

`Fresh` needs an invariant of its own, `FreshInv` (`FreshInductive`): coordinators are
numbered as they are made, one that has not been made has no readings, and what
a coordinator newer than the one a dialog polls has read, it read after the dialog's
submission. So a reload that overtakes the poll leaves readings that are fresh as
well; if the poll's coordinator is still registered, those of the poll are.

`PowerReadingsProofs` proves the calibration for every load, every error of the
station that is a line in the charge power, every set of rates and any number of
samples. The invariant is small: every sample was taken while charging, on the
line or, with a glitch, near it. The work is in the sums. `SumLinear`
and `SumPositive` are inductions over the samples; `SpreadPositive` makes
the denominator of the fit positive as soon as two rates differ; `FitBalances` is
the pair of normal equations. From these, `TruthShown`: exact samples give back
the line; and `LeastSquares`: no line of rational coefficients leaves less, since `Window`
and `Parts` are arbitrary (`NoNearer` for numerators over a common denominator, `Scaled`
to bring the fit to it).

`EntitiesProofs` proves what the entities write and show, for every catalog, every
product and every snapshot. The invariant adds to the properties of the writes that
a snapshot, once there, holds the banks (`DataInv`), which the charging current's
ceiling needs, and that the entities were built from a register's content
(`BuiltInv`).

Writing (`NothingRefused`, `AsAsked`, `Permitted`): a request is `Sound` when the
allowlist permits it and its value is among those that satisfy the user;
`SelectsAreSound`, `SwitchesAreSound`, `LightIsSound`, `ThresholdsAreSound`,
`CurrentsAreSound` and `SchedulesAreSound` show it for each platform, the last three from
what rounding can do to a number within limits. `SoundIsSafe` takes a sound request through the
check of the library, `WriteStep`, `ServiceStep`, `SpanStep` and `LibraryStep`
through a step.

Showing (`SelectsShown`, `GateApplies`, `SensorsTruthful`): `PositiveKeeps` is the
induction over the options a gate leaves, so a select offers the same
contents whether it is gated or not, without the option 0 (`Honoured` states it of the timer
and of the options above 0). `Reflects` is the invariant of
the loop of `_catalog_descriptions` over the states of a product: the sensors are
those of the first ports with their bits whose names say something, no two share a bit,
and the bits seen are those of the ports met so far. `RoundKeeps` takes it
through one state, `LoopReflects` through all. `NumberedNames`
shows that the numbers make the names differ, by counting the sensors of one name
(`Ranks`) and since no name ends in a numeral by itself (`NumeralsTell`).
`ProblemsAreNamed` takes the two words of a fault group apart.

Of the catalog the proofs use `CatalogAssumption` and `EntitiesAssumption`: the
options of a setting differ; states have identifiers of their own, the first is
an output with a bit, and no name holds a numeral; fault groups have one or
two registers that no other group has; outputs are controlled by registers 24
to 27; the light's modes, where listed, are 1 to 3 with steady on first; what
the station stores for an option fits a register; a healthy station sets no
bit that has a message. All of it holds for every product of protocol 0 and every
fault group in the catalog as it ships.

`DiscoveryProofs` proves the scan, the dump and the config flow for any stations,
advertisements, catalog and registers, and any number of flows. `IInv` has a part for each:

- `ScanInv`: of every address the list has one entry, that of the strongest
  advertisement. `KeepsStrongest` is the step, `Sorted` what sorting by strength
  does: every result finds a place of its own (`Places`) behind the stronger ones.
- `DumpInv`, with `WatchTellsEverything`: a bank not asked for is neither read nor
  printed; `ShownAgrees` and `ShowKeeps` follow what was printed through a change of
  contents and of length.
- `FlowInv`: a flow is `Sound` when it deals with a station of the family under its
  own name, and has found no entry for it unless it is past its check and raced with
  the flow that made the entry. One lemma follows a flow that goes on
  (`FlowGoesOn`), one an entry that is made (`EntryCreated`).

`IdentityOfStation` is an argument about the bytes alone: `BroadcastBytes` finds
identifier, status and serial number in what a station broadcasts, and
`PayloadIsBroadcast` puts the company's number back in front. The
assumptions are those of the modules: addresses and catalog keys are unique, a
station broadcasts an identifier of six bytes, a status and perhaps a serial
number (`ScannerAssumption`); what is heard is an advertisement of some station,
whole or in part (`CommandLineAssumption`); `None` is no entry
(`ConfigFlowAssumption`).

`Recursion` holds what four of these modules need of loops: a set of numbers has a
least one, induction over a set (an operator as a parameter is beyond the
provers, a set is not), the existence of a function by its rounds
(`Recursion`), and an invariant carried `Along` them.

So every safety invariant and every action property of a passing run is stated by
a theorem. Only model-checked is liveness: `EveryCallEnds`, `EveryCallReturns` and
`WritesConverge`. Fairness is defined with `ENABLED`, which this version of the prover does not
expand, and the induction on what is still to be done would take a predicate for a
parameter. Only assumed, and evaluated by TLC for the products of the
runs, is what the sort in `OutputChildren` yields for the light's modes. And a
theorem is about the model: the assumptions on time in `Coordinator`, the
external parts, and the abstractions named above stand before it.

## Plan

Done: the exchange, the register access it implements, the coordinator, the
scheduled charge, the flows and options, the calibration, the entities over the
catalog, the scanner and the command line, with the proofs of all their
safety and action properties.
Next, in the order of importance:

1. The coordinator as an implementation of an abstract register seen
   from Home Assistant: a call either changes it or fails, and what is shown
   follows it. Finding 2 says under which premise.
2. The wait of `ScheduledCharge` from `Coordinator`'s queue: which accesses may be in
   front of a write, and so when it takes effect within half a minute (`lag`).

## Not modelled

- The bytes of a frame and the CRC polynomial: a reply is intact or damaged,
  which is all the exchange decides by.
- Argument parsing and the listings of the command line, reading and caching the
  catalog file, the wording of messages and forms: input and output without a
  state that anything else depends on.
- Sensors that only divide a register by a constant.
- Products of protocols 1 and 2 in `Entities`: the register map was verified for
  protocol 0 (`docs/register-map-v0.md`), and there is no reference for what the
  others' registers mean.
- The exception hierarchy, re-exports and packaging; the tools in
  `analysis/`, which generate the catalog offline and are no part of the running system.
