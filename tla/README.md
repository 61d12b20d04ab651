# MaxPV / EcoPV: a formal model of the solar surplus router

MaxPV diverts the surplus of a photovoltaic installation to a water heater. An
Arduino Nano (`src/EcoPV3/EcoPV3.ino`) samples voltage and current, regulates,
and fires a triac; an ESP8266 (`src/MaxPV3/`) serves the web page, MQTT, timers
and the HTTP relay and dimmer, on the asynchronous TCP and web libraries kept in
`src/Librairies IDE/`. The two talk over a serial line with frames ended by `#`.
This directory holds TLA+ modules that model the program, TLC configurations
that check them on small instances, and TLAPS proofs of the properties that
matter most.

## 1. Inventory

### The Arduino (EcoPV3.ino)

| Part | State | Operations | What makes it correct |
|---|---|---|---|
| Interrupt level | INT1, Timer1 and ADC, gate pin, accumulators, `stats_ready_flag`, error bits | `zeroCrossingInterrupt` (1798-1987), `ADC_vect` (1994-2123), the two Timer1 routines (2130-2144), `stopPVR`, `startPVR`, `fatalError` | no pulse that the regulator did not order, none in the next half cycle; a stopped router cannot fire; statistics are of one window and are not overwritten while read; a loss of the mains reaches `fatalError`; a start ends |
| Regulator | `controlIntegral`, `lastControlError`, the gains | the PI step of the crossing (1881-1911), `SETPARAM` | no overflow of a `long`, a bounded integral, more surplus fires earlier, a lasting surplus is routed, a lasting deficit ends routing |
| Relay | `relayPin`, `Div2_On_cnt`, `Div2_Off_cnt`, `relayMode`, `A_DIV2_EXT` | the automaton of `loop` (700-735), `SETRELAY`, restarts | minimal on and off times, an import opens the relay |
| Modes and boost | `triacMode`, `boostTime`, `burstCnt`, `outputfull` | `SETSSR`, `SETBOOST`, `RSTP`, `RESET`, `PVRScheduler` (1453-1539), the tank check (870-886) | the last order wins; a boost ends on both sides |
| Energy | `routedEnergy`..., the indexes, `indexRoutedJ`, EEPROM | counting (752-779), `SAVEINDX`, `INDX0`, `RSTP`, `indexRead`, `indexWrite` | no energy lost or counted twice; a power cut spoils one index at most; the daily limit |
| Parameters | `pvrConfig`, EEPROM, its magic number | `SETPARAM`, `SAVECFG`, `LOADCFG`, `FORMAT`, `SETSSR` | values in range, the mode ordered survives a restart |
| Sampling | samples, phase and gain calibration | `ADC_vect`, `loop` (651-700) | filters that settle |
| Temperature | `temp`, `previous_t` | `readTemp`, `SETTEMP` | a failing sensor does not hide heat |
| OLED, LEDs | | | display only |

### The ESP8266 (MaxPV3.ino, httprouteur.cpp, mqtt.h)

| Part | State | Operations | What makes it correct |
|---|---|---|---|
| Serial link | receive buffers, the frame being read | `serialProcess` (1180-1282), the senders (1284-1444) | a lost or glued frame never leaves the two sides in disagreement for good |
| Tasks | the tasks of `setup` (808-949), references of the day, `config.json`, the watchdogs' flags | minute and one-second tasks, `watchDogWifi`, `configRead`, `configWrite` | minutes are not missed, the day counts from midnight though the index falls, settings survive, MQTT comes back |
| HTTP relay | `etatrelais` | `relais_http`, `appel_http` (1589-1647) | the relay on the network follows the reported state |
| HTTP dimmer | power believed, counters, index of the day | `httprouteur.cpp` 28-258 | interlock with the triac, same power on both sides, daily limit, off in the end |
| MQTT | connection, subscriptions, retained topics | `mqtt.h` | availability is true, what is shown can be commanded, what is announced is published and right |
| Mirror of the parameters | `ecoPVConfig`, `shouldReadParams` | the 89-second task, `getAllParamEcoPV` | it follows the Arduino's parameters |
| History, web pages | a ring of readings | | display only |

### The libraries (ESPAsyncTCP, ESPAsyncWebServer)

| Part | State | Operations | What makes it correct |
|---|---|---|---|
| TCP client and server | `_pcb`, byte counters, busy flag, error tracker | callbacks of lwIP, `write`, `close`, `abort`, `connect` | no object used after its end, `ERR_ABRT` said once, counters agree with lwIP, connections end |
| Responses | `_state`, lengths, what is left of head and content | `_respond`, `_ack` | the bytes are sent in order, once, completely |
| Requests | the parser's state, parameters | `_onData` and below, handlers' choice | the right handler is called once with what was sent, however TCP cuts it and whatever `malloc` refuses |

### How they interact, and what is hard

* The interrupt routines preempt `loop` and the command handlers, and each other
  only in `ADC_vect` order. The only protections are `stats_ready_flag`
  (0, 9, 1, 0) and short masked sections, one of which lasts milliseconds because
  it writes the EEPROM.
* The ESP commands, the Arduino reports. Neither acknowledges; the receive buffer
  holds 64 bytes; some frames lack their `#`; a command that loses its end runs into the
  next one and is executed with the arguments of both.
* Both sides keep a copy of the boost, of the full-tank state, of the
  parameters and of the relay's state. Either side restarts alone.
* The indexes and the parameters are in RAM, saved on few occasions; power may
  fail at any time, in the middle of a write too, and of one value of four bytes.
* HTTP calls may be carried out and yet fail for the caller. They block the ESP's
  tasks, while its web handlers and callbacks run.
* A callback of lwIP may delete the objects it runs in.

Each hazard is listed at its line in `PROJECT.json`, with the properties that
would catch it.

## 2. Modules

| Module | Part | Depends on |
|---|---|---|
| `PVRouter` | interrupt level, start and stop | |
| `Regulator`, `RegulatorBounds` | PI regulator; the condition on its tuning | |
| `Relay` | relay automaton, HTTP relay | |
| `Boost` | modes and boost on both sides and on the line | |
| `Meter` | abstract specification of an energy counter | |
| `Energy` | energy counters, EEPROM, daily limit | `Meter` |
| `Params` | parameters, their EEPROM, the ESP's mirror | |
| `Dimmer` | HTTP dimmer router | |
| `Esp` | tasks of the ESP, WiFi and MQTT recovery, settings | |
| `Mqtt` | what the broker sees, orders and states | |
| `Connection` | TCP client and server, life of a request, responses | |
| `Request` | parser of requests, routes | |
| `...Proofs` | the theorems of the module; `RegulatorProofs` also those of `Params`, `ConnectionProofs` those of `Mqtt`, `EspProofs` those of `Boost` | the module or the two, TLAPS |
| `MC...` | values of the constants for TLC | the module |

The facets of one program are cut where they share little: `PVRouter`
takes the delay that `Regulator` computes as an input and the causes that
inhibit routing (a full tank, from `Boost` and `Energy`) as another; `Energy`
takes from `PVRouter` only that windows are closed, waited for and lost; `Esp`
says when the MQTT client connects, `Mqtt` what follows; `Connection` takes
from `Request` that a packet makes a request whole, or not, or bad.

### PVRouter

A tick is about 25 counts of Timer1 in the code's proportions. `Tick` moves the
mains, Timer1 and the flags the hardware sets; `AdcBegin`, `AdcCurrent`,
`AdcVoltage` are `ADC_vect` with the time it takes, so that a crossing or a
compare may become pending during it; `ColdCrossing`, `AcceptedCrossing`,
`RefusedCrossing` are the three branches of `zeroCrossingInterrupt`;
`Timer1Compare` and `Timer1Overflow` the two timer routines. Pending routines
are served in vector order (INT1, compare, overflow, ADC). The main program is
a counter `pc` through the statements that matter: the loss test (612-634), the
statistics (651-868), commands, an EEPROM save with interrupts masked, the
statements of `stopPVR` one by one, `startPVR` and its busy wait. An
accumulator is the set of windows its summands come from, named by age, which is
exactly what integrity of a snapshot speaks of.

### Regulator

One action per crossing (`HalfPeriod`), one for the warm-up crossing, one for
`SETPARAM`. The arithmetic of 32-bit `long` is in `Wrap`; `energyToDelay` is the
code's table. `Limit` holds the two anti-windup measures (lines 1890-1894 and
1901). `Tuned` is the condition under which gains are safe: a floor and a ceiling of the
integral between which no product overflows. `TuningAssumption` asks it of all gains that
`SETPARAM` may give while the router runs, since the integral of one gain is met by the
next; gains from 0 to 1000 in any succession do not satisfy it. Gains that are never
changed do, except a `GAIN_I` of 0 (`FixedGainsAreTuned`).

### Relay

`Second` is one second of `loop`: the automaton at the new comparisons, or the
forced level, then the status byte and its frame. The counters are
`static` locals of `loop` and survive `RESET`: `StopPVR` and `StartPVR` keep
them, `PowerCut` does not. `RelaisHttp(delivered, answered)` is one call of
`relais_http`: done, failed, or done and not answered. `cause` and `since` are
history variables.

### Boost

`Second` is what `loop` does each second for modes: the tank check, then the
boost step of `PVRScheduler`, with the frames that reach the ESP or not. The
end of a boost is announced without `#` (1517), so that the announcement and
the next frame are one: that is the variable `glued`. The commands are read one at a time
from a buffer of `MaxCmds`; a command that finds it full is lost. `RESET` may
discard what arrives during the warm-up. A command may run into the next one: `Garbled` is
what the two together may be executed as. A `SETSSR` of no known mode (1192-1195) leaves
`triacMode` as it is, ends the boost (1199) and saves: it orders the mode in use, which in
a boost is `FORCE` or `STOP`, that of the half of the burst. `S_SSR`, which `SETPARAM` sets
to 0..10, `SAVECFG` saves and `LOADCFG` reads, is the mode after a restart; `Others`
stands for the values `SETPARAM` leaves there, modes or none; the run gives it another
mode, and the proof holds for all. `Reasons` are the causes of a full tank (`"hot"`,
`"limit"`): the ESP stops a boost only for the first, and the second keeps a timer from
starting one, as the first does; the run has the first, the proof both. `order` is a
history variable.

### Energy and Meter

`Fire` and `CloseWindow` are the interrupt level; `Process` counts a window,
`Check` is the tank check and the scheduler, in the order of `loop`. The
accumulators start an increment below zero as in the code. `Setup` is a start
with what the EEPROM holds; `CutWhileWriting` is a power cut in the middle of
`indexWrite`, which leaves some indexes written and others not, and the one that was
being written, byte by byte, with anything in it (`Garbage`). `torn` is that index.
`dayEnergy` is what AUTOM has routed since the `RSTP` of midnight; `restarts` counts how
often the limit started again since, because the Arduino was cut off (`indexRoutedJ` is
not in the EEPROM), `INDX0` zeroed it, or the ESP started, which sends `RSTP`. `Meter`
states what counters promise without saying how: the reading is the whole number of
increments of an energy that only grows; zeroing keeps the fraction; a power
cut brings back no more than was read, but in one meter, which it may spoil. `Energy`
implements it with `reading <- index` and the energy as a history variable.

### Params

Two parameters stand for the 22: one that only `SETPARAM` sets and the saved mode of
the triac, parameter 18, which `SETSSR` sets and saves with everything else and
`SETPARAM` sets too: `/api/set` lets any index through. So `SAVECFG`, or `SETRELAY`, which
saves everything as well, may save a mode that no `SETSSR` ordered: `asked` is that mode
until it is saved, or forgotten by `LOADCFG`, `SETSSR` or a restart. `CutWrite` is a
power cut in `eeConfigWrite`: the magic number and the fields before the cut are
new, those after it old, the one being written anything. `GarbledRead` is a
frame made of two, whose terminator was lost: `startsWith` and `endsWith("END")`
accept it. `ordered` is a history variable: the last mode ordered, by `SETSSR` or by
`SETPARAM` and a save, or that an order was garbled or a write cut since.

### Dimmer

`DimmerEngine` is one call of `dimmer_engine` up to its HTTP call, `call` the
call in progress, and `CallAnswered`, `CallFailed`, `InitFailed`... what follows
it in `call_dimmer` and `dimmer_init`. `device` is the dimmers' own power: a call
may be carried out and not answered. Web handlers (`SetMode`, `IndexReset`) run
during a call; midnight, a task, does not. The bytes wrap: `dimmer_compute` grows in every
mode and only AUTOM sets it to zero, so that after FORCE it may wrap in AUTOM too, and a
period lasts up to a byte more. `wraps` counts these, up to `MaxWraps`, until the index is
up to date at the end of a period.

### Esp

`Tick` is time; `blocked` and `portal` say that `loop` is held by a call or by
`wifiManager.autoConnect`. `TimeScheduler` is the minute task, whose timer runs
while `loop` is blocked. `ConfigRead`, `JoinNetwork`, `SetupEnds` are `setup`.
`WatchDogWifi` and `WifiBack` are one function, cut where it waits. The MQTT
client is seen by its callbacks. `index` is the Arduino's `INDEX_ROUTED` and `ref` the
ESP's `INDEX_ROUTED_J`: the index grows, and falls when the page resets it (`ResetIndex`,
`INDX0`) or the Arduino is cut off and reads an older one (`ArduinoCut`); `ref` is set at
midnight and at the end of `setup`, then to what STATS said, or to 0 when another frame
ended the wait. `since` (energy since midnight), `apart` (what of it a start of the ESP
left out and the index has fallen by), `reference`, `missed`, `late`, `chosen` are history
variables.

### Mqtt

The client's and the broker's view of the session are separate variables: the
link may break between two messages of a greeting (`PublishParts` lets a prefix
arrive), and the will of a lost session comes when the broker notices. A
behaviour follows one device (`dev`), since devices do not meet. The mode of an
Arduino device is known to MaxPV through `Stats` only, but `relayModeEcoPV` and
`SSRModeEcoPV` publish what they order at once. `mqttActive` is the setting: the publication
task tests it, the start of the client from the one-second task does not, so that a
MaxPV on which MQTT is off connects and announces what it never feeds.

### Connection

A connection is a record and a function of the library an operator on it, so
that the order of calls inside a callback, with the objects it deletes, is the
code's. `f` is what lwIP or `malloc` refuses during the callback. `TurnedAway` is a
connection for which `_accept` gets no client. The pcb in
lwIP (`lwip`, `queued`, `flight`) is beside the library's idea of it (`pcb`,
`unsent`, `unacked`). The same client serves the web server and, as `owner =
"mqtt"`, the connection to the broker, which connects again after its end.

### Request

`OnData` receives a packet of any length; below it one operator per parser
function and, for multipart bodies, per state of the automaton. Bytes are
symbols. A packet takes one `Turn` of the loop of `_onData` for each line of the head
and one for the body; `OnBytes` is its inner loop. `PlainPost` decides, on the first packet
of a body of type text/plain, whether it is read as a form or given to `handleBody`;
`refused` is the part of a multipart body for whose buffer there is no memory. `Routes`
are those of `setup` in their order and those of `AsyncElegantOTA.begin`, which the
repository does not contain: external. `WellFormed` says what requests there
are: the lines end with LF, the values of a multipart body do not contain the boundary
as RFC 2046 demands, and nothing bounds their length. The items of a query or a form
are records of a name, a value, whether there is a "=" and whether the client encoded
them; `Text` is what it wrote of one and `ItemsFrom` of a list, with "&" between them.
`Meaning`, `PartsUpTo` and `Expected` are the reference: what a request stands for,
defined on its items and parts and not on its bytes. `ParserInv` (in `RequestProofs`)
is what the parser has understood of the first p bytes of the request, with a case for
each place they may end at: in the first line, in the headers, before the parts, in the
head or the value of part k, between two parts, in a form or a raw body, at the end. Of
the parameters it says what is known at each of them; in a form, which is parsed again at
each packet, that what was found and what is still to be found make up the whole.

## 3. Runs

| Run | Bounds | Shows |
|---|---|---|
| `router_noise` | window of 1 cycle, 1 ignored crossing, sign arbitrary at each sample, masked sections up to 2 ticks, half period longer than `PULSE_END` | `SafeWhenStopped`, `SnapshotOfOneWindow`, `SnapshotStable`, `LossReported` |
| `router_clean` | regular mains, no long masked section, 2 ignored crossings | `GateFollowsCommand`, `WarmupEnds` |
| `regulator_tuned` | 7 errors over the sensors' range, 2 values of each gain, the default and a larger one, the code's table | `NoOverflow`, `MoreSurplusFiresEarlier`, `FullOnSurplus`, `NothingOnDeficitTuned` |
| `relay_times` | minimal times of 2 and 3 seconds, everything enabled | `MinimalOn`, `MinimalOff`, `ImportOpensRelay`, `HttpRelayFollowsAnswers` |
| `boost_modes` | bursts of 2 seconds, boosts of 0 and 2 seconds, `SETSSR` of one mode and `SETPARAM` of another, a tank that is full when it is hot, 2 commands in the buffer | `OrderHolds`, `BoostSettles` |
| `energy_meter` | increments of 2 and 1, at most 1 a window, 6 and 1 counted, no whole increment routed allowed per day, the limit started again once a day, a torn index reads 2 | `DailyLimit`, `Metered` |
| `dimmer` | dimmers of 3 units, periods of 2 seconds, 1 retry, a byte of 4 values, 2 wraps counted, readings -4 to 4 | `Interlock`, `PowersAgree`, `IndexInTime`, `StopsInTheEnd` |
| `params` | one value and the erased one, 2 modes, one that `SETSSR` orders, 2 commands and 1 frame in the buffers | `InRange`, `ModeSurvives`, `MirrorFollows` |
| `esp` | days of 2 minutes of 3 units, the task every 2, blocked for up to 2, an index of up to 2 | `NeverTwoMissed`, `DayFromMidnight`, `SettingsKept`, `MqttComesBack` |
| `mqtt` | 1 command in the buffer, a line that loses | `Availability`, `Commandable`, `Fed`, `ShownInTheEnd` |
| `connection` | send buffer of 2 bytes, heads of 1 to 3, contents of 0 to 3, timeouts of 2 polls, 2 packets, 2 connections to the broker | `NoUseAfterEnd`, `CountersAgree`, `InOrder`, `ConnectionEnds` |
| `request` | boundary of 2 bytes, upload buffer of 2, packets of 1 to 6 bytes or the rest, all short values made of pieces of a boundary, queries and forms of up to 3 plain items of up to 3 bytes or of 2 encoded ones, the same as text/plain and with NUL, each file refused its buffer, all routes with known and unknown methods, an encoded URL | `HandledOnce`, `ParsedAsSent`, `PiecesAreWhole` |

Why these bounds are enough. *Router*: windows are named by age (current, last,
older), so a window of one cycle already has every interleaving of closing,
transfer, use and dropping; the order of the times (0 < delays < debounce, or
delays < `PULSE_END` < half period) is the code's. *Regulator*: the errors are
the extremes of the sensors, the neighbours of zero and values between; the
integral itself is not bounded by a constraint, the regulator bounds it. *Relay*:
two different times, the shorter at least 2, tell a decrement too many and a
mixed-up counter apart. *Boost*: two commands suffice to have one lost, one
discarded, one overtaken and two garbled; a period of 2 has both halves of a burst; the
modes that are not ordered are met in restarts and at the end of boosts. *Energy*:
the energies allow three increments and their fractions; one more start of the limit, two
allowances in a day; a torn index reads more than was counted of it. *Dimmer*: the power
may be partial, clipped at both ends, halved, or too large to subtract; the
byte wraps between two periods. *Params*: two commands make a garbled pair, two
fields a cut with an old and a new side. *Esp*: minutes may be missed once and
the task may run twice in a minute, across midnight; the proportion Period +
Block < 2 Minute is the code's (60 s, 59.654 s and calls of some seconds).
*Mqtt*: one device at a time, every prefix of a greeting. *Connection*: heads
shorter, equal and longer than the buffer, contents of none, part and more than
one buffer. *Request*: values come as close to a boundary as its length allows
and cross the upload buffer twice; the first packet of a text/plain body ends before,
on and behind its "=".

The only bounds that are not parameters of the code are `MaxMask`, `MaxCmds` and
`MaxFrames` (64 bytes, or more, in the code), the saturations of `elapsed`,
`since` (Relay), `missed` and the ages of `Connection`, `MaxEnergy`, `MaxRestarts`, `MaxBacklog`, `MaxWraps`,
`MaxIndex`, `Packets` and `Connects`; none is needed by the proofs' arguments.

Deadlock is checked in every run but `request`, where a request ends.

### Fairness

* `PVRouter`: weak fairness of time and of interrupt service is hardware; strong
  fairness of the steps of `startPVR` says the main program runs between
  interrupts, as the routines take 24 and 40 µs and samples are 60 µs apart.
* `Regulator`: weak fairness of `Regulate`: crossings come while the mains does.
* `Relay`: seconds pass (weak); a frame arrives again and again, and a call that
  is made again and again is answered in the end (strong): the code repeats both
  every second. That the answer of a *call that was carried out* is never lost is
  not fairness; `HttpRelayFollowsAnswers` states it as a hypothesis.
* `Boost`: seconds pass, the 30-second report arrives again and again, a received command is
  read. Nothing is assumed of the user, the page or the timers.
* `Params`: both sides run (weak); what is asked for every 89 seconds is not lost
  each time, nor is each answer (strong).
* `Dimmer`: seconds pass and a call ends by its time limit (weak); the network
  fails for long but not for ever (strong, of the calls' answers).
* `Esp`: time passes and `loop` runs what is due (weak); the one-second task,
  which other work may overtake, and an accepted connection are not put off for
  ever (strong). WiFi and the broker may fail; the property says what it needs.
* `Mqtt`: the periodic tasks run, a received command is read, the broker notices
  the end of a session (weak).
* `Connection`: lwIP's timer runs (weak); a browser that has everything closes; a
  name is found or not, a connection is made or given up by lwIP. Nothing is
  assumed of a peer that does not acknowledge, nor of memory.

### What the models show of the code

Where the code does not do what its words say, the property keeps what it does, and its
comment names the exception:

* The daily limit ("limites de routage journalières") starts again within the day when the
  Arduino is cut off, as `indexRoutedJ` is not in its EEPROM, when `INDX0` is sent (1088) and
  when the ESP starts, which sends `RSTP`. `DailyLimit` counts the allowances.
* A dimmer switched on by a call that was carried out and not answered, whose OFF in
  `dimmer_init` failed as well, is believed off. With the order OFF the engine is no longer
  called (MaxPV3.ino 936), over the daily limit it makes no call (httprouteur.cpp 73): the
  dimmer stays on, although the network is there again. `StopsInTheEnd` excepts it
  (`Forgotten`).
* `resetindex`, "reset tous les index" (MaxPV3.ino 436), keeps `INDEX_ROUTED_J` and the other
  references (1449-1452): the indexes of the day are negative until midnight. A power cut of
  the Arduino does the same. `DayFromMidnight` deducts the fall (`apart`).
* Any frame that ends in END ends each wait of `setup` (MaxPV3.ino 788, 1193): after the tail
  of a STATS frame and a late answer to VERSION, `setRefIndexJour` copies empty readings, and
  the day is the whole index. `DayFromMidnight` excepts that day.
* "Démarrage du client MQTT si configuré" (MaxPV3.ino 747): `setup` tests `mqttActive`, and so
  does the publication task (946); the one-second task (927) and `loop` (966) start the client
  all the same. With MQTT off the entities are announced as available and never fed. `Fed` and
  `ShownInTheEnd` speak of the time when it is active (`Lasting`).
* When `new (std::nothrow)` gives no client, `_accept` closes the pcb
  (ESPAsyncTCP.cpp 1284) and goes on to close it again (1293). `NoUseAfterEnd` excepts that pcb.

Other facts, which properties state as their hypotheses or exceptions:

* The comment of the compare routine (2133-2134) says it needs `PULSE_END > OCR1A`.
  When an EEPROM save masks interrupts across a crossing, the pending compare is
  served after the crossing has written 30000.
* Line 1901: integration is frozen at saturation even when the error is negative.
  With constant gains a deficit ends routing (`NothingOnDeficitTuned`); after
  `GAIN_I` is raised while full power is routed, a moderate deficit may last.
* With the external module selected (732), the status bit that the HTTP relay
  follows is never set, so that relay is never closed.
* The OFF call of `relais_http` is made only if the ESP believes the relay is ON;
  an ON call carried out but not answered is never undone by itself.
* The ESP waits for `outputfull` to stop a boost of a hot tank (MaxPV3.ino 913-916),
  but the Arduino computes it only in AUTOM, which a boost leaves (871). The triac
  itself is held off by the temperature test of the crossing.
* Nothing increments `nb_hours` (1460): the scheduler never saves the indexes.
* `SETRELAY` is tested before `SETRELAY+` (1164, 1245): the latter is never reached.
* `eeConfigWrite` writes the magic number first, and `SETSSR` saves the parameters
  that were set and not confirmed by `SAVECFG`. A garbled `SETSSR` during a boost
  ends it in FORCE or STOP, whichever half of the burst it is, and saves that.
* Every index of `/api/set` reaches `SETPARAM`, 18 (`S_SSR`) too, whose bounds, 0 to 10, are
  wider than the modes: the next `SAVECFG` or `SETRELAY` saves it, and a restart uses it.
* The defaults of the dimmer, 1000 W and 5 s, are more than the one Wh that a period
  counts: its daily limit is then reached late, without bound. Other settings are late by
  one Wh and one period, and by one more each time `dimmer_compute` wraps (`IndexInTime`).
* After the failsafe, or a restart whose first call fails, a dimmer may go on
  unknown to both (`abandoned` in `Interlock`). The mode set over MQTT is not saved.
* A minute may be missed: `startMqtt` blocks for 3 s and the period leaves 346 ms.
* The entities of the detailed data stay announced after that setting is turned off;
  `P_EXPORT` is published as "auto" when there is none (484-486); the relay's
  order is published as a digit (MaxPV3.ino 1376-1379), which the next transmission
  corrects; production is not published when it is negative (496), though it is
  announced.
* `onMqttMessage` reads its payload without its length, and its branch for
  `MQTT_SET_PV`, not subscribed at present, would write the production into the
  element of `ecoPVConfig` that is `T_DIV2_OFF` (mqtt.h 453-459).
* In the libraries: `ACErrorTracker` is never reset, so a client that connects again
  cannot report a second `ERR_ABRT` (`NoUseAfterEnd` says so), and the bytes in flight when it
  broke stay counted (`CountersAgree`); `_dns_found` does not look at the result of
  `connect`; a failed `malloc` in `_ack` loses bytes; a callback response without
  a length ends early when its head just fits (`InOrder`).
* In the parser: what a text/plain body is depends on where TCP cuts it (`GivenRaw`); after
  a file without a buffer the rest of a multipart body is skipped and the handler called all
  the same (`Read`); a method it does not know matches the routes of every method.

## 4. Theorems

All hold for every value of the constants that satisfies the named assumption of the module.
They are about `Spec`, without the fairness of the runs. A module extended together with
another has names of its own (`ParamsSpec`, `MqttSpec`, `BoostSpec`).

* **PVRouter** (`RouterAssumption`). `Typing`. `StoppedIsSafe` (`SafeWhenStopped`)
  from `StopInv`, which says what each statement of `stopPVR` leaves true: the
  ADC is off and idle before the crossing is detached, no crossing is pending
  before the timer is stopped, so nothing can restart it before the gate is
  cleared. `SnapshotIntegrity` (`SnapshotOfOneWindow`) and `SnapshotUndisturbed`
  (`SnapshotStable`) from `HandshakeInv`, which says who owns accumulators and snapshot at
  each value of the flag; the key fact is that no crossing is pending while the
  flag is 9, because the ADC routine that makes it 1 runs before a crossing can
  be raised. `LossNotForgotten` (`LossReported`) from `LossInv`.
  `GateOfItsHalfCycle` (`GateFollowsCommand`) from `SamplingInv` and `GateInv`. The
  first bounds how far the mains may be past a zero when its crossing is served: one
  tick between two samples and one for each conversion. The second follows Timer1
  through a half cycle: it counts with the mains, at most two ticks behind, and the
  compare is pending exactly when it has reached `OCR1A`; then it runs for the pulse.
  The hypothesis is `RegularMains`: regular mains, no masked section that lasts, and a
  `PULSE_END` at least two ticks before the end of the half period, the time of the two
  conversions that may hide a zero. With a tick of one count of Timer1 (64 µs, about one
  conversion) the code has 148 and 156, so 8; with a margin of one tick TLC finds the
  pulse of a half cycle in the next one. No comment of the code states this condition.
* **Regulator** (`RegulatorAssumption`, `TuningAssumption`). `RegulatorTyping`,
  `NoWindup` (`IntegralBounded`), `ArithmeticSafe` (`NoOverflow`), and `SurplusOrder`
  (`MoreSurplusFiresEarlier`) from them, all three for tunings that satisfy the assumption:
  nothing wraps, so the command rises with the
  error (`CommandRises`: the quotient, the clips), and a table that falls turns this
  round (`DelayFalls`). The first three are
  one induction: without overflow the command is the correction divided by the
  scale, a saturated or a null command bounds the integral, and a bounded
  integral does not overflow. `FixedGainsAreTuned` says how far the assumption reaches: for
  every `GAIN_I` of 1 to 1000 and `GAIN_P` of 0 to 1000 that are not changed while the router
  runs there are a floor and a ceiling that satisfy it, with a 32-bit `long` and the default
  calibration.
* **Params** (`ParamsAssumption`; in `RegulatorProofs`). `ParamsTyping`,
  `ParametersInRange` (`InRange`), `SavedMode` (`ModeSurvives`) from `SavedInv`. Neither
  property is inductive: LOADCFG moves the EEPROM into the RAM, SAVECFG, SETSSR and the
  LOADCFG of an erased memory move the RAM into the EEPROM. So both memories are in
  range together, unless a write was cut; and the RAM, not only the EEPROM, has the
  mode ordered last, or the one that a `SETPARAM` has asked for since, whether or not the
  memory is erased. `LineTyped` says that what is
  read from the line is a command with an argument of its kind.
* **Relay** (`RelayAssumption`). `RelayTyping`; `MinimalOnTime` and
  `MinimalOffTime` from `CounterInv`: at most one counter runs, and each plus
  the time since the last change covers the minimal time.
* **Boost** (`BoostAssumption`; in `EspProofs`). `BoostTyping`; `OrdersHold` (`OrderHolds`),
  inductive once the types are known, as `order` follows what a garbled command orders.
* **Energy** (`EnergyAssumption`). `EnergyTyping`. `EnergyMetered`: every
  behaviour of `Energy` is one of `Meter` (`Metered`), from `CountInv`: energy =
  index × increment + fraction, and the EEPROM is never ahead; a restart spoils one meter at
  most, the one whose index was half written. `DayLimited` (`DailyLimit`) from `DayInv`,
  which adds to what the present allowance has spent (`Spent`) what the windows under way may
  still bring: a restart of the limit leaves behind at most one allowance.
* **Dimmer** (`DimmerAssumption`). `DimmerTyped`. `ArduinoTold` (`Interlock`) and
  `BeliefIsTrue` (`PowersAgree`) from `OrderInv`: an order in progress is an OFF
  that leaves no power, or one that the Arduino was told of before it left; the
  powers are only apart while the OFF of `dimmer_init` is on its way
  (`PowersInv`). `IndexPrompt` (`IndexInTime`) from `LagInv`, which bounds the
  watt seconds by what the seconds of the current period and of one more for each wrap can
  have added.
* **Esp** (`EspAssumption`). `EspTyping`: every variable keeps its type; the energy
  routed since midnight is bounded by the minutes gone (`NowInDay`), so
  a day has no more of it than minutes. `MinutesSeen` (`NeverTwoMissed`) from `MinuteInv`: the
  time without a call of the minute task and the time to the next one make at
  most a period and a block; it rests on what a unit of time does to quotient and
  remainder (`NextUnit`). `DayCounted` (`DayFromMidnight`) from `DayInv`, and
  `SettingsSafe` (`SettingsKept`) from `SettingsInv`, which follows the setting
  through the steps of `setup`.
* **Connection** (`ConnectionAssumption`). A callback is a composition of operators on
  one record, and it may delete the objects it runs in. So `ConnectionProofs` first says
  which fields each operator changes (`Frame`, the lemmas `...Does` and `...Frame`),
  then what a connection may be within a callback (`InCall`: live, or ended by this
  callback), and only the return of the callback gives back the invariant.
  `ObjectsEndOnce` (`NoUseAfterEnd`) from `OwnedInv`: client, request and pcb of the
  server exist together, the pcb of the client to the broker is open exactly while its
  owner believes so, and an abort is told by the callback that made it; this holds
  whatever lwIP or `malloc` refuses, but for the pcb of a client that could not be made,
  which has no owner and is closed twice. `CountersAreTrue` (`CountersAgree`) and `ResponseWhole`
  (`InOrder`) from `InStepInv`, as long as nothing was refused: what is queued is sent
  at once; a piece is only written when everything before is acknowledged, so that the
  whole buffer is free (`Ready`); and for each state of each kind of response, what of
  its head and content was given to lwIP, what is left, and how that compares with the
  response's own counters (`InHeaders`, `InContent`, `Given`). For a response without a
  length the invariant must say that pieces of its head fill the buffer (`front - head`
  is a multiple of `SndBuf`): this is where the head that just fits is lost.
  `ConnectionTyping` (`TypeOK`) needs an invariant of its own, `RoomInv`, since
  `InStepInv` says nothing once lwIP or `malloc` has refused something: what is queued
  and in flight fits in the send buffer, and what has been given, with what is left of
  head and content, is no more than the response (`Bounded`, `Fitting`). TLC checked
  it before the proof. Each operator that writes is shown to keep it with any answer
  of lwIP (`...Fits`): what it takes is no longer than what `tcp_sndbuf` reported.
* **Mqtt** (`MqttAssumption`; in `ConnectionProofs`). `MqttTyping` (`MqttTypeOK`): a
  command is on the serial line only for a device of the Arduino, since only its modes
  are sent there, and never more than `MaxCmds`; what the broker holds is what a
  transmission may carry (`Proper`), wherever it was cut. `AvailabilityIsTrue` (`Availability`) and
  `AvailableIsCommandable` (`Commandable`) from `BrokerInv`: wherever a greeting
  is cut, no state is sent before the commands are subscribed (`GreetingOrder`),
  and other transmissions hold states only (`QuietPublish`).
* **Request** (`RequestAssumption`). `OnceHandled` (`HandledOnce`), `SentIsParsed`
  (`ParsedAsSent`) and `PiecesWhole` (`PiecesAreWhole`) from `ParserHolds`, which says that
  `ParserInv` is inductive; TLC checked it on the instance of the run `request` before the
  proof. The argument goes from small to
  large. A byte in the value of a part (`ValueByte`): the parser has matched m bytes of
  the delimiter, and m is the longest such match; the next byte goes on with it, or all m
  were of the value. This is true since the delimiter has its only CR at its beginning,
  so that none of the m bytes begins another (`DelimiterIs`, `EndsNext`), and the end of the
  value is not overlooked since the value has no delimiter in it (`Inside`). Then the other places
  of a multipart body (`PartByte`), all bytes of a packet (`OnBytesDoes`), a line of the
  head in however many packets (`LineIsRead`), a turn (`OneTurn`), five turns, which
  always suffice (`OnDataDoes`), and a packet (`PacketDoes`). The loops over bytes
  and turns are recursive functions; that they are what their bodies say, and the induction
  over their steps, is proved in the first section from the well-foundedness of the
  naturals, on sets, as the library's induction theorems take an operator. What is
  read of a text/plain body, once its first packet has decided, is what is read of a form or
  of a raw body; after a file that is refused its buffer nothing is read, but the bytes are
  counted, so that the handler is still called with the last one. For `HandledOnce` it
  remains that the first route that can is the nearest, for a known method the only one
  (`RoutesDiffer`).

  For `ParsedAsSent` the same way up for texts. `UrlDecode` undoes `Encode` for strings of
  any length: it takes one code at a time (`DecodeMore`), an encoded string is such a
  sequence (`CodedBy`, `EncodedIs`), and a plain one has nothing to decode (`PlainIs`).
  The first "=" of an item is the one the client wrote between name and value (`ItemFound`),
  and the next "&" the one it wrote after the item, since an encoded item has none
  and a plain one may not have any (`ListMore`, `ListLast`, `ItemsFound`, `QueryFound`).
  A byte of a form leaves together what was found and what is to be found (`FormByte`),
  and a part adds its own parameter or file (`KnownNext`). Last, the handler looks a name
  up in query, form and parts as one list, of which the query comes first
  (`QueryComesFirst`, `FoundInQuery`).

Only model-checked: the liveness properties (`WarmupEnds`, `FullOnSurplus`,
`NothingOnDeficitTuned`, `ImportOpensRelay`, `HttpRelayFollowsAnswers`, `BoostSettles`,
`StopsInTheEnd`, `MirrorFollows`, `MqttComesBack`, `ConnectionEnds`, `Fed`,
`ShownInTheEnd`), since the prover has neither fairness nor ENABLED.
Every other property that a run checks is a theorem.

The `...Mutant` definitions are plausible mistakes in the definition that follows
them; replacing it by one must make TLC find the property violated. They are not
part of the models.

## 5. Not modelled, and the plan

* **Sampling**: the calibrated powers are floating point; their sign and size are
  inputs of `Regulator`, `Relay` and `Energy`.
* **Temperature sensor**: only the comparison with `T_MAX` (`Boost`).
* **Pulses of the external meter**: their interrupt routine counts them; every copy of
  their index, that of `indexWrite` too, is made with interrupts masked.
* **Fields of the frames, texts of `/api/get`, pages, history, OLED, LEDs**: display.
* **Telnet, FTP, OTA, DNS, NTP**: they take time in `Esp` and change nothing else.
* **Parts of the libraries that MaxPV does not call**: WebSocket, event source, TLS,
  templates, chunked responses, authentication, synchronous client, SPIFFS editor.
* **`amorceESP`**: first flashing of the ESP.

What remains: action properties of the parameters and of the settings, which no run
checks yet.
