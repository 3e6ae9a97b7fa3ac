# Formal model of the SmartCup program

The repository is the MiCOKit SDK with one product program on top of it,
`src/Demos/SmartCup`: a cup with a key in its foot, an RGB light, an MP3 player
and a connection to the FogCloud service.  This directory models that program, and the
parts of the SDK it trusts its settings and its firmware to, in TLA+: TLC checks small instances, TLAPS proves the main properties for every
value of the constants.  All paths below are relative to `src/Demos/SmartCup`
unless they start with `src/`.

## 1. Inventory

| component | state | operations | talks to |
|---|---|---|---|
| cloud receive queue (`net/fogCloud/MicoFogCloud.c`, `fogCloud.c`) | queue of 5 message pointers, its mutex, byte counter `total_recv_buf_len`, heap | callback `cloudMsgArrivedHandler`/`MicoFogCloudCloudMsgProcess` (service thread), `MiCOFogCloudMsgRecv` (downstream thread) | FogCloud library, downstream thread |
| settings (`net/Factory/If_MO.c`, `OMFactory.c`) | object model in RAM, staged groups, change flags, flash image | setters, getters, `IsXxxChanged`, `OMFactoryInit`, `OMFactorySave`, defaults | written by downstream thread and boot; read by every thread |
| downstream commands (`net/user/user_downstream.c`) | none of its own | `ParseOMfromCloud`, `IsParameterChanged` | settings, light, player, track queue, cloud |
| lights (`net/Monitor/LightsMonitor.c`, `led/led.c`) | colour and counters of the breath, PWM channels | `lights_thread`, `LED_openRGB` | reads settings; shares the PWM with the downstream thread |
| cup monitor (`net/Monitor/HealthMonitor.c`, `key/key.c`, `User/main.c`) | last key level, two semaphores, put-down and schedule timers | `KEY_irq_handler`, `health_thread`, timer callbacks | key interrupt, settings, track queue |
| music (`net/Monitor/MusicMonitor.c`, `mp3/mp3.c`) | track queue of 5, file name buffer, player volume | `PlayingSong`, `music_thread`, `MP3_playSong` | fed by health thread, timers, downstream thread |
| notifications (`net/Monitor/DeviceMonitor.c`, `HealthMonitor.c:289-312`, `net/user/SendJson.c`) | change flags | two 2 s timer callbacks | settings, cloud |
| start-up (`User/main.c`, `net/user/user_main.c`, `net/fogCloud/MICOAppEntrance.c`) | which objects exist | `user_main`, `net_main`, `SntpInit`, `*Init` | everything |
| activation and reset (`net/fogCloud/MicoFogCloud.c`, `MicoFogCloudConfigServer.c`, `fogCloud.c`) | the shared `easyCloudContext`, `fogcloudConfig`, the config server's listener and its `j`, one thread per connection | `fogcloud_main_thread`, `fogCloudConfigServer_listener_thread`, `fogCloudConfigClient_thread`, `fogCloudDevActivate`, `fogCloudDevAuthorize`, `fogCloudResetCloudDevInfo` | cloud, phones on the LAN, settings store |
| firmware update (`fogCloud.c`, `MicoFogCloudConfigServer.c`, `src/MICO/system/config_server`, `src/Bootloader/Update_for_OTA.c`) | partitions of application and `OTA_TEMP`, boot table, `romVersion`, `ota_crc`, `RecvRomFileSize` | `fogCloudDevFirmwareUpdate`, upload to the SDK's config server, `update()` of the boot loader | cloud, phones, settings store |
| settings store of the SDK (`src/MICO/system/mico_system_para_storage.c`) | `flashContentInRam`, two copies in flash, each with a CRC | `mico_system_context_update`, `_restore`, `MICOReadConfiguration` | called by the cloud's threads, the power daemon, the config server and at start; the boot loader writes to it |
| rest of the SDK (`src/MICO`, drivers, FatFs) | — | — | below all of the above |

### What is hard, and what makes each component correct

* **Cloud receive queue** - two threads, one queue under a mutex and a counter
  that is not.  Correct: every allocated message is owned by exactly one place;
  messages are handled in order; an old one is given up only when the queue is
  full; the queue *is* a drop-oldest mailbox; every accepted message is
  eventually freed; the counter tells what is buffered (it does not: finding 1).
* **Settings** - groups arrive piecemeal, saving erases the only copy, power may
  fail at every flash operation, flash operations return errors.  Correct: what
  is in force while the thread waits is what a restart brings back; no change is
  forgotten until a later message; no restart accepts a mixture of two saves;
  the player follows the stored volume.
* **Lights** - two threads program three PWM channels one after the other with
  values they read without a lock.  Correct: the breath keeps its shape and its
  range; a disabled notify light stops breathing; the light settles at what is
  configured.
* **Cup monitor** - interrupt, semaphores with a timeout, a level read late,
  timers that are reinitialised while their callbacks run.  Correct: a change of
  the key is noticed; at most one reminder of a tag is under way, and none is lost
  but when its tag is armed during its callback; do-not-disturb is right across
  midnight.
* **Music** - everybody waits for a place in a bounded queue, in timer callbacks
  and in the thread that empties the other queue; a failed file lookup leaves the
  previous name; the volume is read three times without a lock while it may
  change.  Correct: every request is served and none is lost; what plays was asked
  for; a new volume reaches the codec while the song plays.
* **Activation and reset** - every thread puts its token in the one context, sends
  what the context holds by then, and saves what it holds after the answer; the
  cloud takes requests in any order, some of them after the cup has given them up.
  Correct: the cup keeps the token the cloud knows it by, and where it cannot, the
  next activation that runs alone restores that; no accepted connection is lost.
  That every connection is closed in the end is *not* promised by the code: after
  part of a header no timeout runs (`MicoFogCloudConfigServer.c:144`), and the reply
  to a failed request is tried until there is memory for it (408).
* **Firmware update** - a version is saved before the image is due to be installed,
  all clients share the download and what is known of it, the boot loader erases
  the application before it copies.  Correct: no power failure leaves a device
  without a firmware; the recorded version is the one that runs or is about to be
  installed, and where it cannot be, again from the next record on; an image that
  is due gets installed in the end; only data that the CRC covers are copied (they are not:
  finding 4).
* **Settings store** - a save is eight flash operations, some callers hold no lock,
  the boot loader rewrites the first copy.  Correct: one whole copy at any time; a
  completed save lasts; a start loads what the flash holds, and resorts to defaults
  only when it must (the repair from the backup does not: finding 3).
* **Notifications** - test-and-clear before an unchecked send.
* **Start-up** - producers exist before the queues and semaphores they use.

PROJECT.json lists every hazard at its line, with the properties that cover it.

## 2. Modules

| module | what it is |
|---|---|
| `Mailbox` | abstract specification: a bounded first-in first-out mailbox that drops its oldest message |
| `FogMsgQueue` | the receive path in detail; implements `Mailbox` |
| `MCFogMsgQueue` | the claim about the limit that the code breaks, and the TLC instances |
| `FogMsgQueue_proofs` | its theorems |
| `ObjectModel` | settings, commit, save and restore, with crashes and errors |
| `MCObjectModel` | TLC instances: `PowerOnDisplay`, the volume, a group of two |
| `ObjectModel_proofs` | its theorems |
| `Lights` | `lights_thread` and the downstream thread on the PWM channels |
| `MCLights` | TLC instances |
| `Lights_proofs` | its theorems |
| `CupMonitor` | the key handler, `health_thread`, do-not-disturb, and the timer service with put-down and schedule callbacks |
| `MCCupMonitor` | TLC instances |
| `CupMonitor_proofs` | its theorems |
| `Music` | the track queue with its blocking producers, `music_thread` and `MP3_playSong` |
| `MCMusic` | TLC instances |
| `Music_proofs` | its theorems |
| `FogService` | `fogcloud_main_thread`, the cloud's config server and its clients: activation, authorization, reset |
| `MCFogService` | TLC instance |
| `FogService_proofs` | its theorems |
| `FirmwareSlot` | abstract specification: one firmware, which an armed one replaces as a whole |
| `FirmwareUpdate` | downloads, uploads, the boot table and the boot loader; implements `FirmwareSlot` |
| `MCFirmwareUpdate` | TLC instances |
| `FirmwareUpdate_proofs` | its theorems |
| `SettingsStore` | abstract specification: a store in which a save takes effect as a whole |
| `ParaStore` | the settings in two copies: saves, power failures, boot loader, repair, defaults; implements `SettingsStore` |
| `MCParaStore` | TLC instances |
| `ParaStore_proofs` | its theorems |

### FogMsgQueue

Two threads.  "cloud" is the FogCloud service thread in
`MicoFogCloudCloudMsgProcess`; its control is `ppc`, its local pointer `pmsg`.
"down" is `user_downstream_thread` in `MiCOFogCloudMsgRecv` and in the handling
of the message; its control is `cpc`, its pointer `cmsg`.  One action is the code
between two points at which the other thread can interfere: the test of the
limit and the allocation (`Refuse`, `MallocFails`, `Accept`), the load and the
store of each unprotected `+=` and `-=` (`CloudLoad`, `CloudStore`, `DownLoad`,
`DownStore`, registers `preg` and `creg`), taking the mutex (`CloudLock`,
`DownLock`), the fullness test, the abandon path, and push or pop with the
unlock.  The counter is a `uint32_t`: arithmetic is modulo `Word`.  A message is
its arrival number and its length; that it lay in memory bounds the length
(`MemoryAssumption`).  `HeldBytes`, with which the counter is compared, are the bytes
of the messages in the queue and on their way into it or out of it.  `overlap` remembers that both counter updates
were once under way at the same time.

### ObjectModel

One thread: `MOInit` at boot, then `user_downstream_thread`.  `param` is what the
getters return, `temp` the staged groups, `marked` the change flags and the bits
of groups.  `pc` follows the code: read (restore, defaults or nothing), print
(`PrintInitParameter`, which commits groups and clears flags), idle, parse (one
setter per step), apply (`IsParameterChanged`), and the four steps of
`OMFactorySave`.  The partition has three fields; each is erased, torn, or holds
the settings it was written for.  `Restart` can happen in every state and keeps
the flash only; it also stands for a crash of the program, such as the release
of the uninitialised `conf_string` at `OMFactory.c:106` on first boot.  `stale`
records that a fault, a default or an unsaved change separates RAM and flash, and
is what `Persisted` excuses: it is set by every change and by every restore that
did not restore, and cleared only by a complete save or a complete restore.

Abstractions: the JSON text of a set of values stands for itself, its length and
its CRC.  A length or CRC of one text is taken not to match another text; a
collision of the CRC is outside the model.  Values are numbers from `Value`; the
truncation of a number to a byte is not modelled.

### Lights

`lights_thread` is split at every getter whose value may change under it and at
every PWM channel it programs; the order in which the three arguments of
`LED_openRGB` are evaluated is open, as C leaves it.  The downstream thread writes
darkness when a message disables the notify light and the new colour when a group
becomes complete while the switch is on.  Bytes count modulo 256.  `late` counts
breathing colours shown since the notify light was disabled.

### Music

`Call` and `Push` are `PlayingSong`: a producer has a request in `waiting` from
the call until there is a place in `queue`.  The producers are `health_thread`, the
timer service, which runs all callbacks, and the downstream thread; the latter
also calls `MP3_setVolume` (`SetVolume`), but not while it waits.  `pc` follows
`music_thread`: pop, lookup, and the steps of `MP3_playSong`.  Each read of the
shared `vsset.mvol` is a step: `Start` (`lastVol = vsset.mvol`), `SetAll`, `Read`
(the comparison), `SetVol`, `Latch`.  `Lookup` leaves `name` as it is when there
is no file of that index, and may fail in any case (memory, card).  A file is the
number of reads that fill the buffer (`left`) and one that does not.  The loop
that feeds the codec is one state, in which the key may be seen up (`LookAtKey`).
A greeting (`Init` with `pc = "start"`) is played unasked at power on.  `served`,
`asked` and `raced` are history.

Abstractions: a file name is its index in the directory; an uninitialised name
opens no song; the codec takes what it is given after some time.

### CupMonitor

`KEY_irq_handler` is an edge of the key with its interrupt; `key` is the level that
`KEY_getValue` returns after debouncing.  `semaphore_getup`, which nobody signals,
is no variable: the wait for it always times out (`Pick`).  `hpc` follows
`health_thread`: the first branch (`Pick`, `IsPickupSetting`, `FindPickupTrack`
with one entry per step, `PickPlayed`), the wait for `semaphore_putdown`
(`Signalled`, `TimedOut`), the second branch (`PutDown`, `IsPutDownSetting`) and,
for each tag, one step per call of the RTOS in `startPutDownTimerGroup`.  `stamp`
is what the last change was recorded as (`SetDrinkStamp`, `SetPutDownStamp`).  The
timer service is a second thread: a timer expires (`Expire`), its callback
deinitialises the handle it finds in `putdown_timer` (`PutdownTimeout`) and plays
the song (`TimeoutPlayed`); the same thread runs the callbacks of the schedule
(`ScheduleTimeout`, `SchedulePlayed`), so that a put-down callback may wait for
them.  `ScheduleTimeout` does not look at whether the schedule is enabled, and the
code does not either.  The downstream thread enables and disables entries at any
time (`Configure`).

External and closed: the timers of the RTOS.  The model takes from
`src/include/mico_rtos.h:434-506` that they stop when they expire, that a
deinitialised one is gone, and, in favour of the program, that its handle is then
null and calls on a null handle do nothing; a timer may find no memory.  Nothing
there says that a callback runs to its first statement before another thread
does.  On a port whose timer service outranks the application threads and is not
itself interrupted between expiry and callback, no tag is ever in `overlap`.

Abstractions: `NoDisturbing` is modelled minute by minute, but its switch, ends and
clock are read one after the other while a message may set them, so that any four
values may meet (`Disturbing`); `PlayingSong` is a step that ends (`Music` shows
that it does).

### FogService

A thread is `fogcloud_main_thread` (`Main`) or the client thread created for a
connection; `pc` is its control.  `token` is the shared `easyCloudContext`, `config`
the saved `fogcloudConfig`, `owner` the token of what the cloud took last.  An
activation is four steps, between which any other thread may take its own:
`SetToken` copies the caller's token into the context, `Send` sends what is in the
context by then (`sent`), `Accepted` is the moment at which the cloud takes it, and
`Save` saves what is in the context after the answer.  Two requests under way may be
taken in either order.  A request can fail, or its answer be lost after the cloud took
it (`RequestFails`); one that was given up while under way stays in `adrift`, and
the cloud may take it at any later time (`TakenLate`), also after a restart.  The
listener (`Listen`, `Accept`, `Create`) keeps the descriptor in `slot` and passes
its address, so that `ReadFd` reads whatever is there by then.  `Stop` and `Bind`
follow an activation by a phone.  Every handler ends in "close" or, if its request
failed or its reply found no memory, in "fail": `ReplyFailed` is the code behind the
label `exit`, which jumps to itself until the reply can be made, and then closes.
`GiveUp` is a client that asks for nothing, or for nothing the server knows; it need
never come.

History: `met` are the activations that met another request, `stale` those under
way whose token is no longer the one in the context, `missed` the connections that
may not be served, and `blame` what has parted settings and cloud: "late", the
cloud took a token that was not the newest or had been given up; "apart", a request
failed or lost its answer half way, an authorization or a reset met another request,
or the cup restarted in the middle of one.  An activation that succeeds and met no
other request clears `blame`, so that none of it excuses what happens afterwards.

Abstractions: a token stands for login, password and token of an activation and
for the device id and key the cloud answers with.  The settings in RAM and in flash
are one: a save may fail, upon which the handler fails and the RAM keeps the new
values; what a restart then finds in flash is a question to `ParaStore`, not to this
module.

### FirmwareUpdate

A partition is a function from chunks to versions, or blank or torn chunks.
Clients of the cloud's config server follow `fogCloudDevFirmwareUpdate` (`Ask` to
`Record`) and then the handler of the request (`Answer`, `Arm`); `offer`, `size`
and `otaCrc` are the variables they share.  An upload (`UploadBegins` to
`ArmUpload`) holds the mutex (`lock`), and gives it back in the middle when a chunk
cannot be written.  `AnswerFails` is the way out at
`MicoFogCloudConfigServer.c:367-369`: there is no memory for the reply, the thread
ends, and the version that was just saved is never installed; the next request
answers "up-to-date".  `odd` is history: "clash" says that one update began before
another's end; "parted" that version and firmware were parted since a version was
recorded last.  `AnswerFails` sets it, an upload that is to be installed (it records
no version), and a power failure if it leaves the settings without the version or
without the boot table the version needs (`Parts`), but not any other one; `Record`
clears it.  `SaveCut` is what a save interrupted by a power failure
leaves, taken from `ParaStore`.  The boot loader follows `update()`; `CheckCrc` is
`TRUE`, as `checkcrc` is.  A device whose application is not complete is "dead".

It implements `FirmwareSlot` by two functions of the partitions: `Installed` is the
version in the application or, while that is being copied, the one in `OTA_TEMP`;
`Due` is the version in `OTA_TEMP` while a boot table is set and the application is
still another one.  The installation thus happens in `LoaderErases`, after which the
old firmware is lost and the new one inevitable; the copying that follows, and the
copying again after a power failure, are stutters.

Abstractions: an MD5 or CRC stands for the data it is computed over; the library
call `FogCloudGetRomData` is modelled by its use, as an erase and a sequence of
writes.  Uploads are well formed: a POST to `/OTA` with another Content-Type, which
sets the boot table for whatever is in `OTA_TEMP` without writing a byte there
(`config_server.c:329`, `359` and `572-583`), is not modelled.  Every image has
exactly `NumChunks` chunks: the code that writes an upload never compares its length
with that of the partition, and the model says nothing of an image that is too long.

### ParaStore

Threads that hold `flashContentInRam_mutex` (`Locker`), threads that do not
(`Unlocked`: the power daemon and the SDK's config server), and the one that starts
the application (`Boot`).  `job` is the flash operation a thread does next: erase,
system part, application's part, CRC, of main and then of the backup.  A save is
numbered, a part is the number of the save that gave it its value.  A power failure
may hit operations under way and tears what they touch (`TornFlash`); a failed
operation ends the save (`FlashError`).  `LoaderReads` to `LoaderWritesBack` are
`update()`'s rewriting of main, `ReadNeither`, `ReadMainBroken` and `ReadMain` the
three outcomes of `MICOReadConfiguration`, `CheckRestores` the check of
`application_start`.  The boot table lives in the first bytes of main.  `blame` is
history: the faults since both copies were last equal and whole.

It implements `SettingsStore`, of which the program sees only the settings that a
start may find (`Candidates`): those of the whole copies, and of main in the boot
loader's RAM while it rewrites main.  The CRC written to main puts the new settings
beside the old ones of the backup; the erase of the backup, or the power failure in a
write of main, drops one of the two; the return of the save acknowledges what is left.

Abstractions: two different contents never share a CRC, but a CRC may be zero, which
the code takes for missing.

## 3. Runs

| run | shows | bounds, and why they are enough |
|---|---|---|
| `MCFogMsgQueue` | type correctness, ownership, order, abandon only when full, undercount only after an overlap, implements `Mailbox`, every accepted message is eventually freed | 2 queue places, sizes 1 and 4, limit 8, 5 callbacks: overruns, refusals and lost updates in both directions all occur; a third place or size adds no new comparison. `Word` 32 lets the counter wrap |
| `MCFogMsgQueueLimit` | violated: refusal although everything fits | as above with one size, 6 callbacks |
| `MCObjectModel` | type correctness, persistence, nothing pending, volume, no mixed image | a scalar, the volume, a group of two, values 0, 20 and 31 with the limit at 20 (below, at and above it), 4 settings per behaviour: enough for a group that completes after one of its fields was repeated, and for two saves, whose images differ in each kind of setting. Restarts are unbounded |
| `MCObjectModelDefaultsSaved` | violated: defaults of groups are not in the saved image | 1 setting |
| `MCLights` | type correctness, shape of the breath, one late breath, the light settles | 3 levels of brightness instead of 60: both ends and a middle; colours that differ in several channels, one beyond the limit |
| `MCMusic` | type correctness, only what was asked for plays, a change of the volume is noticed outside two windows, every request is served | 1 queue place, 2 producers, 3 requests: one is played, one queued, one waiting. A byte of 4 values with numbers 3 (no file) and 5 (cut to file 1); 2 volumes; files of 1 and 2 reads |
| `MCCupMonitor` | type correctness, put-downs only in a window, one reminder per tag, no leak and no lost reminder without an overlap, the level of the key gets known | 2 pick-up entries, so that the search passes over a disabled one; 1 tag, armed during its own callback; memory for 2 timers: a leak is followed by a lack; a day of 3 minutes, enough for an interval with an inside, an outside and ends. Edges and messages are unbounded |
| `MCFogService` | type correctness, the cup and the cloud agree on the token, no connection is lost | 2 phones beside the main thread, so that three activations meet and are taken in any order; 2 requests given up that the cloud may yet take; 1 power failure. 1,825,442 states |
| `MCFirmwareUpdate` | type correctness, never without a firmware, the recorded version runs or is about to be installed, but for the failures between record and boot table, an image that is due gets installed in the end, implements `FirmwareSlot` | 2 phones and 1 upload, 3 updates, 2 new versions: two updates meet and a third follows; images of 2 chunks, one written before and one after any failure; 1 power failure and 1 flash error. 897,083 states |
| `MCFirmwareUpdateCrc` | violated: only data of the CRC in the boot table are copied | as above |
| `MCParaStore` | type correctness, one whole copy, completed saves last, a start loads what is saved, defaults only when main was broken, implements `SettingsStore` | 1 thread with and 1 without the mutex, whose saves meet; 3 saves, the last of which has the CRC 0; 2 power failures, so that the repair after the first is hit by the second; 1 flash error. 299,569 states |
| `MCParaStoreRecovered` | violated: the data are copied from the backup | as above |

The questions that need fairness are asked in the same run as the invariants
where the instance is small enough.  Deadlock
is checked in the runs of the application's threads, none of whose states is
without a step.  It is not checked in `MCFogService`, `MCFirmwareUpdate*` and
`MCParaStore*`, where the system may really stop: a device without a firmware, an
application whose first save failed, a reset cup whose connections are used up, or
simply the bound of requests and restarts.

Fairness: in `FogMsgQueue` both threads are weakly fair and strongly fair in
taking the mutex.  The code justifies it: the RTOS runs threads of equal priority
in turn, and the downstream thread sleeps a second outside the mutex in every
round, so that a waiting service thread gets it.  In `Lights` both threads are
weakly fair: every sleep ends.  In `Music`, `music_thread` is weakly fair (the
codec plays on, a read of the card returns) and so is each producer that waits
for a place; the calls of a run are bounded, so that nobody is passed over for
ever by an endless stream of others, a case the model does not decide.
In `CupMonitor` `health_thread` and the timer service are weakly fair: waits time
out, timers expire.  In
`FirmwareUpdate` the boot loader and the requested reboot are weakly fair, which is
all that the end of an update takes; threads need not go on.  `ParaStore` and
`FogService` state safety only: a client that stalls within its header, a cloud that
does not answer, or a reply there is no memory for can hold a thread of the config
server for ever, and no fairness the code has would end that.  Callbacks of the cloud, connection, messages, key and volume
are never fair.

Findings (each the result of a run that TLC finds violated):

1. `MCFogMsgQueueLimit` - the limit of the receive buffer counts bytes that are
   no longer buffered; after about ten thousand messages, or far fewer overruns,
   nothing is accepted any more.
2. `MCObjectModelDefaultsSaved` - the defaults of grouped settings are not in the
   image saved on first boot.
3. `MCParaStoreRecovered` - the repair of a broken main takes the system part from
   the backup and the application's part from main itself: after a power failure in
   a save the application may start with defaults although the backup is whole.
4. `MCFirmwareUpdateCrc` - `checkcrc` accepts every CRC, so that the boot loader
   copies data that changed since the CRC was computed.

Other disagreements with comments, met in modelling and part of the models:
`PrintInitParameter` clears the flag of `Power` where it means that of
`PowerOnDisplay` (`OMFactory.c:447`); `music_thread` ignores that a file was not
found and plays the name left in the buffer (`MusicMonitor.c:89`;
`PlaysWhatWasAsked` says how far that goes); a put-down that arms a tag whose
callback has been entered loses the reminder (`HealthMonitor.c:281`; `TimersInHand`
and `RemindersRun` exclude just that); all edges of the key signal the put-down
semaphore and the thread works on timeouts, so that most put-downs count as drinks
(`main.c:42`; `PutDownOnlyInWindow` says which do not); the schedule plays although
it is disabled (`HealthMonitor.c:330`).

## 4. Proofs

All proofs are checked by TLAPS from the constants' assumptions
(`QueueAssumption`, `MemoryAssumption`, `ObjectModelAssumption`, `LightsAssumption`,
`CupAssumption`, `MusicAssumption`, `FogServiceAssumption`, `FirmwareAssumption`,
`ParaStoreAssumption`), which TLC evaluates in the runs.

* `FogMsgQueue_proofs` - the inductive invariant joins the types, ownership and
  order with where the mutex is: a thread past its lock and before its unlock
  owns the mutex, hence the abandon step still finds the full queue that the
  test saw and the push a place.  From it follow `TypeOK`, `Ownership`,
  `ArrivalOrder`, `AbandonOnlyWhenFull` and the refinement of `Mailbox`: the
  message counts as put from the moment there is room for it, which is when the
  oldest one goes.  A second invariant (`Accounting`) gives `NoUndercountWithoutOverlap`:
  as long as the two updates of the counter have not met, at most one of them is
  under way, what it loaded is still the counter, and a message on its way has room
  below the limit, so that neither the sum nor the difference wraps.  The sum over the
  queue is a recursive function; that it grows by a message pushed and shrinks by one
  popped is shown by a least counterexample (`LeastNumber`, from the library's theorem
  that the natural numbers are well founded), since rules of induction are out of reach.
* `ObjectModel_proofs` - the inductive invariant says how far a save has come:
  the fields before the current one hold the draft, the current one is erased or
  torn, the later ones are erased, so that the image can be read only when the last
  one is complete; that the draft is the settings in force; and what flags and
  groups look like at each place of the thread.  From it follow all five
  properties of the run.
* `Lights_proofs` - the invariant adds that what a thread has yet to program
  passed the check of `LED_openRGB`, and that nothing is late while the notify
  light is enabled or a breath is about to be shown.  The step of the breath is a
  lemma about the cycle of three channels.
* `Music_proofs` - for what is played, the invariant follows a number from the
  call through the queue into the name buffer, and says that an uninitialised name
  is never open; for the volume, it says that the codec has what `lastVol`
  remembers, and that inside each of the two windows the settings still have it,
  unless the volume changed there.
* `CupMonitor_proofs` - for the key: since the first branch looked at it, an edge
  has left its signal.  For the timers, the invariant says that a handle denotes a
  timer of its tag, that the running one is the one in hand, that a dormant one in
  hand waits for its callback or is just being stopped or started, and that a
  callback meets a timer that is not its own only if the tag was armed meanwhile.
  Two theorems about `NoDisturbing` need no invariant: for any length of the day,
  an interval and the one with its ends exchanged complement each other
  (`IntervalsComplement`), and the ends themselves are quiet exactly if the interval
  goes past midnight (`IntervalEnds`).
* `FogService_proofs` - for the token: an activation that met no other request is
  alone with the cloud, and the token it sent is the one in the context, whatever came
  before (`CleanInv`); a request under way whose token was not replaced carries the one
  in the context (`FreshInv`); unless something has parted settings and cloud, an
  authorization or a reset is alone, too (`ApartInv`), and once every activation has its
  answer the context holds the cloud's token (`AnsweredInv`), so that whoever saves last
  saves that; and settings that are not about to be saved agree with the cloud
  (`SavedInv`).  `CredInv` joins them.  `CleanInv` and `FreshInv` hold unconditionally,
  which is what lets one activation that ran alone restore the others.  That no
  connection is lost is inductive together with the types and `SlotInv`, which says
  that a thread is created once, for a connection that has come.
* `FirmwareUpdate_proofs` - with updates that do not overlap, the invariant says how
  far the one update is (`Knows`), that a set boot table names a complete image in
  `OTA_TEMP` whose size is the recorded one (`TableInv`), and that the application is
  complete whenever the boot loader has nothing to copy (`AppInv`).  A second one
  (`Recorded`) follows the saved version from the record through `OTA_TEMP` and the
  boot table into the application, as long as nothing has parted them since; the
  step of the record establishes it whatever came before, and of all outcomes of a
  power failure those that `Parts` does not name keep it.  For the
  refinement of `FirmwareSlot` a third (`UncopiedInv`) says that what is not copied yet
  is blank: a half copied application is never complete, so `Installed` does not change
  back in the middle of a copy.
* `ParaStore_proofs` - the invariant gives a save in progress its place: what is
  written so far is what RAM holds (`Tracked`), the copy it does not write is whole
  (`JobInv`), between saves both are what `CopyInv` says, and what RAM holds is no
  older than the last completed save (`RamInv`).  `WholeInv` follows a whole main
  from the power failure through boot loader and repair to the check that could
  restore the defaults.  `SafeAll` joins them.  The refinement of `SettingsStore` needs
  two more facts: the settings in RAM are no older than any whole copy, and equal to a
  copy of the same number when they are about to be saved (`Newest`); and the CRC of a
  save under way is that of RAM, unless RAM went on meanwhile (`JobRamInv`).  Each flash
  operation is then a step of the store or a stutter (`JobImplements`), and so is each
  step of boot loader, start and power failure (`OtherImplements`).

The theorems say nothing of the time after updates overlapped or a flash operation
failed (`FirmwareUpdate`), nor of that between a fault and the next complete save
(`ParaStore`), as the invariants they are about: in the abstract specifications this
is the variable `disturbed`.

Only model-checked: the liveness properties (`EventuallyFreed`, `Settles`, `Served`,
`FollowsKey`, `UpdateEnds`), as the prover has no rules for
fairness, and the four properties that the code violates.

## 5. Not modelled

* Status notifications (`DeviceMonitor.c`, `HealthMonitor.c:289-312`, `SendJson.c`):
  flags are raised, cleared and sent by the one timer thread; what can go wrong (a
  stamp that is never set back, a send whose result is dropped) is plain in the code
  and promised nowhere.
* Start-up order: health thread, timers and key interrupt are started before the
  objects they use are created.  What then happens depends on what the closed RTOS
  does with null handles.
* `fogcloud_main_thread`'s exit when the config server cannot be started, which
  deletes queue and mutex that callbacks go on using (`MicoFogCloud.c:263-268`), for
  the same reason.
* The second close of a descriptor by a client's thread
  (`MicoFogCloudConfigServer.c:195`, after 371): `FogService` never gives the number
  of a connection again.
* A composition of `FogMsgQueue`, `Music` and `CupMonitor`: a full track queue holds
  up message handling and all timers.  Each of the three waits for `Music` only, and
  `Served` shows that this wait ends.
* The download of songs to the card (`MP3_writeSong`, disabled), and FatFs itself,
  which is built without reentrancy (`ffconf.h:206`) although the timer thread
  (`DeviceMonitor.c:152`) and `music_thread` both call it.
* Of the SDK: Wi-Fi configuration, the command line, mDNS, the serial menu of the
  boot loader, TFTP; of the cloud's config server the request for the state, which
  only reads.

Out of scope: drivers and the vendored file system (register and bus level), the
closed libraries (RTOS, TCP/IP, FogCloud), the examples of the SDK, and the copies
of this program under `src/Demos/SC411` and `src/Demos/SC3165`.
