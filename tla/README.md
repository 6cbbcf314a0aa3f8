# Verification of the OBS AirPlay receiver

TLA+ models of the plugin in `src/`, TLC runs that check them on small
instances, and theorems that TLAPS proves for every value of the constants.
`PROJECT.json` is the index: components, runs, mutants, the source lines behind
every definition (`map`), hazards, findings and theorems.

## The system

The plugin makes OBS an AirPlay receiver. UxPlay (an external library) speaks the
protocol and calls the plugin back on its own threads.

| Part | State | Operations | Threads |
|---|---|---|---|
| `UxPlayIntegration` | open connections, `m_media_active`, `m_frame_shown`, pending clear, last announced state, DNS-SD contexts | UxPlay's callbacks, deferred clear, `start`, `stop`, `updateServerName` | UxPlay's HTTP and stream threads, deferred-clear thread, name-debounce thread, OBS main thread |
| `AirPlayServer` | payload queue, decoders, stream clock, registered sources | `ingestVideoBitstream`, `videoDecodeLoop`, `resetDecoders`, `ingestAudioBitstream`, `outputMedia*Frame`, `stop` | UxPlay's mirror and audio threads, decode thread, the threads that reset, the media player's |
| `H264Decoder` | FFmpeg context, hardware flags, error counts, parameter sets, held frame | `decode`, `flush`, fallback to software | under the server's decoder lock |
| `AudioRetimer` | timeline position, offset, anchored, resyncs | `process`, `reset` | under the audio decoder lock |
| `MediaPlayer` | item, playback info, seek state, frame queue | `play`, `stop`, `seek`, `setRate`; worker and presenter | HTTP, clear and main threads; its own worker and presenter |
| `media-fetch`, `media-url-policy`, `hls-playlist` | per-item look-ups | open and check URLs, choose a rendition | the player's worker, look-up threads |
| `plugin-main`, `module-settings`, `airplay-source` | server name, pending name, settings | load, unload, name debounce, status refresh | OBS main thread, debounce, status and warm-up threads |
| `plugin-updater`, discovery helper | plugin, staging and previous folders, lock file | stage, install, roll back, discard, forget | one helper process per OBS session: its main and its download thread |

How they interact. UxPlay calls `UxPlayIntegration`; mirror payloads and audio
packets go on to `AirPlayServer`, AirPlay video items to `MediaPlayer`, whose
frames come back to `AirPlayServer`; every stream boundary becomes
`resetDecoders(clear, flush)`; every decoded mirror picture calls
`onMirrorFrameOutput`, which may cancel a scheduled clear. `obs_module_unload`
stops and joins all of it in an order the code comments on.

What is hard: eight kinds of threads in the same objects; a payload popped from
a queue and not yet decoded while a reset runs; a grace period that ends while a
new connection or item arrives; joins during shutdown; sender timestamps that
step, stall or restart; a hardware decoder that fails half-way through a
payload; scrubs against decoded frames in flight; a rename against a request; responses
that end in the middle of a file; a helper killed between two renames of the
plugin's folder.

What makes each part correct: the queue is bounded and what is decoded is whole;
no ended stream is taken up again; an active item keeps its picture and nothing
stays on screen or plays when nobody is connected; shutdown completes and leaves
nothing running; audio is never late and has no avoidable gap or overlap; audio
and video share one clock that stays near now; the decoder never loses a picture
it counted nor lets one stream's state into the next, and leaves failing
hardware; a scrub shows the right picture, `stop()` returns and an item that
plays ends; what the demuxer reads is byte-exact; a rename never frees a context
in use and the settings survive the unload; an update leaves a whole plugin
whatever was cut short. The `hazards` of `PROJECT.json` give each at its line.

## The modules

### AudioRetimer (`audio-retimer.hpp`)

`Process` is `process()`: the arrival time moves by a `ClockSteps`, the play-at time is
any of `PlayOffsets` from now. `FirstPacket`, `LaterPacket`, `Start`,
`DropBacklog` and `Finish` are the function's parts, `Reset` is `reset()`.
`result` records the last packet's outcome: how it was output, its lead, and
the gap or overlap with the packet before. Log-only counters are left out;
`m_resyncs` is kept as "not zero" and `m_following` serves only the log. Times are unbounded integers: the code's nanoseconds
since boot stay far from both ends of 64 bits because `normalizeTimestamp` hands over
times within five seconds of now (theorem `MediaIsNear`).

### MirrorServer (`airplay-server.cpp`, mirror video)

A payload is its arrival number and whether it is a keyframe
(`starts_decodable_stream`). `Ingest` is the mirror thread's critical section,
`Take`, `Decode`, `FrameOutput` and `Exit` are the decode thread, split where it
unlocks the queue and where it holds the decoder lock. `resetDecoders` is
`CallReset`, `DropQueue` (queue lock) and `ResetOutput` (decoder lock, so not
during `output`), per calling thread. The decoder is what it can refer to: the
payload decoded last, and whether every payload since a keyframe was decoded.
`ended` is a ghost: the last payload that a completed reset ended.

### Receiver (`uxplay-integration.cpp`, `obs_module_unload`)

Composes `MirrorServer` (by `INSTANCE`, sharing its variables) with the
callbacks. A handler is a sequence of steps, each an atomic access, a section
under one lock, or a call; a step that decides puts what follows in front of the
rest. `program[t]` is what thread `t` has left. So two handlers of two threads
interleave wherever the code lets them. The unload is a chain of stages, each
join waiting for its thread. `playing` stands for the media player: frames come
between `play()` and the return of `stop()`, which joins the worker.
`ServerUsed` is the refinement: the receiver's behaviours are behaviours of
`MirrorServer`, hence its promises hold here (proved, and checked by TLC).

`unsettled` is a ghost: it becomes true when `on_video_play` meets a stream
thread's handler or a clear that is running, or one of them (but a codec
announcement) begins before it has started the player; when the last connection
closes with a mirror payload still in the server; or when a device connects
between that and the end of the clear it scheduled (`Settled`, `Starting`).
Any other handlers of two threads may overlap. `CleanAfterLast` and
`ActiveItemStays` hold while it is false. Each of these cases is needed: with any one
of them not counted TLC finds a counterexample with four callbacks.

### StreamClock (`normalizeTimestamp`, `resetStreamClock`)

Each caller reads the clock (`Read`) and later takes the lock (`Normalize`); in
between time passes, the other caller normalises, or a reset forgets the anchor.
The sender's clock runs `skew` ahead of OBS's until it restarts. The ghost
`anchor_skew` is the run of the sender the anchor was set in. The assumption
`ClockAssumption` says that packets of one run are less than `MaxDelta` (five
seconds) apart in lag, that the machine has been up for longer than that and that
64 bits of nanoseconds are not about to end.

### VideoDecoder (`h264-decoder.cpp`)

A step of `decode()` is one packet sent and what the code does about the outcome,
which FFmpeg chooses: taken, EAGAIN, invalid data or another failure, with or
without pictures collected, and while hardware is open perhaps a refusal by
`chooseFormat`. `Send`, `Resend` (after a refusal), `Retry` (after EAGAIN) and
`Last` (after a fallback for errors) are the four places `send()` is called.
`Flush` is `flush()`: a stream boundary. Parameter sets are the stream they came
from. `gave_up` is a ghost: the stream in which hardware was given up.

### MediaPlayer and PlayerPromise (`media-player.cpp`, `MediaPlayer::Impl`)

`Play`, `Stop`, `Seek`, `SetRate` and `PauseForPlaylistRemoval` are the commands;
`Lock`, `Join` and `Start` are the parts of `play()` and `stop()` under
`m_control_mutex`. The worker is `Open`, `Loop`, `TakeSeek`, `Reposition`, `Read`
and one action per wait (`QueuePicture`, the sound actions,
`WaitForPresenterIdle`, `HoldUntilEnd`), the presenter `Take` to `Show`; every
section under a lock is one action. An item has one picture and one packet of
sound per second, and any read, seek, open or decode may fail as FFmpeg's can.
Epochs and seek generations are only ever compared with the current one, so a
picture carries whether its own still is (`fresh`).

`PlayerPromise` is the abstract specification: one item at a time, pictures of
that item only, a position that only the sender moves back, an end after which
nothing comes, silence after `stop()`. `PromiseKept` instantiates it with the
worker's item, the reported position and the picture being shown; it is the
refinement `media_player` checks. It is also what `Receiver` assumes of the player.

Left out: items without pictures, the setting "follow the sender's clock" (off
by default), the pictures still in a decoder at the end of the input, failed
allocations.

### MediaInput (`ResilientHttpIo` in `media-player.cpp`, `Session::open` in `media-fetch.cpp`)

The layer between FFmpeg's demuxer and the sender's server. `call` is the call
of the demuxer in progress: `open`, `read`, a `seek`, or the `skip` that a short
seek forward reads through. `Attempt`, `Ended`, `BackOff` are the loops of
`read()` and `seek()`, `Request` to `Failed` one `reopen()` hop by hop; a hop is
answered, refused by the policy, redirected or fails. `stands` is the place of
the AVIOContext (external: it moves when a call succeeds). A byte stands for a
piece of the file. `late` and `lost` are ghosts: requests begun after the stop,
and a failed seek that has moved the input.

### ServerName (`plugin-main.cpp`, `updateServerName` and `stop` in `uxplay-integration.cpp`, `module-settings.cpp`)

`Edit` and `Editor` are `set_module_settings()` in an OBS thread; `Debounce` is
the debounce thread with the rename it carries out, one action per step that
others can see or that can fail (`Claim`, `Publish`, `Withdraw`, `Retire`,
`Register`, `Commit`, `Fail`) and the saving after it; `Handle` and `Handled` are a request that reads the DNS-SD
context; `Unload` is `obs_module_unload()` up to the destruction of the contexts.
A context is a number, so a freed one is told from its successor.

Two assumptions are built in. A request is answered before the next rename
(`Expire`: the debounce time is longer than any request), which is what the
retired context relies on. And no edit falls between the debounce thread's copy
of the settings and its write of the file (`EditsDuringSave = FALSE`): with
`TRUE`, `SettingsKept` fails, because the thread writes its older copy over an
edit saved in between (`plugin-main.cpp:189-194`).

### Updater (`plugin-updater.mm`, `airplay-ble-discovery.mm`, `airplay-ble-helper.cpp`)

One helper per OBS session, with a main and a download thread. A path holds at
most one bundle, whole or damaged. The lock is modelled down to the file: it is
opened (`OpenLock`), locked, compared with what is at the path, removed by its
holder and closed, in steps of any helper. Staging, verifying, the two renames of
a swap, the roll-back, the discarding and forgetting of a launching helper are
each an action; a helper may be killed between any two, and a rename may fail.
Signatures, digests and the release list are taken as right.

`SwapOverlaps = FALSE` is a timing assumption: a helper launches, and tidies
without the lock, only while no other one is between the first rename and the
last removal of a swap. With `TRUE`, two sessions are enough to break
`PluginWhole`, although the comment at `plugin-updater.mm:291-293` covers that
case. `cut` is a ghost: somebody was killed, or quit during a download, since
last nobody was there.

## Runs, bounds and fairness

| Run | Bounds | Why they are enough |
|---|---|---|
| `audio_retimer` | unit 10 ms; the code's thresholds (late 2, jitter 7, lead 15, start 4), a start-up window of 20 (shorter than the code's) and a slew of half a packet (larger: a 1/1024th would be below the unit); any number of packets of length 2 within 40 of clock time, 0, 2, 18 or 30 apart; play-at times from 30 behind to 38 ahead | every threshold is crossed on both sides; start-up window, bursts, stalls and recovery all happen |
| `mirror_server` | queue of 2, 4 payloads, 2 resetting threads | the queue overflows and is taken up again at a keyframe, a reset meets every position of the decode thread, two resets overlap; longer queues and streams are proved |
| `receiver` | 3 callbacks besides closes, 2 connections, 1 payload | every handler meets every other on another thread; a clear, a new item and a shutdown fit in one behaviour |
| `receiver_frame` (violation) | 1 connection, 1 payload | the smallest that shows it |
| `stream_clock` | clock from 6 to 12, distance 3, two lags, three skews (two of them far apart from the third) | anchors of other runs land too far before and after now, and below zero |
| `video_decoder` | error limits 2 and 3, payloads of 2 units, 3 streams | a limit is reached across payloads, across units and by mixtures of error kinds |
| `media_player` | 2 items of 2 seconds, 2 scrub targets, queue of 1, 3 commands and a stop by another thread, 1 recovery, 1 hardware error | an item is replaced, scrubbed and ended while pictures of it are queued and presented; hardware gives up; the queue is full |
| `media_player_live` | 1 item, 2 commands and a stop, no hardware | every wait of the worker and the presenter meets a stop, a scrub and a pause |
| `media_input` | 5 bytes, skips of 2, 3 attempts, 2 redirects | early ends at every byte, skips that arrive, stop short and run past the end, both limits reached in one call |
| `server_name` | 2 names, 1 request at a time, 4 edits | a name is typed, reverted, typed again during its rename, and saved at the unload |
| `updater` | 2 helpers at a time, 3 sessions, 1 newer version, 1 crash, 1 failing rename | two helpers stage, install and tidy at once, and a third starts on what they left |
| `updater_in_use` (violation) | 2 sessions, no crash, no failure | the smallest that shows it |

Larger instances were looked at by hand. `receiver`: with five callbacks, or with
four and two payloads, `CleanAfterLast` and `ActiveItemStays` hold (17 and 25 million
states). `updater`: with a third version its properties hold as well (16 million
states); `CopyLeft` fails with two failing renames (below). With `SwapOverlaps =
TRUE` two versions are enough for `NeverBack`, `PluginWhole` and `CopyLeft` to fail,
and `NothingLeftWaiting` fails with three, each without a crash or a failing rename:
the proviso of their theorems is needed.

Deadlock is checked in `audio_retimer`, `mirror_server`, `receiver`,
`receiver_frame` and `stream_clock`. The other systems really stop: a decoder that could
not be opened waits for the next flush, and flushes are bounded; a player, an
input and a helper that were stopped or unloaded do nothing more.

Fairness. `MirrorServer` and `Receiver` assume weak fairness for the decode
thread, for threads inside a handler or a reset, for the end of the grace period
and for the shutdown once it has begun: each is an operating-system thread that
waits only for locks others release after bounded work (joins and lock waits are guards of the model). Nothing is
assumed of UxPlay, the sender or the user. `VideoDecoder` assumes that a call of
`decode()` goes on to its end. `MediaPlayer` assumes that its two threads and a
call of `play()` or `stop()` go on: a blocked read ends by the interrupt callback
or its own time-out, and the clock of an item that plays advances. `MediaInput`
assumes that a request ends, with an answer or by those time-outs.
`ServerName` assumes that the debounce thread and an editor's call go on, that a
request is answered, and that an unload that has begun is finished. `Updater`
states only safety.

## What is proved

TLAPS proves, for all values of the constants under each module's named
assumption:

- `MirrorTimingProofs`, audio re-timer: types, `NeverLate`, `OverlapOnlyToFollow`,
  `TrimOnlyWhenCovered` and `GapOnlyAfterStall`. The argument: a packet is output
  at a time tested on time, at the end of the timeline tested on time, or at
  least `StartLeadNs` after now; it meets the packet before it within one slew
  except where the timeline was late or the sender is followed. `Safe` collects
  the three state properties and the lemmas give the effect of each branch.
- `MirrorServerProofs`: types, `QueueBounded`, `EndedNeverTaken` and
  `PictureWhole`. The invariant `Inv` says that every queued payload is fresh
  (no reset emptied the queue after it arrived), that of two neighbours the later
  is a keyframe or the very next payload, and that the payload in hand and the
  one decoded last are linked to what follows them in the same way for as long
  as they are fresh. `PictureWhole` and `EndedNeverTaken` are not inductive
  without it.
- `ReceiverProofs`: the refinement `ServerUsed` (every step of the receiver is a
  step of the server or leaves its variables alone), with the server's theorems
  (`QueueBounded`, `EndedNeverTaken`, `PictureWhole`) carried over by it; `StopOrder`; types. The argument for `StopOrder` is an invariant that says
  at which stages each thread can still be busy and the player can have an item;
  it needs that only the HTTP thread ever has a `play` step (`ProgramTyped`).
  `CleanAfterLast` and `ActiveItemStays` follow from `Settlement`, which holds as
  long as every call came settled, whatever else overlaps. It says for each thread
  what it can have left to do and what it relies on until then (`Places`: an item
  that starts has no clear pending, the player of one that ends has stopped before
  its clear is scheduled); that a reset that clears has no active item (`Resets`),
  which is `ActiveItemStays`; that while an item starts no clear runs and no reset
  of a stream clears (`Apart`); that the player has only an item that is active,
  but while the clear stops it (`Follows`); that without a connection nothing of a
  mirror stream is in the server (`Unconnected`); that whatever is on screen, plays
  or is active is known in `m_frame_shown` or a clear is under way (`Known`); and
  that after the last connection it has a clear to come, or, where nothing is
  active, a reset that empties the screen (`Coming`, `Emptying`), which is
  `CleanAfterLast`. `Known` is what makes `Coming` inductive: the last connection's
  handler schedules a clear only if it sees `m_frame_shown`; and `Emptying` is what
  a stream's shutdown leaves, which cancels the clear that was scheduled.
- `MirrorTimingProofs`, stream clock: types, `NearNow` and `InStep`; the invariant
  places anchor and pending calls on the clock of the sender's run they belong
  to, so that two of the same run are never far apart.
- `VideoDecoderProofs`: types, `ReceivedIsHeld`, `LimitsHold`,
  `SetsOfThisStream` and `FallbackEndsWithStream`.
- `MediaInputProofs`: types, `Aligned`, `EndIsEnd`, `StopsAsking` and `Exact`. The
  invariant says which loops each call can be in (`Control`), that only bytes of
  the file are asked for (`InFile`), that the input is where the demuxer stands
  or a skip has taken it ahead (`Place`), and that after the stop's one late request no place
  from which another would follow is reached (`LastRequest`).

- `MediaPlayerProofs`: types, `NothingAfterEnd`, `PictureAtTarget` and
  `PromiseKept`, which is the refinement of `PlayerPromise`, step by step. The
  invariant has four parts besides the types. `Serialised`: between `Lock` and
  the last step of a call one caller holds the control lock, and what the player
  may be doing follows from how far that caller is. `Lives`: the presenter lives
  from the opening of an item to its end, and is idle with an empty queue
  before the worker holds, marks the end or quits, so nothing can be shown after
  the end. `Pictures`: the pictures the queue, the presenter and the decoder hold
  and that are not stale are of the item, in the order of reading. `Aimed`: after
  a seek, until a picture passes the target, the reported position is not past
  the target; from then on every picture on its way is at or after the target and
  the position. The refinement needs the last one: a position that the promise
  lets only move forward between seeks.
- `ServerNameProofs`: types, `NoFreedRead`, `OneService`, `NameIsAdvertised`, and
  `SettingsKept` while no edit overlaps a save (`~EditsDuringSave`; with one it
  fails, see the findings). The invariant counts the contexts (`Counted`), says
  which is current, retired or freed at each step of a rename (`Order`, `Place`),
  that a handler's context is none of the freed (`Serving`), and what name each
  of them and the settings have while a rename (`Naming`, `Reading`) or a save
  (`Saving`) is under way.
- `UpdaterProofs`: types and `OneHolder` for all constants. Where two swaps do not
  overlap (`~SwapOverlaps`), also `PluginWhole`, `NeverBack` and
  `NothingLeftWaiting`, and, while at most one rename has failed, `CopyLeft`. The invariant says who holds which lock file
  (`Locks`), where each version is (`Places`, `Apart`), what a swap has moved so
  far (`Swap`), that versions go up (`Order`), which copies are kept for whom
  (`Kept`), and which sessions are watched by a helper (`Watched`).

The type invariants of `AudioRetimer`, `StreamClock`, `MirrorServer`, `Receiver`,
`VideoDecoder` and `MediaInput`, and `TrimOnlyWhenCovered`, `LimitsHold`,
`FallbackEndsWithStream`, `Aligned` and `EndIsEnd`, are proved and in no run's
configuration; the other proved properties are in both.

Only model-checked: every liveness property (`PayloadLeaves`,
`ClearResolves`, `StopCompletes`, `FailingHardwareLeft`, `StopReturns`,
`PreviewShown`, `PlaysToEnd`, `CallReturns`, `NameSettles`), which are beyond the
installed provers. Every other property of the passing runs is a theorem, with
the provisos named above for `Updater`. No module has a recursive operator.

## Findings

Two are violation runs with a quoted comment.

1. `NoFrameLeftBehind`: a payload decoded after the last connection closed stays
   on screen, and no clear is scheduled.
2. `NotReplacedInUse`: the helper of a session that ended replaces the plugin
   while another session has it loaded; its comment says "nothing is using the
   plugin any more".

Met while modelling, and described without a run:

- A scrub while paused to the target of the last scrub is ignored even when the
  item was played on in between (`media-player.cpp:811-814`, `SeekIgnored`): the
  comment says the frame for it is already on screen.
- A seek of the demuxer that fails after part of its short skip leaves
  `m_position` ahead of the AVIOContext (`media-player.cpp:528`): if the demuxer
  goes on reading, it gets other bytes than it asks for. This is the exception
  `lost` in `Exact` and `EndIsEnd`.
- A restart of the audio timeline can be further ahead than the 150 ms its
  comment caps.
- A payload of an ended stream that was already taken can still be decoded, into a
  flushed decoder, after the reset.
- A device that only looks in during the grace period makes the clear skip the
  player; when it leaves, the item plays on.
- Two threads can announce the connection state in the wrong order, and a clear
  with a connection open is not announced.
- An edit saved while the debounce thread saves is overwritten by older settings
  (`plugin-main.cpp:189-194`).
- The error of a rename that failed stays in the panel after the name is reverted.
- Updater: a launching helper tidies without the lock (above); when both the
  move of the staged bundle and the move that puts the plugin back fail, the
  folder that holds the only copy is removed (`plugin-updater.mm:746-748`); a
  crash between the two renames leaves nothing at the plugin's path until
  somebody puts the kept version back by hand.

## Plan

Modelled, in this order: `AudioRetimer`, `MirrorServer`, `Receiver`, `StreamClock`,
`VideoDecoder`, `MediaPlayer` with `PlayerPromise`, `ServerName`, `Updater`, `MediaInput`.
Proved, in this order: `MirrorTimingProofs`, `MirrorServerProofs`, `ReceiverProofs`,
`VideoDecoderProofs`, `MediaInputProofs`, `ServerNameProofs`, `UpdaterProofs`,
`MediaPlayerProofs`. Last, in `ReceiverProofs`, `CleanAfterLast` and
`ActiveItemStays`, first for handlers that come one at a time and then for all that
TLC allows to overlap. Nothing else is planned: the properties left are
liveness, and the provisos left (`Settled`, `~SwapOverlaps`, `~EditsDuringSave`,
one failing rename) are needed.

## Not modelled

- The source registry: each operation is whole under one lock; what could go
  wrong depends on when OBS destroys a source.
- The audio decoder and pixel conversion: FFmpeg's sample and pixel values.
- Name look-ups and pinned addresses of `media-fetch`, the URL policy and the HLS
  playlist: decisions on text. Their outcomes (refused, answered, failed,
  redirected) are in `MediaInput` and `MediaPlayer`.
- The audio path during a reset: `AudioRetimer` and `StreamClock` are checked apart
  from `resetDecoders()`.
- `obs_module_load`, the status and warm-up threads, the properties panel, the OBS
  source: no state beyond what is modelled, or only text.
- Signatures, digests, release lists and downloads of the updater; Bluetooth
  advertising and prompts: operating-system services.
- Telemetry and logs.
- UxPlay, FFmpeg, OBS and simde (`src/obs-headers`) are external: they appear only
  as the calls they make or answer.
