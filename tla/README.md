# Thorstream in TLA+

Thorstream streams a Windows PC's game to an Android handheld: a C++ host
(`src/host/src`) captures one window, encodes it with NVENC and sends it over
UDP; a Kotlin client (`src/client`) reassembles, decodes and shows it, and sends
input back over the TCP connection that controls the session (`src/PROTOCOL.md`).
These modules state what the host's threads may and may not do to each other, to
the client and to the user's desktop, check it on small instances with TLC and
prove the main invariants for every size with TLAPS.

## 1. Inventory

Host, all under `src/host/src`:

| Component | State it keeps | Operations | What is hard |
|---|---|---|---|
| `StreamServer` (net_server) | `running_`, the listening, client and video sockets, `streaming_`, `videoDestination_`, `frameNumber_`, `sendMutex_`, `videoMutex_` | accept and client loops on one thread, one handler per message, `SendMessage`, `SendVideoFrame`, `Stop` | `send()` blocks under a mutex others need; the destination outlives a client; the stream is declared on after it has started |
| `Session` (session) | `capture_`, `encoder_` under `mutex_`; `virtualDisplay_`, `topologyChanged_`, `displaysDetached_`; `launchEpoch_`; the keepalive thread | `StartSession`, `LaunchAndStream`, `StopSession`, `StopStreaming`, `RestoreDisplays`, `OnCapturedFrame`, `KeepaliveLoop`, `Shutdown` | a dozen early returns that owe a restore; destruction outside the lock that callbacks take; a launch that blocks the only thread that reads |
| `WindowCapture` (window_capture) | `running_`, the callbacks, event registrations, the frame pool and its size | `Start`, `Stop`, `OnFrameArrived` with `ComputeCrop` and `Recreate`, the Closed handler | callbacks on Windows' threads, in flight when stopped; a window that changes between capture and crop |
| `NvencEncoder` (encoder_nvenc) | `forceIdr_`, `hasFrame_`, the last picture, its size | `Create`, `EncodeFrame`, `RepeatLastFrame`, `RequestKeyframe` | a keyframe asked for and not delivered |
| `TextureScaler` (scaler) | the views of source and target, and the raw pointer they are cached under | `Create`, `Draw`; `FitPreservingAspect` | an address used again; a view that cannot be made; rounding |
| `InputInjector`, `VirtualGamepad` | `g_heldButtons`; the pad, and what it last reported (its sequence number is not looked at) | one per input message, release everything | Windows may swallow an event; a client leaves mid-press |
| `DisplayTopology`, `VirtualDisplay` | the desktop itself, a snapshot, a marker file, a virtual monitor kept alive by pings | attach, make primary, detach the rest, restore, recover after a crash | every call can be refused or half done; a crash leaves dark screens |
| `GameLibrary`, `SessionLock` | none | read the library, launch a game, wait for its window; unlock the PC | minutes of waiting on the control thread, some without a timeout |
| service (main) | the `Session` under `serviceMutex`, the instance mutex, the shutdown event, the pad | start, stop, restart, status, `--stop`, single instance, Ctrl+C | a console request waits for a whole Shutdown; two processes; a kill |
| `WebConsole`, `DiscoveryResponder` | sockets and a thread each | serve pages and requests one at a time, answer probes | stopping a thread that is inside a callback or waits for a browser |
| `CoverStore` (cover_store) | a file per game | `Save`, `Remove` | stored before it is known to decode |
| thumbnails, PNG, window list, D3D | none to speak of | input and output | |

Client, under `src/client/app/src/main/java/com/thorstream/client`:

| Component | State | Operations | What is hard |
|---|---|---|---|
| `ControlConnection` | the outbound queue, `connected`, a reader and a writer thread | send, `stopSessionAndClose`, `close`, disconnect | a test of `connected` and the enqueueing it guards are two steps |
| `VideoReceiver` | fragments by frame number, `newestCompleted` | one datagram at a time | loss, reordering, a frame number read as signed, a whole frame lost |
| `VideoDecoder` | the backlog, free input buffers, `sawKeyframe` | `submit`, `pump`, codec callbacks | dropping a backlog drops references |
| `StreamActivity`, `TouchController`, `GamepadTracker`, library and main activities | Android lifecycle, surface, touch gestures | start, fall back to another codec, disconnect | answers that arrive after the surface or the activity went |

How they interact: the accept thread calls handlers, handlers call `Session`
through callbacks; capture threads and the keepalive thread call the encoder and
then `SendVideoFrame`; the Closed event calls `SendError`; main or the console
calls `Shutdown`, which joins two threads and takes three locks. Host and client
share only the TCP connection and a stream of datagrams.

`PROJECT.json` lists every component with its status, and under `hazards` every
line where this code can go wrong in a way a test would hardly reach, with the
properties that would catch it.

## 2. Plan

1. **Host core**: `HostState`, `StreamPipeline`, `ControlThread`, `Host`,
   checked by `MCHost`, proved about in `HostProofs`.
2. **Displays**: the display switch step by step, with Windows refusing calls, a
   crash between any two steps, the driver's watchdog, the marker file and a
   second process; abstract specification: `UndoRecord`; checked by `MCDisplays`,
   proved about in `DisplaysProofs`.
3. **The video channel**: `VideoReceiver`, a frame cut into datagrams, a network
   that loses, reorders and duplicates them, and reassembly; abstract
   specification: `LossyVideo`; checked by `MCVideo`, proved about in
   `VideoProofs`. `VideoLink` puts the encoder's IDR flag, the throttle, the
   decoder's backlog and the codec's callbacks on top of it; checked by `MCLink`,
   proved about in `LinkProofs`.
4. **The client's control connection**: `ControlConnection`, its three unguarded
   fields and five threads; abstract specification: `OrderedChannel`; checked by
   `MCControl`, proved about in `ControlProofs`.
5. **The stream screen**: `StreamScreen`, fallback from codec to codec and the
   overlay that tells of it; checked by `MCScreen`, proved about in `ScreenProofs`.
6. **The service**: `InputDesk`, `HostProcess` and `ConsoleService`, the life of a
   host process beside another and a `--stop`, with its console, its client's
   buttons and the unlocking of the PC; checked by `MCService`, proved about in
   `ServiceProofs`.
7. **The picture**: `Picture`, from the captured window to the encoder's input
   texture; checked by `MCPicture`, proved about in `PictureProofs`.

All of these are done. Every invariant, every action property and every refinement
that a passing run checks is also a theorem; what only TLC checks is liveness. What could
follow, in this order:

8. **Client input**: `TouchController`'s gestures and `GamepadTracker`; abstract
   specification: what the user holds is what the client has said is held, or
   nothing. (The host's side is in `InputDesk` and `HostState`.)
9. **Library**: `LibraryActivity`'s connections and restarts.
10. The display test modes of main.cpp, over `Displays`.

## 3. The host core

### Modules

- `HostState` declares the constants, all the state and `Init`, with the
  operators used by more than one thread: `TakePipeline` (`StopStreaming` up to
  the end of its locked section), `RestoreDisplays`, `PrepareVirtualDisplay`,
  `ReleaseHeldButtons`, `ReleaseAll` (the pad's).
- `StreamPipeline` has the frames: `FrameArrives`, `OnCapturedFrame`, the
  keepalive thread, the section of `Session::mutex_` in which one of them encodes
  and sends (`CheckStreaming`, `SendVideoFrame`), and the Closed event.
- `ControlThread` is the accept thread as a program counter, `control`: each label
  names what the thread does next, `afterSend` where a `SendMessage` returns to and
  `afterStop` where a `StopStreaming` returns to.
- `Host` adds `Shutdown` on its own thread (`owner`) and the client that may leave
  at any time (`PeerLeaves`), composes `Next`, and states the properties.
- `MCHost` is instantiated by the `MCHost_*.cfg` runs.

### State and code

Captures and encoders are numbered as they are made and 0 is a null
`unique_ptr`; connections likewise, so a stale pointer or address is a number
that differs. `mutex` is the owner of `Session::mutex_` only where the section
spans steps (a frame being encoded and sent); a section that is one step needs
`MutexFree`. `videoMutex_` is never held across steps: everything under it is one
step. `sendMutex_` is held across `send()`, which can block. `frameCallback[s]`
and `closedCallback[s]` say where Windows' calls into capture `s` are, so a
capture that is destroyed with a call in flight is visible.

The grain follows the code: two accesses to shared state are one step only when
a lock covers them or only one thread ever looks at one of them. In particular
`HandleStart` is `HandleRequest` (port set), `StartSession` and its steps,
`Renumber`, `GoLive`, `Send`, `RequestIdr`; `SendVideoFrame`'s test of
`streaming_` is a step apart from the rest.

Abstracted: sizes, codecs and names (a request is `start` or `launch`, with or
without a size); which button or which pad input (one of each); the result of
every Windows, NVENC, ViGEm and Playnite call (either outcome, always); the clock behind
the keepalive (a repeat may be due whenever a stream is on). `StartSession` moving
the captured window is left out, as nothing here depends on it.

`mouseHeld` and `padHeld` are `none`, `held`, or `refused`: still down because Windows
swallowed the event that should have let it go. ReleaseHeldButtons then puts the
button's bit back and goes on (input_injector.cpp:106), and ReleaseAll does not look at
what ViGEm answers. So what the code can promise of an input, and
`NoButtonLeftDown` and `ShutdownLeavesNothing` say, is that nothing stays `held`: the
host has tried to let go of it, whenever a client went. That the bit still says so
when the attempt failed is `DownIsRemembered`, in section 8.

Two assumptions are parameters. `StopWaits` says that revoking a WinRT event
waits for handlers in flight. That is what the comment at session.cpp:581 expects;
C++/WinRT does not obviously guarantee it. `NoCallbackAfterStop` and
`ShutdownComplete` assume it, since without it a handler may outlive its capture, and
the runs have it TRUE; the other theorems hold with and without it.
`UseVirtualDisplay` is the `--no-virtual-display` switch.

### Runs

`MaxConnections`, `MaxRequests`, `MaxSessions` and `MaxFrame` bound how many
clients connect, how many START, LAUNCH and STOP are read, how many pipelines are
made and how many frames one stream numbers. Two of each of the first three is
what the interesting cases need: an old stream and a new one, an old client and a
new one, a request that interrupts another. One frame number is enough because
frames can be in the section, dropped by the streaming test and re-encoded
without advancing it.

| Run | Question | Properties |
|---|---|---|
| `pipeline` | do the threads keep out of each other's way | `TypeOK`, `SectionOwnsEncoder`, `VideoToItsClient`, `StoppedIsQuiet`, `KeyframeOwed` |
| `desktop` | is everything that was taken given back | `CleanWhenIdle`, `ScreensStayForTheLaunch`, `ShutdownLeavesNothing`, `NoButtonLeftDown` |
| `live` | does Shutdown return, is the seat freed | `ShutdownReturns`, `SeatIsFreed` |

The run `epoch` ends in a violation: session.h:125 says that a shutdown never sits
out a launch, and a LAUNCH between the bump and the stop claims the bumped epoch.
Two other disagreements need no run. session.cpp:570 says that a vanished client's
pad is released, and StopSession, which does it, is reached only if the client was
streaming. PROTOCOL.md:168 says that the host stops the video stream when the captured
window closes; its Closed handler (session.cpp:394) only sends the ERROR, and the stream
stays on, with the keepalive thread repeating the last picture, until STOP, the next
START or a disconnect.

### Fairness

`FairSpec` assumes: the control and the shutdown thread, and the keepalive
thread, are strongly fair, which is what a fair `std::mutex` and a running
scheduler give to a thread that waits for a lock others take again and again;
`send()` returns (the client reads, or its connection dies); waiting for a game's
window ends with its timeout; `recv()` fails when the client is gone or its socket
closed; a frame callback and a Closed notice in progress finish. Nothing makes a
client connect or send, a window change or close, or anyone shut the host down.

### Proofs

`HostProofs` proves, for any values of the constants allowed by `HostAssumption`
(in particular any number of clients, requests, pipelines and frames):

- `TypeCorrect`: `Spec => []TypeOK`.
- `SectionSafe`: `Spec => []SectionOwnsEncoder`. Inductive together with "a frame
  past the streaming test is inside the section": `TakePipeline` needs the mutex,
  so the encoder cannot go while a frame is being sent.
- `SessionInvariant`: `Spec => [](TypeOK /\ SessionInv)`. `SessionInv` is the label
  by label account of the control thread: what is true at each label of the
  pipeline, the display flags and `streaming` (`BetweenClean`, `SettledAtRest`),
  where a send or a stop may return to (`ReturnsOK`), that Shutdown's last steps run
  after the control thread is done (`OwnerWaits`), and that the destination is
  this client's and complete from its request on (`Addressed`).
- `CleanDesktop` and `VideoAddressed` follow from it. `CleanWhenIdle` alone is not
  inductive: it says nothing of the labels between a request and its answer, which
  is where the early returns are.
- `ButtonsReleased` strengthens `NoButtonLeftDown` to the labels after the
  disconnect path's release: from there on no button is `held`, whatever Windows did
  with the button-up.
- `KeyframeGuaranteed` strengthens `KeyframeOwed` to the labels from going live to
  the forced IDR.

- `LaunchIsSeen`: `Spec => []ScreensStayForTheLaunch`, from `SessionInv`: at the labels
  of a launch that is pending, and of a message it sends, nothing has been detached.
- `NoCallbackAfterStop`: `StopWaits` implies `Spec => []StoppedIsQuiet`. Its invariant
  `QuietInv` says that a capture which runs is the present one or the one being
  destroyed; that either of them runs, or had its window closed, or is being
  unregistered; and that in every other capture nothing is in flight. The
  interesting step is `Revoke`, which waits.
- `ShutdownComplete`: `StopWaits` implies `Spec => []ShutdownLeavesNothing`. It needs all
  of the above at once: `OwnerWaits` (Shutdown's last steps come after both joins),
  `SettledAtRest` (what the control thread leaves when it is done), `QuietInv`, and
  `ShutdownInv`, which adds the keepalive thread, the client's socket and the inputs,
  of which Shutdown leaves none but those Windows would not let go of.

The proofs have one step per action; lemmas group the actions that leave a group
of variables alone. The two liveness properties are model-checked only.

## 4. Displays

### Modules

- `Displays` is `PrepareVirtualDisplay`, `DetachPhysicalDisplays` and
  `RestoreDisplays` of session.cpp over display_topology.cpp and
  virtual_display.cpp, one action per call that Windows, the driver or the disk
  sees. `at` is what the host does next, "dead" when there is none.
- `UndoRecord` is what the switch promises, on two variables: the user's state may
  be changed only while the way back is on record.
- `MCDisplays` is instantiated by `MCDisplays_switch.cfg`.

### State and code

A physical screen is `home` (where the user had it), `moved`, or `off`; a snapshot
gives each screen a place, and one that is off is not in it. `marker` is
detached-displays.bin with what RecoverIfMarked reads from it. `virtual` is the
monitor: absent, made but not part of the desktop (`idle`), or `attached`; `holds`
is `virtualDisplay_`, whose thread pings the driver.

`Refusable` says what may fail: creating the display, pings, writing the marker,
attaching, making primary, keeping only, restoring exactly, the default topology,
removing the virtual display. A
refused request may be half done where the code says so (MakePrimary, KeepOnly's
check after the fact). Restoring while the virtual display is attached may fail
whatever `Refusable` says, because session.cpp and virtual_display.cpp retry on
that account. When the virtual display goes and no screen is left, Windows brings
one back, somewhere (display_topology.h: "Windows is forced to").

Letting the virtual display go (`RemoveDisplay`, in `DropVirtualDisplay` and `Release`)
may leave it there: nobody looks at what the driver answers (virtual_display.cpp:63),
and RestoreDisplaysAround waits for it thirty times 100 ms at most
(virtual_display.cpp:163). The next attempt then runs with the display still in its way,
and it goes when the driver's watchdog expires. The default topology (`DefaultTopology`)
is every display on; or, if Windows refuses to extend the desktop, one internal panel
alone; or neither (display_topology.cpp:684).

A host may start at any time after another has died, also before the driver's
watchdog has removed the dead one's display; and the program may be run again beside a
host. Not modelled: two virtual displays at once (`Create` waits for an earlier one to
go, which the code does not: that takes a session begun within seconds of a crash or of
a removal that has not taken effect); sizes
and refresh rates beyond "as it was or not", adapters that change between runs, the
user rearranging screens.

`lapses` is history: which of the things that the code cannot or does not make good
have happened.

| Lapse | What it is |
|---|---|
| `mark` | the marker was not written, or was written empty (`MarkDetached` ignores it) |
| `restore` | a restore with no virtual display in its way was not exact |
| `remove` | a session's last restore was made around a virtual display that had not gone in time, and was not exact |
| `default` | the default topology, the last resort, was refused, or left a screen off |
| `early` | a process started before a dead one's virtual display had gone |
| `second` | the program was run beside a host and undid its switch |

### Run

One run, `displays`, has all of it: everything may be refused, a host may die between
any two steps, be started early, and be joined by a second process. Its four
properties differ in what they survive:

| Property | Survives |
|---|---|
| `NeverDark` | every lapse |
| `NoScreenLeftOff` | `restore`, `remove` and `early`: a screen that cannot be put back as it was is at least put on |
| `UndoSpec` | none: the first one ends the promise that the desktop comes back as it was |
| `ScreensComeBack` | none |

A refused creation, attach, MakePrimary or KeepOnly, a half-done one, a lost ping, a
removal that takes its time and a crash are not lapses: all four properties hold through
them. A slow removal becomes one only if the restore around the display falls short.

Two screens tell "all" from "some"; two sessions and two crashes give a session
after a recovery, a crash during one, and a second process after a crash.

Five disagreements need no run: main.cpp:1344 says that a second process leaves the
running host alone, and by then RecoverIfMarked has restored that host's screens and
deleted its marker; display_topology.h:21 says a crash can be
recovered from on the next launch, and a launch within the driver's three seconds
fails to restore around the dead host's display and clears the marker;
display_topology.h:78 says the marker is
"cleared after a successful restore", and session.cpp:541 and
display_topology.cpp:748 clear it after any; the comment at virtual_display.cpp:161 has
the last attempt wait until Windows has removed the display, and after three seconds it
goes ahead with the display there, fails for "exactly the same reason", and the marker
goes with it; and MarkDetached ignores a failure to
write, after which a crash has nothing to recover from.

### Fairness

`ScreensComeBack` assumes that a dead host is started again (autostart.ps1
registers the task with RestartCount 3), that the driver's watchdog counts down
when nobody pings, and that the process goes on with a restore it has begun.
Nothing ends a session or makes a host die.

### Proofs

`DisplaysProofs` proves for any set of screens, any bounds and whatever may be refused:

- `DisplaysTypeCorrect`.
- `AlwaysSomethingToSee`: `Spec => []NeverDark`, inductive with the types. KeepOnly is
  the only step that takes screens away and it has seen the virtual display attached;
  the steps that remove that display bring a screen back.
- `UndoImplemented`: `Spec => UndoSpec`, the refinement. Its inductive invariant
  `UndoInv` says, as long as there is no lapse: at every label how far the record goes
  and what is at home. Its interesting step is the last attempt of a restore
  (`RestoreIsExact`): it is exact, since one that is not is a lapse, whether the virtual
  display is out of its way (`restore`) or not (`remove`); a recovery has none in its way
  unless it began early.
- `EveryScreenOn`: `Spec => []NoScreenLeftOff`. Its inductive invariant `ScreensInv` is
  the same account for "on or off" instead of "at home or not", and as it survives
  inexact restores it must follow a session that began with screens moved.

`ScreensComeBack` is liveness and model-checked only.

## 5. Video

### Modules

| Module | Models | Source |
|---|---|---|
| `LossyVideo` | the promise: a whole frame is handed over at once unless a newer one was, and numbers never go backwards | PROTOCOL.md's reassembly rules, as the code keeps them |
| `VideoReceiver` | `SendVideoFrame`'s datagrams, the network, `handleDatagram`, `stop` | net_server.cpp, VideoReceiver.kt |
| `VideoLink` | one session from `forceIdr_` to the surface: requests, frames in flight, reports, the throttle, the ticker, `submit`, `pump`, codec callbacks | encoder_nvenc.cpp, VideoReceiver.kt, VideoDecoder.kt, StreamActivity.kt |
| `VideoProofs`, `LinkProofs` | theorems about `VideoReceiver` and `VideoLink` | |
| `MCVideo`, `MCLink` | instances for TLC | |

### State and code

In `VideoReceiver`, `pending` is the set of fragments held: a frame has an entry in
the client's map exactly when one of its fragments is in the set. A datagram that is
lost never enters `net`; one that is read may stay in `net` to be read again.
`reached` is history: everything the receiver thread has read.

`frameNumber` counts the frames sent; a header carries the count in 32 bits, which the
host takes for unsigned and the client reads as a signed Int (`AsInt`, with `SignBit` for
2^31). VideoReceiver.kt:99 says "Unsigned comparison" of a signed one. So once 2^31
frames of one stream are sent, over 400 days at 60 a second (each START and LAUNCH counts
from 0 again), every whole frame is turned away as older than the last one handed over;
but for the frame numbered 2^32 - 1, which reads as -1 and passes the test at line 100. The
properties hold until the first such number is sent, and say so (`Unsigned`); a stream of
that length is the only disagreement of this part with its comments.

`VideoLink` has no frame numbers, so that its behaviours can go on for ever in a
finite state space. `VideoReceiver` shows that frames come in order, so a frame is
described by whether it is a keyframe and whether the frame before it is missing
(`gap`). `stale` says that the receiver holds something older than the next frame,
which will be discarded and reported. `reference` is what the codec holds: `good`
when the next delta frame would decode, `bad` when the frame it builds on was never
decoded, `none` before the first keyframe. Every frame but a keyframe builds on the
one before it, and keyframes are made on demand only (`NVENC_INFINITE_GOPLENGTH`).

`pump()` on the callback thread is two steps, the peek and the poll, because
`submit` calls `clear()` and `add()` without `pumpLock`; `submit`'s own `pump()` waits
for the lock (`contended`). The ticker's test of the throttle and its request are two
steps for the same reason. `mishap` is history: the first of six things to go wrong
that the client never asks a keyframe for.

| Mishap | Where |
|---|---|
| `unseen` | every datagram of a frame is lost, or a newer frame completes before the first arrives (VideoReceiver.kt:131 counts entries only) |
| `throttled` | a loss within 100 ms of a request (StreamActivity.kt:645) |
| `repeated` | the single datagram of the newest frame comes twice (VideoReceiver.kt:100 lets an equal number pass) |
| `encoder` | a bitstream that cannot be locked (encoder_nvenc.cpp:565) |
| `backlog` | the decoder's queue is cleared (VideoDecoder.kt:141) |
| `dropped` | an input buffer too small, or a codec that refuses (VideoDecoder.kt:160) |

### Runs

| Run | Question | Properties |
|---|---|---|
| `video_receive` | is everything that arrives whole shown, in order | `HeldIsWanted`, `WholeIsShown`, `PromiseKept` |
| `video_repair` | is a loss that is noticed mended, does a first picture come | `LossIsRepaired`, `KeyframeGoesFirst`, `FirstPicture` |

VideoDecoder.kt:138 says that a dropped backlog costs one glitch; nobody asks for a
keyframe, so the picture stays wrong until something else does, which is why
`LossIsRepaired` has to except it.

`video_receive` sends four frames of one or two datagrams, with `SignBit` 3: three below
the sign bit, of which one may be held, one overtake it and one be lost or discard what is
left, and one whose number reads as negative, for which the receiver turns the frame away
and the properties no longer speak. That the numbers go on to -1 and around is not
reached.
`MAX_QUEUED_FRAMES` is 4 in the code and 1 in `video_repair`: one frame to be next and
one to be dropped. One frame in flight and one unread request with another behind it
keep the liveness run within a minute; the safety properties also hold with two of
each.

### Fairness

`FirstPicture` says that a picture is shown if from some point on the network and
the codec lose nothing; before that point anything may be lost, the keyframe
included. Weak fairness is assumed of the host's reader and encoder (the keepalive
thread repeats a still picture, so there is always a frame to encode), of the
network delivering or losing what it carries, of the throttle's clock, the
one-second ticker and the codec's callbacks. The throttle's bound
(`requests < MaxRequests`) delays only a request that has others unread before it.

### Proofs

`VideoProofs` holds for every width of the number (`SignBit`), any number of fragments
and any number of frames, of which it says nothing after the first to read as negative:
`ReceiverInv` is `TypeOK` and, while `Unsigned`, `HeadersAgree`, `Wanted` and `Shown`. Up to
there a frame's number reads as it was written (`ReadsTheNumber`), and after it the types
still hold (`ReadsAnInt`). The invariant is inductive because `Wanted` ties `pending` to
`reached` in both directions: of a frame newer than the newest completed one, the receiver holds
exactly what has arrived. With headers that agree, "my fragments are all here" and
"all fragments have arrived" are then the same question, which is what
`ReceiveHandsOver` says of one datagram and `PromiseImplemented` of the whole
receiver.

`LinkProofs` proves about `VideoLink`, for any backlog and any number of frames in flight
and of unread requests:

- `LinkTypeCorrect`.
- `LossesAreRepaired`: `Spec => []LossIsRepaired`. It is not inductive: it speaks of the
  frame the codec lacks and says nothing of a frame that is missing and has not got as
  far as the codec. `MendingInv` follows the gap through the receiver and the decoder's
  queue: behind each queued frame that will not decode, a keyframe is queued or `Asked`
  for, where `Asked` includes what the receiver will report when it discards something
  stale. `NothingWrong` says what the absence of a mishap means in between (no hole
  on the way, the frame in hand is the first of the queue), `RequestsFit` that a request
  always has room, and `PumpInv` that whoever is in `pump()` has a frame and no buffer.
- `KeyframeIsFirst`: `Spec => []KeyframeGoesFirst`, a conjunct of the same invariant
  `LinkInv`, since what `pump()` peeked has to be the keyframe still.

`FirstPicture` is liveness and model-checked only.

## 6. The client's control connection

### Modules

- `OrderedChannel` is the promise of the queue, on what was queued (`sent`) and what
  the host has read (`got`).
- `ControlConnection` is `ControlConnection.kt` from `connect()` to the end of its
  last thread, with the two screens that own one.
- `MCControl` is instantiated by the `MCControl_*.cfg` runs.

### State and code

`socket`, `connected` and `outbound` are the class's fields, and no lock guards them.
So every statement that reads or writes one is a step: `connect()` is `Dial`, `Assign`,
`Empty`, `Connected`, `StartThreads`, `SendHello`; `send()` is its test and `Enqueue`;
`close()` is `CloseDrops` to `CloseForgets` on whichever thread calls it, since
`handleDisconnect` calls it on the reader and on the writer and both may pass its test.
`at[t]` is the statement thread `t` is at, and `todo[t]` what it is about to queue or
write. `stopSessionAndClose` clears `connected` and `socket` in one step because
nothing that another thread does in between would differ, and then queues the
releases, STOP and the sentinel one at a time.

`wire` is what the kernel and the network carry; a write to a link that is down may
still succeed. A message is one of the button's edges, STOP, HELLO or "note"; a screen
is `stream`, which ends with `stopSessionAndClose`, or `library`, which ends with
`close()`.

### Runs

| Run | Question | Properties |
|---|---|---|
| `control_order` | is what the host reads a prefix of what was queued, does a teardown's message go out, does everything end | `LiftedBeforeStop`, `InOrder`, `StopGoesOut`, `ThreadsEnd` |
| `control_drop` (violation) | ControlConnection.kt:199 says that `close()` drops the connection at once | called while `connect()` is dialling it finds nothing to close; `connect()` then empties the queue, the sentinel with it, and sets `connected` |

`MaxMessages` is 2: one message beside HELLO, for instance a press, before the release,
STOP and the sentinel; queue positions and overtaking need no more.

`early` is history: the screen let go while `connect()` was running. `InOrder`,
`StopGoesOut` and `ThreadsEnd` except it, because of what `control_drop` shows. The
connection that results is nobody's: its reader was never launched or ends with the
screen's scope, its writer waits in `take()`, and the host, which serves one client at
a time, keeps its seat for it. That both threads may run `close()` at the same time is
harmless: the link is down then, and the sentinel is queued twice.

### Fairness

Weak fairness of every thread that has begun something, and of the host's reading. A
screen need not send, leave or be destroyed, and a link need not fail.

### Proofs

`ControlProofs` proves, for any number of messages, with the inductive invariant
`ControlInv`:

- `ControlTypeCorrect`. `TodoInv` goes with it: what each thread has in hand at each place.
- `ChannelImplemented`: `Spec => InOrder`, the refinement of `OrderedChannel`, step by
  step. `LineInv` is the reason: what has been taken from the queue is the beginning of
  what was queued, and what is in the queue, up to a sentinel, goes on where that ends.
  A `clear()` would break it, so `ClosingInv` and `EstablishedInv` say who may close: the
  connection's own threads only when the link is over, the screen only when it is done
  with the connection. Once it is `Over`, only what was delivered counts.
- `ButtonsAreLifted`: `Spec => []LiftedBeforeStop`. `FingerInv` says that a press which
  was queued has been lifted in the queue, or is about to be, or is remembered by
  `TouchController`; with a screen that let go early nothing was pressed (`Unpressed`).
- `DroppedOnceEstablished`: `DroppedForGood`, which `control_drop` refutes, holds
  whenever the screen let go after `connect()` had returned. So the case that run finds
  is the only one.

`StopGoesOut` and `ThreadsEnd` are liveness and model-checked only.

## 7. The stream screen

### Modules

- `StreamScreen` is `StreamActivity` without its input: surface callbacks, `connect`,
  the callbacks of its connection and decoder, `startDecoder`, `fallBack`,
  `teardownSession`, the loading overlay and its ticker, `onDestroy`.
- `MCScreen` is instantiated by `MCScreen_fallback.cfg`.

### State and code

All of it runs on the main looper, so a handler is one step. What is not in order is
what arrives there: `posts` are the callbacks that readers and codecs have posted, and
one may be run after the attempt it is about was replaced, or after `onDestroy`.
`talk[k]` is how far attempt `k` has got with the host, which bounds what its reader can
still post. An attempt is named by its codec's place in the chain; since a fallback only
goes forward, that names its connection, receiver and decoder too.

`overlay` is a record because the methods that draw on it call one another;
each is an operator from overlay to overlay (`EnterStage`, `ShowLoadingError`,
`RestartLoadingFor`, `FallBack`, `DrawLoading`). `ticks` counts the `loadingTicker`s in
the handler's queue: the ticker posts itself again at its end, also when what it called
has just posted one, so there are two after a stall has led to a fallback.
`inStage` is the clock, with the two thresholds the code knows. `connections` and
`codecs` are the attempts whose resources nobody has let go of.

`PictureShows` does not ask for a surface: a decoder keeps the one it was started with
when the user goes home, and `surfaceCreated` gives it no other.

### Run

`screen` checks `OwnsWhatIsCurrent`, `CodecAgrees`, `NeverStuck`, `ComplaintsAreCurrent`,
`PictureSurvives`, `PictureWins` and `NeverSilent`. `ChainSize` is 2, as in `CodecSupport.chain`; `MaxPosts` is 2: a callback
of the old attempt and one of the new, in either order.

`ComplaintsAreCurrent` speaks of what is said anew. A complaint shown before a fallback
fires stays over the retry until its next stage, as `enterStage` has it.

### Fairness

The main thread runs what is posted and due, and time passes. The host need not
answer, a picture need not come, and the user need not stay. `PictureWins` and
`NeverSilent` end with the screen.

### Proofs

`ScreenProofs` proves, for a chain of any length and any number of callbacks waiting,
`ScreenInvariant`: `Spec => []ScreenInv`, where `ScreenInv` is the run's three invariants
and what makes them inductive. A retry is on its way only if there is a codec left (or
`TearDownAndConnect` would leave the chain); without a connection the codec is the first
(or the first surface would ask for another); a session that waits for a surface has no
decoder (or the surface would leave it waiting); and a picture has a decoder.
`ScreenTypeCorrect`, `HoldsWhatIsCurrent`, `OneAtATime` and `NothingStuck` follow from it, and so do the two
action properties, `PictureIsKept` (`Spec => PictureSurvives`) and `ComplaintsFollow`
(`Spec => ComplaintsAreCurrent`). The lemmas treat the methods that draw on the overlay
as functions: `Follows(o, q)` is what all of them but `hideLoading` leave of it.
`PictureWins` and `NeverSilent` are liveness and stay with TLC.

## 8. The process and its service

### Modules

- `InputDesk` is what a host process does to the desktop for its client beside
  streaming: mouse buttons (input_injector.cpp), unlocking (session_lock.cpp), and
  reading the library through a helper program (game_library.cpp), all on the network
  thread.
- `HostProcess` is the process (main.cpp): the single-instance mutex, the shutdown
  event, the pad, `startService` and `stopService`, and the end of `RunServer`.
- `ConsoleService` is the web console's thread (web_console.cpp) with the callbacks
  `RunServer` gives it, and `RunStop`; it composes `Next` and states the properties.
- `MCService` is instantiated by `MCService_life.cfg`; theorems are in `ServiceProofs`.

### State and code

`main[h]`, `web[h]` and `net[h]` are where process `h`'s main thread, its console's
thread and its network thread are; `stop` is where the one `--stop` is. A kernel object
lives as long as somebody has a handle on it, so the mutex and the event are the sets of
the handles' owners, and a process that ends closes all of its own. `serviceMutex` is
held across steps by whoever is inside `stopService`: `session[h]` is then `"stopping"`,
and the wait in the middle is for the network thread, which `Session::Shutdown` joins.

`held[h]` is `g_heldButtons` and `down` is what Windows has; the bit and the event are
two steps, in the code's order, and Windows may swallow any event. `lost` is history:
buttons that are down although no running host can know. `cover` is one game's file.

`Host` has the network thread's other work and the outcome of a Shutdown in detail; here
it reads, handles an input, waits for the library or unlocks the PC, and its client may
leave at any time. HTTP is reduced to which request it was; a browser may hang up, be
silent or not read its answer.

### Run

| Run | Question | Properties |
|---|---|---|
| `service` | is there one service at a time, is what it holds remembered, and does it end when asked | `OneService`, `DownIsRemembered`, `CoverDecodes`, `StopIsObeyed`, `ConsoleAnswers` |

Two hosts and one `--stop` are every pair that meets at the mutex; one kill leaves the
second host to find what the first one left. One button is enough: buttons meet only in
`g_heldButtons`, whose bits are independent.

Not every disagreement needs a run. `RunStop` looks for the mutex by making it, so a
host that starts then says "Another thorstream host is already running" (main.cpp:1344)
and gives up. A `--stop` between `CreateEventW` and `ResetEvent` is erased
(main.cpp:1352). A swallowed press clears the bit of a button that is still down because
its lift was swallowed before (input_injector.cpp:86; line 77 takes it for one that never
went down); `DownIsRemembered` excepts it. main.cpp:969 says "Decode it before storing
it" and stores first, so that a refused upload costs the cover that was there. The race
input_injector.cpp:64 guards against cannot happen in this program: every
`ReleaseHeldButtons` is on the network thread or after its join.

### Fairness

Every thread of a process runs: weak fairness of main's steps, of the console's that
wait for nobody outside the process, and of the network thread's. Nothing is assumed of
browsers, the client, the library's helper, or that somebody starts a host. Three waits
of the code have no end of their own: `recv` and `send` of the console
(web_console.cpp:495) and the reading of the helper's output (game_library.cpp:58, before
the timeout of line 63). `StopIsObeyed` therefore has the premise `Answered`, that they
do not stall this process for ever, and `ConsoleAnswers` excepts a client in the
library. Unlocking is bounded by its deadline but not told of a shutdown
(session_lock.cpp:121).

### Proofs

`ServiceProofs` proves for any number of hosts and buttons:

- `ServiceTypeCorrect`.
- `OnlyOneService`: `OneService` is not inductive, since a session says nothing of the
  lock. `OwnerInv` says that a process past the lock holds its mutex and is the only one;
  `ServiceInv` that a session is there only between main's start and its last stop, that
  the console's thread works only while main waits for it, and that whoever is inside
  `stopService` is shutting a session down.
- `ButtonsAreRemembered`: inductive with `HandInv`, that a button being pressed has its
  bit and one being lifted is up, and with `OneService`: only one network thread presses
  or lifts anything at a time.
- `CoversDecode`, from `ServiceInv`: only the one host's console touches the file.

`StopIsObeyed` and `ConsoleAnswers` are liveness and model-checked only.

## 9. The picture

### Module

`Picture` follows a frame from the window to the encoder's input texture:
`WindowCapture`'s buffers and `ComputeCrop` (window_capture.cpp), the size
`StartSession` has the encoder made for (`FitPreservingAspect`), and `EncodeFrame`'s copy
or `TextureScaler::Draw` with the views it keeps (scaler.cpp). `StreamPipeline` has what
is done with the result. `MCPicture` is instantiated by `MCPicture_views.cfg`; theorems
are in `PictureProofs`.

### State and code

A texture is an address and the pool it was made for. A view holds its texture, and so
keeps its address from being used again; `cachedSource` is a raw pointer and keeps
nothing. `picture` is what the input texture holds, `asked` (history) what `EncodeFrame`
last accepted, so that "the encoder was given this frame" and "the encoder has this frame"
are two things. A window is a geometry: visible bounds, the client area in them, and the
invisible border. It may change between the capture of a frame and its crop, which the
code computes from the window as it is then. Windows may tell the visible bounds, the
outer ones (when DWM does not answer) or nothing. Making a view, mapping the constants
and the draw may each fail. `Truncated` lets a product of doubles fall just short of a
whole number.

### Run

| Run | Question | Properties |
|---|---|---|
| `picture` | is the encoder shown what it was given, and all of it, in a size that fits | `DrawnIsAsked`, `WholeWindow`, `FitFits` |

Four addresses are two for a pool, one kept by a view and one by the frame in hand, so
a new pool can take an old one's address as soon as the code lets it; they are
interchangeable, hence the symmetry. Three pools let an address come back. The windows
are one without a frame, one with a title bar and a border, and one that hangs over the
edge; the first is larger than the client asks for, so copies and draws both occur.
`FitFits` speaks of all sizes and limits up to 14, past the rounding to even and the
smallest size; it does not depend on the state, so it is looked at before the encoder
exists.

Two disagreements: a view that cannot be made leaves the old pointer behind
(scaler.cpp:148), so the next frame at that address is drawn from no view and a black
picture is accepted, which `DrawnIsAsked` excepts; and window_capture.cpp:204 makes the
new pool "after the frame is released" while the frame is still in scope.

### Proofs

`PictureProofs` proves for any windows, addresses and request: `PictureTypeCorrect`;
`NoStaleFrame` (`DrawnIsAsked`), which rests on `ViewHoldsTexture` (a
view is cached under its texture's address, and no other texture is at that address) and `QueueOfPool`
(what waits is of the present pool); and `ClientAreaIsShown` (`WholeWindow`), from the
lemma that `ComputeCrop` gives the client area whenever it is told where it is.

`EverySizeFits` (`FitFits`) proves for every size and limit what the run looks at up to
14. `ScaleBinds` says that the scale is 1 or the limit on the axis that asks for the
most, and then no other axis exceeds its own limit; `SideAsItIs`, `SideAtItsLimit` and
`SideInProportion` what truncation and rounding to even take from a side in each of
these cases; `Skewed` what that does to the proportions. The products are compared by
way of `Cancel` and `Division`, two facts of arithmetic that the solver finds one at a
time.

## 10. Not modelled, and why

- The diagnostic modes of main.cpp (lines 293 to 796: `RunDisplaySwitchTest`,
  `RunMakePrimaryTest` and the like) and the capture to a file. Each is a program of its
  own in the same executable; what they call is in `Displays`.
- Overlays (`DrawInto` a part of the frame) and `UpdateBitrate`: nothing calls them.
- `UnlockNow`, which runs in the helper's process as SYSTEM, and `AllowLocking`, which
  nothing calls.
- The encoder's rate-control settings and the AV1 header's description for the log.
- HTTP parsing, JSON, the page, thumbnails, PNG, the window list, the D3D device: input
  and output without state that anything else depends on.
- The client's touch gestures, pad tracking, keyboard and library grid (planned), and
  `HostDiscovery`, one broadcast with a bounded wait.
- `tools/`, `poc/`, `cocoon/` and `third_party`: not part of the running system, or
  vendored.

Out of the prover's reach, and so model-checked only: every liveness property.
