# A TLA+ model of GB28181MProxy

GB28181MProxy is a media proxy for GB/T 28181 video surveillance.  A SIP platform
(or a browser, over HTTP) asks it to open *channels*.  For each channel the proxy
forks a child process that receives an H.264 program stream over RTP, decodes,
scales and encodes it again, and sends the result on.  This directory models the
proxy in TLA+, checks the model with TLC on small instances and proves part of it
with TLAPS for all instances.

## The system and its parts

| part | source | state | operations |
|---|---|---|---|
| Channel manager | `tdChannel` | `chanMap` (name to `Channel*`), `chanMapMutex`, `delChanList`, `delChanMutex` | `createChannel`, `delChannel`, `delChanWorkLoop`, `channelsInfo2Json`, the `setCodecParam` listener, `mediaPreset` (no caller), `getInstance` |
| Child process | `tdChannel`, `tdRtp` | a copy of the parent at `fork()` | `setUp`, `start`, exit, SIGTERM |
| FIFO | `tdUtil/fifoMsg` | the node `/tmp/<channel>`, both ends, 1028-byte messages | `Create`, `Wait`, `OnceWrite`, `Close` |
| SIP device | `tdGb28181` | `is_register`, `register_id`, URIs, `sn`; the registrations and events of eXosip | `init`, `process_request`, `modifyRegister`, `heartbeat_task` |
| HTTP interface | `tdServer/TdHttpServer` | none of its own | `closeChannel`, `setvideoparam`, `allChannels`, `setGB28181config`, `creatChannel2`, `login` |
| RTP session | `tdRtp` | reassembly buffer `rtpOut`/`pos`, `isRun`, `pts` | `recvLoopThread`, `sendLoopThread`, `sendData`, `stop` |
| Frame queue | `tdUtil/Queue.h` | `packetQue`, at most 128 frames | `push`, `pop`, `clear` |
| Program stream | `tdPs` | none between frames but `pts` | `parsingPs`, `packagingPs`, and `sendData` in `tdRtp` |
| Codec parameters | `tdCodec` | width, height, rate, bit rate, `mIsRefresh`, the encoder's own copy | `setParam`, `convert` |
| Notice centre | `tdUtil/noticeCenter.h` | event to listeners | `emitEvent`, `addListener` |
| Configuration | `tdConf`, `tdUtil/inifile` | `mGB28121Ctx`, `config.ini` | `readConfig`, `saveConfig`, `Load`, `Save` |

The SIP loop runs on the main thread of the parent; the HTTP server has a pool of
threads; the delete worker is a detached thread started by the constructor of the
channel manager.  They meet in `chanMap` (under `chanMapMutex`, except in the
`setCodecParam` listener), in `delChanList` and in the notice centre, whose
listeners run on the thread that emits.  Parent and child share nothing after
`fork()` but the FIFO, the RTP ports of the host and the signal.  In the child
the receive thread, the send thread and the thread that reads the FIFO share the
frame queue (under a mutex) and the codec parameters (without one).

### What is hard, and what correct means

| part | hard behaviour | correct when |
|---|---|---|
| Channel manager | three kinds of threads, two mutexes, one reader of `chanMap` outside them; the lock is released between check and insert; deletions are last in, first out | a registered channel is live, no child is lost, a close is carried out and harms nobody else |
| Child process | `fork` and `setUp` fail, children die, the parent dies and is started again | a channel that is shown serves; what was deleted was collected |
| FIFO | `open` waits for the other end, a node outlives its channel, reads do not respect messages | parameters reach the child they are meant for, whole, newest last; nobody waits for ever |
| Codec parameters | setter and user share fields and a flag without a lock | the encoder runs with what was asked for last |
| RTP session | losses, reordering, several senders, `Poll` before `Wait` | a loss spoils no frame but those it touches; what arrived is used |
| Frame queue | limit of 128 | memory is lost to a full queue only |
| Program stream | 16-bit segment lengths, damaged input, unsigned arithmetic, clocks | the parser takes out what the packer put in, and always returns |
| SIP device | registration and heartbeat on other threads than changes of the account | the device registers with the account it has, no other, and in the end |
| Configuration | saved in place, read by any thread | a start finds the old or the new configuration |
| Notice centre | the first `getInstance` on several threads, commands before the listener | a command is handled once |

## Modules

| module | models | state and steps in the code |
|---|---|---|
| `ChanManager` | `TdChanManager.cpp`, the life of a child in `TdRtp::setUp`/`start`, the two ends of the FIFO in `fifoMsg.cpp` | one `pc` per thread; each critical section and each system call is a step: `Start`, `Accept`/`Refuse`, `Fork`, `NewChannel`, `Register`, `Insert` are `createChannel`; `Pop` to `Free` are `delChanWorkLoop`; `Lookup` to `Store` are the `setCodecParam` listener; `SetUpOk` to `ChildOpen` are the child |
| `FifoMsg` | `OnceWrite` and `Wait` with the pipe as a count of bytes | `Write` is one `write` of 1028 bytes, `Take`/`Drop` one `read` of up to 2048 and the test of its result |
| `CodecParam` | `TdCodec::setParam` against `TdH264::convert` | `SetField`, `SetRefresh` and one step for each read of `convert`, with the flag's test and its clearing |
| `ParamPath` | the two together | the FIFO thread's `Hand` and `HandBack` are steps of both components |
| `EncoderSetting` | nothing of the code: what a channel promises about its parameters | `ParamPath` implements it |
| `RtpStream` | `recvLoopThread`, `parsingPs` by its outcome, `Queue`, `sendLoopThread` | `Poll`, `Wakes`/`TimesOut` (`WaitForIncomingData`), `TakePacket`/`TakeMarker` (one turn of the inner loop), `SourceDone`, `Pop`, `Clear` |
| `PsStream` | one frame through `packagingPs`, `sendData`, a lossy network and `parsingPs` | `Encoded` is the turn of `sendLoopThread` with its headers, `Segment`/`LastSegment` the loop over the PES packets, `FullPacket`/`LastPacket` one turn of `sendData` each with the receiver's joining, `ParseSkip`/`ParsePes`/`ParseEnd` one turn of the parser each |
| `Registration` | `TdConf` and `inifile.cpp`, the `setGB28181config` handler, `modifyRegister`, the registration events of `process_request`, `heartbeat_task`, the start of `main.cpp` | `LoadConfig`/`LoadFails` are `readConfig`, `Start` starts the HTTP server in `main`, `Listen`/`Guess` are the start of `TdDevice::init`; `SetField` to `Write` the handler and `saveConfig`; `Remove` to `Build` or `BuildFails` are `modifyRegister` with `setGB28181Param`; `Succeeded`/`Failed`/`Unanswered` the events; `Heartbeat`/`Beat` test and message; `Challenge`, `Accept`, `Refuse` are the server's, `Resend` is eXosip's |
| `NoticeCenter` | `noticeCenter.h`, `TdChanManager::getInstance` and `monitor`, who emits | `GetInstance`, `New`, `Monitor`, `AddListener` are the steps of the first call; `Emit`, `Call`, `Answer` those of `emitEvent` and its handler |

Each `MC` module only gives constants their values; those of the modules that have
none are all in their `.cfg` files.  Each `_proofs` module holds the
theorems about the module it is named after.  `ParamPath` composes `FifoMsg` and
`CodecParam` by `INSTANCE`; `ChanManager` has the opening of the FIFO and `FifoMsg`
starts where both ends are open; `RtpStream` stops where `convert` begins.  `PsStream`
is what `RtpStream` takes for granted: that a frame whose packets all arrive is parsed
whole, and that `parsingPs` returns (but see `Stuck` under Findings).  `Registration` and `NoticeCenter` are the parent
before and beside the commands that `ChanManager` begins with.

### Choices worth knowing

- **Undefined behaviour is a choice.**  A `std::map` read outside its mutex
  (`MapRace`), a `Channel` used after its deletion (`UseAfterFree`,
  `UseReallocated`) and the missing `return` of `FifoMsgSession::Close`
  (`CloseFallsThrough`) may do what the reader expects or end the process;
  use after free may also hit a newer `Channel`.  The invariants hold in spite of
  these.  A compiler may merge the two reads of the dimensions in `convert`
  (`TestRefresh` allows both).  After a loss `parsingPs` may copy bytes from behind its
  input, or give `memcpy` a length below zero: in `PsStream` the first may and the second
  must end the process (`CopyEnds`); `RtpStream` has the damaged frame only.
- **Names are values, the empty one included**: a request without a channel name
  carries it, `/tmp/` is then no FIFO and the worker takes it for an empty list.
- **Frames and packets.**  A frame is known by its sender and its number, the joined
  bytes by their first and last packet and by whether there is a gap.  `parsingPs`
  looks for a pack header at the beginning, which only the first packet of a frame has.
- **A setting is a number.**  In `Registration` a field holds the number of the request
  it was set by; four fields stand for ten: `mServerSipDomain`, which the handler sets and
  the file never holds (`TdConf.cpp:18-26,37-45`), a string and an int of the address, and
  the password for the credentials.  What `Save` and `Load` do to values is kept: a value
  is cut at a `#`, a line without a `=` (the rest of a password with a line break) makes
  `Load` give up, and the defaults are then saved over the file; a key that is missing
  makes an int 0 and leaves a string as it was.  eXosip and the SIP server are external: a
  REGISTER without credentials is challenged, one with the right password is accepted, one
  may be lost, and eXosip may fail to build one (`BuildFails`) or to take credentials
  without a user name (`Failed`).  `local_ip` is guessed or not; `setGB28181Param` reads it
  before it stores the URIs.  In `CodecParam` settings are ones the encoder accepts: the
  result of `InitializeExt` is ignored (`TdH264.cpp:68`).
- **The clone idles.**  A child whose `setUp` fails goes on in the SIP loop
  (`TdChanManager.cpp:80`).  eXosip's own thread is not copied by `fork`, so nothing new
  reaches it.  What was already in eXosip's queue at the `fork` it would handle a second
  time; `ChanManager` leaves that out: its starts find the queue empty.
- **Bytes have a name.**  In `PsStream` a byte is known by the header or the data it is
  part of and its place there, so that the parser can find start codes where the code
  would, and the property can say which byte of the frame came out.  Numbers that the C
  code compares as unsigned are compared that way (`GoesOn`).  The length and the stuffing
  of a header of which a loss has left only the start code are taken from bytes that mean
  something else: any of `StrayLengths`.  The sender stands for a camera too: whoever
  packs the stream, its packets may end anywhere in a header.
- **The notice centre's maps** lose nothing: `addListener`, and the copy that
  `emitEvent` makes, are under its lock; the calls are not.
- **jrtplib is external.**  Its lists of packets are sorted by sequence number, one for
  each source; `Poll` fills them.  It is built without threads of its own, so
  `BeginDataAccess` locks nothing.  A duplicate of a packet already taken, the
  probation of new sources and the time-out of old ones are left out, and all packets
  have payload type 96.

## Runs

| run | module and bounds | shows |
|---|---|---|
| `threads` | `ChanManager`: 2 names and the empty one, 2 starts; with 2 closes, a list and one each of failed `fork`, failed `setUp`, child's end and crash of the parent; with a setter besides, the same in two smaller mixtures; names are symmetric | the threads of the parent against each other, the children and every failure: what is registered lives, what is deleted was collected, what leaks, who is killed, who reads which FIFO, and why null entries exist |
| `liveness` | 2 names, 2 starts, with `Fairness`; one of: 1 close, 1 change, 1 failed `setUp`; 2 closes, 1 failed `fork`, 1 child's end; 1 close, 1 list, 1 failed `fork` | a close of a registered channel ends with its child collected and its Channel deleted or abandoned, unless the parent dies or `waitpid(-1)` waits for a child forked after the kill; a thread that waits to open the FIFO is let go |
| `started` (violation) | 2 names, 2 starts, 1 close, 1 change, 1 failed `fork`, 1 failed `setUp` | `StartedMeansServing` fails, see Findings |
| `pipe` | `FifoMsg`: 2 threads, 5 messages, a pipe of 3, with fairness | torn, dropped and outdated messages; a full pipe lets its writers go |
| `setting` | `CodecParam`: 4 settings, every other with a rate that is taken over | when encoder and pictures may disagree, when a setting may be lost, and that none comes back |
| `lost_refresh` (violation) | 2 settings | `SetIsInForce` fails: a dimension stays that of the setting before |
| `path` | `ParamPath`: 1 thread, 3 messages, with fairness | `PromiseKept`: the path implements `EncoderSetting`; `AskedIsInForce`, end to end |
| `loss` | `RtpStream`: 2 peers, 2 frames of 3 packets each, 1 fault, a queue of 1; peers are symmetric | `Survives`, `BrokenHasCause`, `LeakOnlyWhenFull`, also when two peers share `rtpOut` |
| `held` (violation) | 1 sender, 1 frame of 2 packets, no losses, with `Fairness` | `ArrivedIsTaken` fails |
| `frame` | `PsStream`: segments of 100 bytes, packets of 46, frames of 1 to 330 with a limit of 250, clock parts of 1 bit (`pts` counts modulo 16, in steps of 6), 4 frames, up to 2 packets of each lost, stray lengths of 0, 13, 60 and 500, with fairness | `RoundTrip`, `Capped`, `MisreadHasCause`, `ClockOfFrame`, `ParsingEnds` |
| `account` | `Registration`: 1 HTTP thread, 2 settings, one with a `#`, one with a line break and no user name, 1 crash, 1 event queued, 1 REGISTER nobody answers, with fairness | `RestartIsWhole`, `RegistrationIsConf`, `HeartbeatHasCause`, `LatestRegistered` |
| `notice` | `NoticeCenter`: 2 HTTP threads and the main thread, 2 commands | `CallsPerManager` |

### Why these bounds are enough

- Two starts and two closes are the smallest numbers with a restart of a name, a
  duplicate close, a close that overtakes another, and two children at once; each
  failure occurs once since each is handled (or not) at one line.  A setter multiplies
  the states by about fourteen, so `threads` begins with one of three quotas: all
  failures without a setter, a setter against the failures of a start, and a setter
  against the deaths of children and parent.
- A real pipe holds 64 KiB, about 63 messages.  With three it fills, and reads of
  2048 bytes over messages of 1028 stop at every offset that differs in its effect:
  on a boundary, inside a message, and at the end of what there is.  The theorems
  about `FifoMsg` hold for any pipe that takes one message.
- Two threads of the parent are enough for the race on the shown parameters, which
  is between two writers.  `path` has one: writers of one pipe differ only in what
  they store as shown, which `path` does not look at, and the theorem is for any number.
  Settings with and without a rate below 15 alternate.
- A frame of three packets has a first, a middle and a last one; a fault reaches
  across a marker into the frame after it; two peers have a frame of each before and
  after.  The queue takes 1 frame instead of 128, so that it fills.
- The frames of `frame` lie on both sides of one, two and three segments, of the limit,
  and of what two segments and a short third keep under it.  Packets of 46 bytes end
  within the program stream map of a frame that has one, and in the length field of the
  second PES header of a frame that has none, so that a loss leaves a header cut short
  with few bytes or many behind it.  The stray lengths are one too short for a PES, that
  of a PES without data, one within the input and one beyond it.  The clocks of the four
  frames are 0, 6, 12 and, after the wrap, 2.
- `account` has two requests because the second finds what the first left; they come on
  one HTTP thread, since requests that overlap are excluded from its properties by
  `clash`, but meet the main thread at any step of the start.  One crash of a restart
  that is like the first start.  One event in eXosip's queue can cross a reset.  Building a
  REGISTER may fail each time.
- Three threads in `getInstance` make up to three managers; a second command meets
  listeners that the first did not.

### Fairness

Each thread runs when it can (weak fairness on its steps); requests, failures and
crashes need never come.  The kernel schedules the threads and no step of theirs
holds a lock over a wait.  `ParamPath` assumes that frames keep coming, since `convert`
is only called with one.  `RtpStream` has no more than weak fairness of its threads, and
`held` shows that this is too little: `WaitForIncomingData` has to report something new.
`CloseServed` does not fear that later closes overtake an earlier one for ever, since closes
are bounded.  `Registration` assumes that a server answers each REGISTER in the end, but for
a bounded number that is lost, and that eXosip's automatic action resends one that has failed or expires: it is called in
every turn of `process_request` (`TdDevice.cpp:102`), with a library that does so.

Deadlock is not checked where the requests are bounded: when all have been served,
the modelled system rests.  `CodecParam`, `RtpStream` in `held` and `NoticeCenter` never
rest, and are checked.

## Findings

- `StartedMeansServing` (`TdChanManager.cpp:80`): a child whose RTP ports are taken
  returns from `createChannel` into the SIP loop, while the parent has answered that
  the channel was started and shows it.
- `SetIsInForce` (`TdH264.cpp:196`): a refresh raised while `convert` is at work may be
  cleared by it; a dimension that `convert` had read before `setParam` stored it then stays
  in the encoder until another setting comes.
- `ArrivedIsTaken` (`TdRtp.cpp:127`): `Poll` has emptied the socket when
  `WaitForIncomingData` asks it; the last packets of a stream that pauses stay in the
  session's lists.

What the passing runs document without contradicting any text of the repository:

- `RoundTrip` is stated as the code has it: from the third segment on, a frame
  repeats its second one, since the data pointer is set and not advanced
  (`TdPs.cpp:375`).  A frame of more than 129 948 bytes comes out damaged.
- `MisreadHasCause`, `ParsingEnds`: the test for a PES that is longer than what is left
  never fails (`TdPs.cpp:132`), so that after a lost packet bytes from behind the input
  are copied, and a length below zero goes to `memcpy` (`TdPs.cpp:80,136`).  The loop
  ends otherwise, except at a header it cannot leave (`Stuck`): with 4 to 8 bytes left
  behind the beginning of a PES, or 4 or 5 of another header, `Pes` and its like return
  before they set `NextPack` (`TdPs.cpp:31,53,72`), and the receive thread turns in
  `parsingPs` for ever; a system header or stream map that is longer than what is left
  is met again with less each time (`TdPs.cpp:36,57`), until `leftlength` overflows.
  It takes a packet that ends in such a header, the loss of the next ones, and a last
  packet of a few bytes; the headers that `packagingPs` writes do not lie so in packets
  of 1280 bytes, those of a camera may.
- `ClockOfFrame`: `pts` wraps after 2^32 ticks, some 13 hours, where the field has 33 bits.
- `HeartbeatHasCause`: each of its three excuses is needed and is a defect of the code; TLC
  finds a heartbeat to a server that has accepted nothing as soon as one of them is dropped.
- `RestartIsWhole`: the file is empty between its opening and its writing; a `#` in a
  password ends it, a line break in one loses the whole account to the defaults, and
  `mServerSipDomain` is lost by every restart.
- `RegistrationIsConf`, `LatestRegistered`: when eXosip cannot build the REGISTER the error
  is logged and the device stays unregistered until the next setting (`TdDevice.cpp:86-89`).
- `CloseServed`: both exceptions it names are needed.
- `CallsPerManager`: two first calls of `getInstance` may make two managers.  A command then
  makes two calls: one of each, or, as `monitor()` runs on whatever the pointer is by then,
  two of one manager and none of the other.  A command before the listener is there is
  dropped and answered with success.
- `AskedIsInForce`, `LostOnlyInOverlap`: a setting is lost for the encoder only by an overlap
  of its own refresh with `convert`, never by that of an earlier one.
- The replies of `setGB28181config`, `closeChannel` and `creatChannel2` to a success have an
  empty body, since the string is declared anew inside the branch
  (`TdHttpServer.cpp:47,66,84`).  No model says anything of reply bodies.

## Proofs

All theorems assume only what the modules state with `ASSUME`: the special values
differ from each other and from data, sizes and bounds are natural numbers, those of
segments, packets and frames not zero, bytes that are no length field give some length,
a pipe takes one message, a frame has a packet, the built-in password has no `#` and no
line break, the HTTP server's pool of threads is finite.  The number of threads, names, sources, settings,
requests and faults is arbitrary.

- **`ChanManager_proofs`**: types, and then `RegisteredIsLive`, `NoLostChild`,
  `FreedIsReaped` and `InsertNeverOverwrites`.  The strengthening says who holds a
  Channel: nobody yet (`FreshIds`), `createChannel` (`Created`), `chanMap`, or the
  worker (`TornDown`), and never two of them; and that the name being created has no
  Channel in the map from the check to the insert (`CreationPlace`): only the SIP
  thread starts channels, which is why releasing the lock in between is harmless.
  The second half is about what a failure can and cannot cause.  `NullEntryHasCause`
  follows once every name that is worked on is known to have been asked for
  (`AskedInv`).  `NoBystanderKilled` and `LeakOnlyAfterForkFailure` need that the worker
  handles the Channel of the name it popped, and that a child which was collected has a
  Channel about to be deleted unless a fork has failed (`CauseInv`).  `OneReader` needs
  that two names never share a node, and that a node a child reads is found at no other
  name than its own (`ReaderInv`); the rest is that a name has one living child.
- **`FifoMsg_proofs`**: `NeverTorn`, `AloneIsTaken`, `NewestTaken`.  A read returns
  exactly one message's worth only when the pipe holds exactly that, and the last 1028
  bytes written are the newest message.  The invariant adds that unless the pipe is
  empty or holds one whole message, all of it is in `crowded` (`Mixed`).
- **`CodecParam_proofs`**: `AlwaysReady`, `MismatchPasses`, `LostOnlyByOverlap`,
  `NeverBack`.  A setting goes one way, from `setParam` to the fields, the picture and
  the encoder, so numbers never decrease along it (`OneWay`); and unless the
  refresh of the current setting overlapped with `convert`, what it has read is what the
  fields hold (`Fresh`).
- **`ParamPath_proofs`**: `Refines`, that is `Spec => PromiseKept`, from the invariants
  of the two components and one lemma for each action.
- **`RtpStream_proofs`**: `SurvivesLoss` and `BrokenCause`.  Neither property is
  inductive.  The strengthening follows the newest packet of a source: packets are in
  one place only (`Once`); what is joined ends with the newest packet and is in one
  frame, or else its first frame misses a packet for good (`Joining`); a frame whose
  first packet was taken right after a marker is what is being joined
  (`OpenIsJoined`); every damaged frame misses a packet (`BrokenMisses`).
  `LeakOnlyWhenFull` adds that the first packet of a unit is taken once (`OnceInv`), so
  that no unit is allocated twice.
- **`PsStream_proofs`**: `RoundTrip`, `Capped`, `MisreadHasCause` and `ClockOfFrame` for
  segments, packets, limits and frames of any size.  None of them is inductive.  What
  `packagingPs` has written is described first: headers in 14 or 56 bytes, then segment
  `j` at `Start(d, j)`, with the bytes from `From(j)` on (`PackInv`).  While packets are
  sent and none is lost, the receiver has a prefix of it.  While the parser reads it, it
  is at a header or at the start of a segment, `left` is what lies behind, and of the
  bytes passed all have been taken or no other segment would fit (`Taken`,
  `ArriveInv`).  Each turn of the parser then finds a whole header, so that its length
  is the one written (`Intact`), and one step of it moves over one segment
  (`TakenSegment`).  The clock needs that quotient and remainder are the only ones
  (`DivisionUnique`), since three of them are taken of one number.
- **`Registration_proofs`**: `RestartIsWhole`, `RegistrationIsConf`, `HeartbeatHasCause`.
  `PlaceInv` and `RegInv` follow one call of `modifyRegister`: from its `Remove` to its
  `Build` the device has no registration, or an error of eXosip for one; when nobody is in
  `modifyRegister` it has one of the address and the local address in force (`NewBuilt`),
  or an error, but has tried (`Tried`).  `FromInv` adds that whoever builds a registration
  after the guess has read the guessed address.  `RegistrationIsConf` then needs that
  whoever has still to bring the address up to date, a request that comes or the start of
  the device, will do so after the last field was stored (`ConfInv`).  The file is followed
  through a request: which fields are set, that it was saved, that it holds one setting, or
  the defaults where it did not parse (`FileInv`, and `Overwriting` for a crash while they
  are written); `AtLoad` says what `Load` makes of it.  A success on record belongs to the
  address in force, except from the moment the address changes to the reset of
  `is_register` (`BeatInv`).
- **`NoticeCenter_proofs`**: `CallsPerManager` by counting.  The listeners of an event and
  the threads that have still to add theirs are together as many as the managers made;
  the published manager listens or is about to; and a call in progress has called, or
  will call, every listener that was there when it began.

Only model-checked: everything about liveness (`CloseServed`, `SetterReleased`,
`WriterReleased`, `AskedIsInForce`, `ArrivedIsTaken`, `ParsingEnds`,
`LatestRegistered`), which is beyond this prover, as is what needs `ENABLED` or an
induction over data.  The segments of a frame are no exception: they are counted by the
steps that write and read them, and the invariant takes the place of the induction.

## Not modelled

- Pixels and bytes: openh264, x264, libyuv, the parsers of XML and JSON, the vendored
  SIP stack, HTTP server and RTP library.  Only what they return matters here.  They
  are nearly all of the lines under `src/`; the program's own code is some 5000 lines.
- `mediaPreset`, `TdRtp::stop`, `Queue::clear`, `setAccess`, `delListener`, `clearAll`,
  `send_network_packet`: nothing calls them.  The first leaves its mutex locked on its
  error paths.
- The answers of the device to catalog, device info and device status queries: they
  keep no state.  The counter of `get_sn` may give two messages one number, which no
  code of the program looks at.
- The page and the `login` handler: no state.
- The classes of `tdServer` besides `TdHttpServer`: not used.
- The bit rate: the encoder is given 400000 whatever was asked for.
- A lock of the logger or the allocator that another thread holds at `fork()` stays
  locked in the child; this would need the locks inside every library call.

## Plan

1. An abstract specification of `Registration`: a device is registered with the account
   it was last given, and restarts with it; shown to be implemented, and proved.
2. `NoticeCenter` composed with `ChanManager`: two managers share the FIFO nodes and the
   names of the channels, but not `chanMap`.
