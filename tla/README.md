# Verification of dlms_hls_lite

`dlms_hls_lite` is a one-shot command for a Wasion electricity meter. It opens
a serial port, connects with DLMS/COSEM over HDLC (with or without high level
security), reads one item (serial number, energy, relay status) or switches
the relay, disconnects and exits. This directory holds TLA+ modules of its
protocol logic, TLC configurations and TLAPS proofs. Paths below are relative
to the repository; `lib/` stands for `src/development/src/` and `cli/` for
`src/dlms_client/src/`.

## 1. Inventory

| component | code | state | operations |
|---|---|---|---|
| Driver | `cli/evs2_comms_dlms_wasion.c` | local `ret`, the objects of the item, `poll_result` | `connectMeter` (arguments to settings), `readSerialPort` (open, connect, loop over the objects, close), `relay_on`, `relay_off` |
| Communication | `cli/communication.c`, `connection.c` | `connection` (port, receive buffer, settings, trace) | `com_open`, `com_updateInvocationCounter`, `com_initializeConnection`, `com_readDataBlock`, `readDLMSPacket`, `com_readSerialPort`, `com_readValue_new`, `parse_rx`, `com_method`, `com_disconnect`, `com_close` |
| Client library | `lib/client.c`, `dlms.c`, `apdu.c`, `dlmsSettings.c` | `dlmsSettings`: connection bits, identity, invoke id, PDU and HDLC limits, frame sequence, block index, cipher | requests (`cl_snrmRequest`, `cl_aarqRequest`, `cl_getApplicationAssociationRequest`, `cl_readLN`, `cl_methodLN`, `cl_releaseRequest2`, `cl_disconnectRequest`) and their answers (`cl_parseUAResponse`, `cl_parseAAREResponse`, `cl_parseApplicationAssociationResponse`, `dlms_getData3`) |
| Frame sequence | `lib/dlmsSettings.c` | `senderFrame`, `receiverFrame` | `getNextSend`, `checkFrame`, `resetFrameSequence` |
| HDLC framing | `lib/dlms.c` | receive buffer position, `packetLength` | `dlms_getHdlcFrame`, `dlms_getHdlcData`, addresses, CRC |
| Ciphering | `lib/ciphering.c`, `gxaes.c` | keys, titles, invocation counter | `cip_encrypt`, `cip_decrypt`, GMAC tags |
| Byte buffer | `lib/bytebuffer.c` | memory, capacity, size, position | growth, append, insert, read, move, copy |
| Values | `lib/variant.c`, `helper.c`, `converters.c`, `bitarray.c`, `gxset.c`, `gxsetmalloc.c`, part of `dlms.c` | none of their own | object counts, decoding, storing in objects, conversion to text |
| Objects and messages | `lib/cosem.c`, `objectarray.c`, `message.c` | object and message lists | growth, construction |

The driver calls the communication layer, which builds a request with the
client library, hands it to `com_readDataBlock` and digests the reply into the
same `dlmsSettings`. There is one thread. The meter is the other actor; the
line between them loses, delays, repeats and damages frames, and the meter may
restart.

What is hard, and what makes each part correct:

* **Two associations per run.** With high security the invocation counter is
  first read as the public client. The settings lend their identity to it and
  must have their own back before anything else happens, and what the first
  association negotiated (PDU size, HDLC limits, counters) must not leak into
  the second (`ConfiguredIdentity`, `LinkAddress`, `DefaultPduProposed`,
  `InfoRestored`, `CountersFresh`, `Agreed`).
* **An answer that rewrites the settings.** Parsing an AARE sets the mechanism,
  the title, the limits and the meter's challenge before it is known whether
  the association was accepted, and what the program does next is decided with
  what was set (`ConfiguredIdentity`, `Agreed`, `ReasonTold`, `RightKeysOpen`).
* **One resend, no matching of answers.** A silence leads to one resend; a late
  or second answer stays on the line and is read as the answer to the next
  request. Only the invoke id of GET and ACTION answers tells them apart
  (`ReadingsGenuine`, `AssociationAgreed`, `ProtectedRelayCommandDone`,
  `StaleRefused`).
* **Frames out of a stream of bytes.** The port delivers an answer in any
  pieces, behind noise, cut off or changed, and both attempts are searched
  together (`Genuine`, `NoAnswerMissed`, `ErrorsNeedDamage`, `DamageNoticed`,
  `FitsBuffer`).
* **Errors that are not errors.** A failed SNRM is ignored, unknown answers
  count as success, a later object hides the failure of an earlier one
  (`SerialNumberReported`, `EnergyReported`, `RelayCommandDone`,
  `RelayStatusTrue`).
* **Closing.** `com_close` runs from every stage and sends what the connection
  bits say (`LinkClosedAtExit`, `ReleaseNeedsLink`).
* **Ending.** Loops that wait for the line (`EndsOrSpins`,
  `EndsUnlessHungUp`, `Terminates`).
* **Three-bit frame numbers in one byte, twice** (`NumbersAgree`,
  `CountsOnly`), and buffers that grow by one step per call (`Ordered`,
  `InBounds`, `FirstInFirstOut`).

`PROJECT.json` lists every hazard at its line with the properties aimed at it.

## 2. Modules

| module | models |
|---|---|
| `Client` | `dlmsSettings` and the functions that build requests from it and digest answers into it, each an operator from settings to settings |
| `Meter` | the peer, which is not part of the repository: link, association, counter check, relay |
| `Session` | one run: driver and communication layer over `Client` and `Meter` |
| `FrameNumbers` | abstract: three counters modulo 8 |
| `HdlcSeq` | frame sequence of `dlmsSettings.c` over a lossy line; implements `FrameNumbers` |
| `ByteQueue` | abstract: each buffer a queue of unread bytes |
| `ByteBuffer` | memory, capacity, size and position of `gxByteBuffer` under the library's calls; implements `ByteQueue` |
| `Address`, `Hdlc` | pure operators: addresses; building (`dlms_getHdlcFrame`), finding and checking (`dlms_getHdlcData`) frames byte by byte, CRC included |
| `Framing` | a message cut into frames and read back, one byte damaged on the way |
| `Receiver` | `readDLMSPacket` and `com_readSerialPort` over `Hdlc`: bytes arriving in pieces, waiting time, one resend, a port that hangs up |
| `Cipher` | pure operators: `cip_encrypt`, `cip_decrypt` and what `gxgcm_getHash` is fed with, over an ideal block cipher |
| `Association` | AARQ, AARE field by field, both challenges, for the two associations of a run, over `Cipher` |
| `Values` | pure operators: from the bytes of an answer to the text the command prints |
| `MCSession`, `MCByteBuffer`, `MCFraming`, `MCReceiver`, `MCAssociation`, `MCValues` | values of constants and bounded checks of operators for TLC |
| `SessionProofs` and `OutcomeProofs` on it, `HdlcSeqProofs`, `ByteBufferProofs`, `AssociationProofs`, `EncodingProofs` (of `Address`, `Hdlc` and `Values`), `FramingProofs` and `ReceiverProofs` on it | theorems |

`Session` sees whole frames; `Receiver` justifies that: from the bytes of the
line it hands over the information of a frame the meter sent, or an error. It
sees the content of an AARE as `aare`, `authRequired` or `rejected`;
`Association` reads the content.

### Session

`stage` is the call `readSerialPort` is in, `phase` where that call is: about
to build its request, waiting in `readDLMSPacket`, back from
`com_readDataBlock`, in its empty loop, or in the loop of `com_readSerialPort`
on a port that returns no bytes. Each call is two actions, the
request (`IcSnrm`, `Aarq`, `Read`, ...) and what is done with the reply
(`IcSnrmBack`, `AarqBack`, `ReadBack`, ...), with the exchange loop (`Resend`,
`ResendLate`, `GiveUp`, `Receive`, `Corrupt`, `ReadFails`, `HangUp`) between
them. The
early returns of the C functions are the moves to `release` (`Quit`), because
`readSerialPort` calls `com_close` after every failure but that of the port.

`settings` is `connection->settings`; `saved` the locals of
`com_updateInvocationCounter`; `reply` the `gxReplyData` and return code;
`ret`, `parse_stage` and `todo` those of the driver. `used` (counters ciphered
with), `out` (values printed) and `budget` are history or bound. A request or
an answer is a record of the fields the logic looks at: the command, the
invoke id, the address, the result, whether more data follows, and what kind of
content is left to parse.

Answers stay on `line` until read. One read of the port takes every byte that
has arrived and `readDLMSPacket` looks at the first frame only, hence
`line' \in Suffixes(Tail(line))`. A port that hangs up (`HangUp`) returns reads
of no bytes from then on; they are not counted as waiting, and the program
polls for ever (`Poll`, `cli/communication.c:202`).

An AARE carries in `naming` the mechanism it names and the protection of its
initiate response, each `"asked"` when it repeats the request or leaves the
field out. `apdu_updateAuthentication` writes the mechanism into the settings of
an accepted and of a rejected association alike, `apdu_parseUserInformation` the
protection into settings that had none (those that have one refuse another),
and `AarqBack` decides with the result whether a challenge is sent, as
`com_initializeConnection` does. The constant `Namings` holds what AAREs may
name beside what was asked for. A meter that names another mechanism works with
it itself (`Opened`). A rejected AARE is assumed to name the context that was
asked for; other context names are `Association`'s.

### HdlcSeq

The two control bytes as numbers 0..255, the arithmetic as in the C code.
`checkFrame` sets `verdict`, which nothing reads, because `dlms_getHdlcData`
has an empty body under `!checkFrame(...)`. A supervisory frame leaves
`moreData` set, so the program loops (`Spin`).

An echo of SNRM, read late, resets the frame numbers of a link in use although
`checkFrame` recognises it (`lib/dlmsSettings.c:225`); `NumbersAgree` holds
until then, and its hypothesis says so. With a window size of 0 (a meter may
lower `windowSizeRX` to it) `checkFrame` would take the client's own first
frame for an answer; the run uses the default window 1, and the theorems cover
both.

### Hdlc, Framing, Receiver

Frames are sequences of bytes and the CRC is computed. `dlms_getHdlcData` is an
operator from what it keeps between calls (`position`, `packetLength`, ...) and
the bytes collected so far to the next such state: the search for a flag, the
length that may point behind the end, both addresses, the control byte and the
two check sums, in the order of the code. Of the errors of the addresses one
alone is heeded: to a server that reads a frame, a client address of more than
one byte is `INVALID_CLIENT_ADDRESS`, and nothing is taken (`lib/dlms.c:1042`,
`lib/dlms.c:1719`). `Framing` reads back in that role, so `Reassembled` says both:
the frames of a client with an address below 128 bring the message whole, those
of another bring nothing. `Look` is one pass of it up to where
it calls itself again. The table of the CRC is computed here from its polynomial
with the bitwise operations spelled out, so that no module a proof is about
needs `Bitwise`. `Receiver` is the loop around it: a
read takes any prefix of what is on the line, `cl_getData2` runs only after a
closing flag was seen, and time is counted only when the port has nothing.

### Cipher and Association

A tag is the record of what it was computed from, so two tags are equal exactly
when key, title, counter, control byte, text and the blocks fed to GHASH are.
The blocks themselves are modelled as the code feeds them, because the code
does it in a way of its own (one byte of the authentication key is left over
for the block in which the text begins); `GHashRight` (an `ASSUME` of
`MCAssociation`) compares them with GCM's for 1 to 49 bytes and both key sizes.

An AARE is a sequence of fields, read one per action as the loop of
`apdu_parsePDU` does, so that a refusal, an error or the end of the data may
come after any of them, with the settings already changed. The meter accepts,
refuses with any reason (its refusal may carry a title of the wrong length, a
mechanism, user information that is not an initiate response) or holds other
keys. Answers left on the line become answers to something else when the next
attempt begins. The attempts exclude high level security without ciphering,
which the program never configures; a refusing meter names only mechanisms the
library knows.

### Values

`dlms_getData` takes three types out of an answer and leaves the rest
valueless; `var_copy`, `convert` and `parse_rx` follow. A text is a sequence of
words of digits. `relay` and `energy` are what is printed after the label.

## 3. Runs

| run | expects | question |
|---|---|---|
| `Hostile` | pass | types; identity, PDU size, fresh counters, genuine values and the serial number, whatever line and meter do (segmented answers, exceptions, refusals, AAREs that name another mechanism or protection, failing port, restarts); liveness: a run can hang in the loop on `moreData` and in the reading of a port that returns no bytes, and nowhere else (1.1 million states) |
| `Disturbed` | pass | line disturbances with a rule-abiding meter: agreement on link and association, frame addresses, HDLC limits, ciphered relay commands (330 thousand states) |
| `Quiet` | pass | no disturbance: success means the energy was printed, the relay moved or its state (without ciphering) printed; the link is closed at exit; the counter is ahead of the meter's. It also evaluates `MCValues` |
| `HdlcSeq` | pass | frame numbers: two links of nine frames (they wrap after eight), three disturbances; refinement of `FrameNumbers` |
| `ByteBuffer` | pass | every order of calls on one buffer beside one that receives copies, memory running out anywhere; refinement of `ByteQueue` |
| `Framing` | pass | messages cut into frames and put together, or refused for the client's address; one changed byte is always noticed |
| `Receiver` | pass | two exchanges, byte by byte, in any pieces, with one disturbance and a port that may hang up; liveness: each exchange ends unless it hangs up (a few minutes) |
| `Association` | pass | both associations, field by field, lost and repeated answers, refusals, other keys |
| `RelayStatus` | violation | a ciphered GET response is not parsed; the status of a zeroed object is printed |
| `RelayException` | violation | an exception response to a relay command counts as success |
| `SegmentedResponse` | violation | a response in several frames or blocks: the program never ends |
| `OwnContextName` | violation | a meter that refuses and names a context the library does not know is taken to have accepted |

Bounds.

* Session runs: `IcMod = 32` stands for 2^32: at most a dozen messages are
  ciphered in a run that starts at 1 or 4, so the counter does not wrap (in the
  theorems it may). All objects and items, two server addresses (0 and 1), both
  security levels, two initial counters (one in `Hostile`) and both relay
  positions are used where they matter. `Namings` is empty but in `Hostile`,
  whose AAREs may also name the low level, or high level security nobody asked
  for in an initiate response that is authenticated only: a mechanism without a
  challenge where one is expected, a challenge where none is, and a protection
  that is taken over or refused. `Disturbances` bounds lost requests and
  answers, write and read errors, late answers, CRC errors, hang-ups of the port
  and restarts together: two are enough to
  lose both tries of one exchange, to hit both associations, or to combine a
  late answer with a loss.
* `ByteBuffer`: growth step 2 for 50 and `UInt32Mod` 64 for 2^32; strings
  shorter than a step, words as long as one, long words longer; the buffer
  written to (`Written`) holds up to four bytes (`MaxSize`), two steps.
* `Framing`: server addresses at both sides of the borders of one, two and four
  bytes, client addresses of one byte and one of two, which is refused;
  frames of 8 and 12 bytes of information, messages that fill a frame exactly,
  miss it by one or take three. `MessagesArriveWhole` evaluates the hypotheses
  of the theorem `AlwaysReassembled` for them.
* `Receiver`: a UA and a numbered answer of about 15 bytes. One fault per run:
  six bytes of noise with a flag among them, a cut after each field, or a
  changed byte outside the length and the closing flag. `Capacity`
  52 is to an answer of 15 bytes what the 500 of `con_init` are to the longest
  frame, 144 bytes; `RECEIVE_BUFFER_SIZE` 24 likewise exceeds an answer, as 200
  does. `WaitTime = 0`: the time that passes before a resend
  is one unit instead of fifty, which changes no order of events.
  `AnswersPlain` evaluates the hypotheses `PlainAnswers` and `RoomEnough` of the
  theorems for these answers.
* `Association`: the public and the reading attempt; challenges of 8, 15 and 16
  bytes (one block and both sides of its end); keys that differ in either half.
* `MCValues`: numbers at the borders of their widths. TLC's integers end at
  2^31 - 1; the theorems go to 2^32.

`CHECK_DEADLOCK FALSE` is set where a run of the model stops: after the last
link (`HdlcSeq`), message (`Framing`), exchange (`Receiver`) or attempt
(`Association`, `OwnContextName`). Elsewhere a run that is over goes on in
place.

Fairness. `FairSpec` of `Session` is weak fairness of the client's step alone:
one thread that only waits with a timeout takes a step that stays possible.
`Receiver` has weak fairness of `NoData \/ Resend \/ GiveUp \/ Read`, the steps
of the reading loop, and none of `Begin` and `HangUp`. Nothing is assumed of
the meter or the line. `Poll` and `Spin` are steps of the program that change
nothing, so a run that hangs is fair; `EndsOrSpins` and `EndsUnlessHungUp` name
the places.

At the high level the answer to a GET is ciphered and the library does not look
into it (the finding of `RelayStatus`), so no serial number or energy is ever printed
there and `SerialNumberReported` and `EnergyReported` say that no such run
reports success.

### Findings

The four violations above are findings in `PROJECT.json`. Other behaviour of
the code that was met and is stated here only, because no line of the
repository says otherwise or the passing properties already exclude the case:

* An accepted empty UA (a meter that keeps the default HDLC parameters) is not
  noted as a connection, so no DISC is sent (`lib/client.c:133`);
  `LinkClosedAtExit` is checked with parameters in the UA.
* If `tcsetattr` fails after the counter was read, a release request goes out
  on the link just closed (`cli/communication.c:992`); `ReleaseNeedsLink` is
  checked without such failures.
* A denied serial number leaves `parse_rx` one stage behind: the energy is read
  and not printed, and the run reports success.
* An echo of a request is accepted as a frame and skipped in part
  (`lib/dlms.c:1600`), a frame for another address is taken like the expected
  one (`lib/dlms.c:1715`), and a port that keeps returning zero bytes is polled
  for ever (`cli/communication.c:202`): `EndsUnlessHungUp` and `EndsOrSpins` name
  the exception. No run has echoes or frames of other stations on its line.
* A mechanism that an AARE names replaces the configured one (`lib/apdu.c:477`),
  so a meter that names a weaker one is not sent the challenge although high
  level security was configured; the objects are then read with the configured
  ciphering. `ConfiguredIdentity` says how far this goes.
* A burst of noise of eight bytes or more in front of a flag, then a pause: the
  flag is lost to the search and the answer behind it is never found
  (`lib/dlms.c:1670`). A length that was changed makes the search wait for
  bytes that never come. `MCReceiver` keeps to less noise and intact lengths.
* `dlms_checkLLCBytes` is called for the information of every frame
  (`lib/dlms.c:1885`). A frame after the first whose information begins like the
  LLC bytes loses three bytes; so does a last one that carries the first one or
  two of them, if its check sum goes on like them. `LLCInFirstFrame` excludes
  such messages. The program sends none that long and takes no answers of
  several frames.
* A challenge of more than sixteen bytes is fed to GHASH with bytes missing
  when it is only authenticated (`lib/ciphering.c:222`), so a meter that sends
  one is not connected to; the library itself speaks of challenges of "8 to 64
  bytes" (`lib/dlms.c:883`). The client's own challenge has sixteen.
* A value whose last bytes are missing is marked incomplete and returned
  without error: an empty serial number, an energy of 0. A serial number that
  is a visible string prints nothing; a `DELTA_UINT32` prints 0, since nothing
  decodes it; a relay state in a type the library does not read prints "off".
  Serial numbers are cut at 63 bytes or at a zero byte, object counts at 16
  bits (`lib/helper.c:342`).
* `1 + var_toInteger(...)` overflows an `int` when the meter's counter is
  0x7FFFFFFF (`cli/communication.c:549`); a counter of an unexpected type ends
  the program through an assertion (`lib/variant.c:425`).

## 4. Proofs

`tlapm` checks every theorem to its leaves.

* `SessionProofs!TypeCorrect`, `IdentityConfigured`: for all values of the
  constants that satisfy the named assumptions (any set of command lines, any
  counters, any number of disturbances, any `Namings`), `TypeOK` and
  `ConfiguredIdentity` are invariants of `Session`. `ConfiguredIdentity` says
  that the link is opened and the AARQ sent with the identity of the command
  line, and what its AARE may have made of it afterwards: the mechanism becomes
  one that AARE names, the protection changes only if none was configured, the
  address never. It is not inductive: while the counter is read the settings
  hold the public client's identity, which the first AARE may overwrite, too,
  and what comes back is the copy in `saved`. The strengthening `IInv` says what
  the copy holds, that the identity is untouched before it is taken, which objects
  are left (so that `Head(todo)` is defined and of the right kind), and that a
  request on the line addresses what it can address. Its lemmas begin with what
  each operator of `Client` and `Meter` keeps, which answer a request gets and
  what state that answer leaves the meter in.
* `SessionProofs!PduSizeProposed`, `LinkAddressKept`, `CountersNeverReused`:
  the action properties `DefaultPduProposed`, `LinkAddress` and `CountersFresh`,
  for the same constants. Each is about the request that is built next, so each
  needs an invariant about the settings it is built from: `PduKept` (the size to
  go back to is the default one, and in force until an AARE is parsed and again
  after the disconnect), `AddressKept` (the settings hold the address of the
  last request except before an SNRM), `CountersSpent` (no counter used is
  further behind the next one than the requests since the AARQ account for:
  at most seven, and one more, `Early`, if an AARE may name a protection that the
  counter association did not ask for, because the read of the counter is then
  ciphered; that one is the counter 0, and what is read under it has no value:
  `ZeroTaken`, `NothingRead`). Lemma `Sends` says which request a step
  may send in which stage. Assumptions: the counter has at least seven values,
  eight with other namings (2^32 in the code);
  for `LinkAddressKept`, setting up the optical head does not fail
  (`HeadFailures = FALSE`, as in the run `Disturbed`): if it fails between the
  two associations, `com_close` sends the release from the reading client's
  address on a link that the public client opened.
* `OutcomeProofs`: what a run achieves, for the same constants and the
  hypotheses of this table, "names as asked" being `Namings = {}`. The action or
  invariant of the middle column is the one of the runs `Hostile`, `Disturbed` and `Quiet`.

  | theorem | property | assumed besides |
  |---|---|---|
  | `SerialNumberAlwaysReported` | `SerialNumberReported` | - |
  | `ReadingsAlwaysGenuine` | `ReadingsGenuine` | the meter names as asked |
  | `AssociationAlwaysAgreed` | `AssociationAgreed` | names as asked, no restart |
  | `InfoAlwaysRestored` | `InfoRestored` | no malformed UA |
  | `ProtectedRelayCommandAlwaysDone` | `ProtectedRelayCommandDone` | names as asked, no restart, no exception response |
  | `RelayCommandAlwaysDone` | `RelayCommandDone` | names as asked, no disturbance, no exception response |
  | `EnergyAlwaysReported` | `EnergyReported` | as for `RelayCommandAlwaysDone`, and reads are granted |
  | `PlainRelayStatusAlwaysTrue` | `PlainRelayStatusTrue` | names as asked, no disturbance, no exception response, no denied read |
  | `LinkAlwaysClosedAtExit` | `LinkClosedAtExit` | no disturbance, UA with parameters |
  | `ReleaseAlwaysHasLink` | `ReleaseNeedsLink` | as for `LinkAlwaysClosedAtExit`, and the optical head can be set up |
  | `CounterAlwaysAhead` | `CounterAhead` | names as asked, no disturbance, no exception response, nine counter values left |

  The steps of `Session` fall into three kinds, the line's (`Idle`), a request
  (`Call`, `CallFits`) and a turn from one call to the next (`Turn`,
  `Follows`); each invariant is shown for the three. All rest on `Basic`:
  `IInv`, a last request that fits its stage (`TxFits`), and a reply that the
  library has looked at (`Replied`). No property is inductive by itself, because a
  late answer decides later what is reported now:

  - `Genuine` says of every answer in the meter's memory, on the line or in the
    reply (`Known`) that a value under an invoke id is of the object that was
    asked for under it: the ids of an association count up (`Numbered`), and at
    the high level only the counter is read in the clear.
  - `AssocKept` says when an answer that establishes the association (`Proof`)
    can exist at all: only in the stage that asks for it and later, and then
    the meter has the association and takes no second request for it.
  - `RelayKept` says which answers a ciphered relay command can be confused
    with: copies of the meter's proof, which have the first invoke id, and which
    lie before the answer on the line (`Ordered`).
  - `InfoKept` says that the HDLC limits are lowered only while the settings
    have the link that the next DISC closes, and that DISC puts them back.
  - `Calm` is what a quiet line adds: one answer at most, the meter's reaction
    to the last request. `Served` says what the reply to an object's request
    then is, and `DoneKept`, `EnergyKept` and `StatusKept` what was reported.
  - `LinkKept` and `DlmsKept` tie the meter's link and association to the
    connection bits, which differ between the meter's answer and its parsing.
  - `AheadKept`, with `CountersSpent`: the meter's counter is that of before
    the run until it is read, and behind the next one to be used from then on.

  `Settled` and `Steady` collect what holds on a quiet line; both include that the
  meter names as asked.

  The hypotheses are needed. With a mechanism the program did not ask for, the
  ids of ciphered and plain requests no longer tell objects apart by the
  argument of `Genuine`: `ReadingsGenuine` is checked with such a meter in
  `Hostile` and proved without. `RelayException` violates `RelayCommandDone` with
  an exception response; a denied first object hides the energy (section 3);
  the release without a link needs an optical head that fails the second time.
  A restarted meter has no association left, whatever the client believes.
* `HdlcSeqProofs!HdlcTypeCorrect`, `NumbersAlwaysAgree`,
  `ImplementsFrameNumbers`: for any window, number of links, frames and
  disturbances. The invariant `HInv` adds that `tx` is the number given out
  last and that right after an SNRM which was heard both sides start from 0.
  The lemmas `SendCounts` and `ReceiverCounts` show the byte arithmetic to be
  counting modulo 8; `Checked` shows each branch of `checkFrame` to be a step
  of `FrameNumbers` or none.
* `HdlcSeqProofs!StaleAlwaysRefused`: the action property `StaleRefused` for
  any number of links, frames and disturbances, with the default receive window
  of 1 as in the run. With that window a frame is in order only if both its numbers are
  one on from the last frame's (`OneOn`). The invariant `Apart` says what that
  excludes: the client's own frame has equal numbers, the frame taken last has
  its second number one ahead of its first, so neither is one on from the latter.
* `ByteBufferProofs!BufferTypeCorrect`, `BuffersOrdered`, `BuffersInBounds`:
  for any buffers, strings, words and growth step. `InBounds` speaks of the
  last call only and follows from `Ordered` before it: position <= size <=
  capacity = memory. Each operator has a lemma that it keeps the buffer
  well-formed and touches no more than its memory.
* `ByteBufferProofs!BuffersAreQueues`: `ByteBuffer` implements `ByteQueue`, for
  the same parameters. `Appends` says that a call left the content and put bytes
  behind it; each call has a lemma of what it does to the unread bytes (adds,
  puts in front, overwrites one, keeps), `MoveBytes` being the one closing up
  and inserting rest on, and `WritesMap`, `OthersMap` and `CopyMap` give the
  step of `ByteQueue` for each action. That positions never pass the content
  (`BInv`) is needed throughout.
* `ByteBufferProofs!BuffersGrowWhenAsked`: `GrowsWhenAsked` for the same
  parameters. A call that has memory ends with OK because each growth makes room
  (`AllocateGrows`) and the check after it therefore passes; besides
  well-formed buffers (`BInv`) nothing is needed, one step decides.
* `EncodingProofs!AddressRoundTrip`: what `dlms_getAddressBytes` writes for any
  address below 0x10000000, `dlms_getHDLCAddress` reads back, and stops behind
  it, wherever it stands among other bytes (`ReadAs`); a server refuses several
  bytes of a client.
* `FramingProofs!FramingTypeCorrect`, `InfoAlwaysFits`: for any messages,
  addresses, limits and damage. `InfoFits` needs the invariant `FramesSent`: the
  line holds the frame that the builder made at the position before.
* `FramingProofs!AlwaysReassembled`: `Reassembled` for any messages and addresses,
  the refused ones included, under two named hypotheses of `Framing`, which TLC
  evaluates for the run.
  `FramesWide`: `maxInfoTX` is 6 to 2032, so that the first frame holds the three
  LLC bytes and the length of every frame its eleven bits. `LLCInFirstFrame`: no
  later frame begins like the LLC bytes or is only a part of them, because
  `dlms_getHdlcData` calls `dlms_checkLLCBytes` for every frame and not only for
  the first one (section 3). The argument:

  - `FrameLayout` says which byte stands where in what `dlms_getHdlcFrame`
    builds, as facts `Stands(bytes, offset, part)`, which compose. `FrameTaken`
    reads such a frame, if its reader `Admits` the addresses (no echo to a client,
    no client of several bytes to a server), and `TakenOrRefused` says what is
    left otherwise: the length, both addresses, the control byte are those
    written, and both check sums agree because they are computed from equal
    bytes; the values of the CRC table play no part.
  - `dlms_getHdlcData` calls itself, which is a recursive function here. Every
    further look is from a later position (`Looks`), so there is a function that
    satisfies its equation (`SolutionsExist`, by the least counterexample, from
    the well-foundedness of < on the naturals), and `DataRead` may unfold it. It
    also gives the type of the result whatever the bytes are.
  - The invariant `FramesTaken` says that what was put together is the message
    up to `position`, or nothing if the client's address is not one byte
    (`OneByteClient`), and that every frame ended at a border (`Boundary`), where
    `LLCInFirstFrame` speaks of the bytes that come next.

* `ReceiverProofs!ReceiverTypeCorrect`: `TypeOK` for any exchanges, noise, cuts
  and changed bytes. The position that `dlms_getHdlcData` keeps between calls
  stays within three bytes behind the data, whatever it found there.
* `ReceiverProofs!AnswersAlwaysGenuine`, `AnswersNeverMissed`,
  `WellOrInSilence`: `Genuine`, `NoAnswerMissed` and `ErrorsNeedDamage` for any
  number of exchanges, any answers, reads of any size, waiting time and number
  of lost answers, under two named hypotheses of `Receiver`. `PlainAnswers`: an
  answer holds no flag but its own two, its length fits into the eleven bits of
  the format, and it is a command the client knows or its information begins
  with the LLC bytes or unlike them. `WholeAnswers`: the line loses answers or
  delays them beyond their exchange and does nothing else. (With noise or
  damage they are false in general: section 3 and the end of this one.) The
  argument:

  - What is collected and what is on the line are, one behind the other, a
    stream of whole answers (`Stream`), of which the first may have lost its
    beginning: readDLMSPacket throws away what it collected when an exchange
    ends, in the middle of a late answer too.
  - While it collects, `position` is not past the place where the next answer
    begins, and nothing collected behind that place is a flag (`Collects`). So
    two flags that enclose an answer have not both arrived, which is
    `NoAnswerMissed` when the client gives up.
  - `SearchStream`: a search from there goes over the end of an answer whose
    beginning is lost, because the byte behind that closing flag is the next
    flag and no format, and then waits for the rest of the next answer or takes
    it whole (`FrameTaken`), in whatever pieces it arrives. `FirstLook`
    enumerates what one look can do before it comes to the addresses.
* `ReceiverProofs!BufferAlwaysFits`: `FitsBuffer` under these hypotheses and
  `RoomEnough`: `connection.data` holds two of the answers, but for their closing
  flags, and one read more. `com_readSerialPort` never looks at the room that is
  left. It needs no more because what is collected when another read begins is
  less than the end of one answer and the beginning of the next
  (`CollectedFits`, from `Collects`, and `PartOfOne` in `Stream`), however many
  answers are late. For frames of 144 bytes and reads of 200 it asks for 486
  bytes. The 500 of `con_init` satisfy it; after an AARE `con_initializeBuffers`
  makes the capacity 50 more than the PDU size granted, so there it is an
  assumption about the meter (436 or more) that the code does not check.

* `AssociationProofs!AssociationTypeCorrect`, `AlwaysAgreed`: for any attempts,
  keys, challenges, limits and reasons to refuse, under `KnownNames` (a
  refusing meter names a context the library knows; the run `OwnContextName`
  shows that this is needed). `Agreed` says nothing while an AARE is read, when
  everything is decided. `Inv` has one formula for each stage, and for reading:
  what is left of the AARE still ends in a refusal (a result that is not
  ACCEPTED was read or is to come), or it is a rest of what the meter sent when
  it accepted, the settings are untouched but for what was granted, and the
  meter is still where it was.
* `AssociationProofs!ReasonAlwaysTold`: `ReasonTold` under the same hypotheses.
  The invariant `Told` follows the meter's reason to the program: on a quiet
  line the refusal is the only answer (`RefusalWaits`); while it is read, result
  and reason have been read or are still to come, and user information stands
  behind them (`RefusalRead`), so `apdu_parsePDU` never reads it; and no other
  stage is reached once the meter has refused (`Barred`).
* `AssociationProofs!RightKeysAlwaysOpen`: `RightKeysOpen` under the same
  hypotheses and `RightSizes`: an authentication key of sixteen bytes (suite 0,
  the only one the program sets) and challenges of at most sixteen, because of a
  longer one the code does not feed to GHASH what GCM does (section 3). The
  invariant `Opening` says for each stage of an attempt whose meter has the
  keys and has not refused, on a quiet line, why it cannot fail there: the AARE
  on the line, or what is left of it, promises what the client needs
  (`Promised`: title and challenge have been read or are to come, the user
  information is an initiate response under the asked protection and stands
  last), and each proof is the one the other side computes (`RightProof`,
  `RightAnswer`). `Prepared` adds that suite 0 is never left and that the
  client's challenge is the one it sends. The tags agree by `EncipheredBlocks`
  and `AuthenticatedBlocks`: block by block, `gxgcm_getGHash` feeds what GCM
  says, for enciphered text of any length and for one to sixteen bytes that are
  only authenticated. That `"none"` and `"PROOF"` are no diagnostics is part of
  `AssociationAssumption`: they are what the model writes into `meter.refusal`
  when no AARQ was refused.
* `EncodingProofs`: `CountReadBack` and `LongCountCut` (object counts below and
  above 65536), `OctetStringRead`, `SerialNumberPrinted`, `EnergyPrinted`,
  `RelayPrinted`: what the meter encodes is what the command prints, and for
  which values it is not. They hold for every byte string and 32-bit number;
  `MCValues` evaluates instances.

Every safety invariant and action property that the passing runs check is thus
a theorem, but for `DamageNoticed`. Only model-checked are

* the liveness properties `EndsOrSpins`, `EndsUnlessHungUp` and `Terminates`,
  and whatever else rests on fairness: out of the reach of these provers;
* `DamageNoticed` of `Framing`: that no change of one byte goes unnoticed is a
  property of the polynomial, and so of what the CRC computes for every input;
* the invariants of `Receiver` but `TypeOK` on a line with noise or damage.
  There they do not hold of every answer: a check sum of sixteen bits
  can agree by accident, an answer can contain the bytes of a frame, and section
  3 lists what else it takes. The run `Receiver` shows them for the answers,
  noise and damage that a meter and a line can be expected to produce.

## 5. Not modelled

* AES and the multiplication of GHASH: fixed-width arithmetic, independent of
  the protocol.
* SET requests, the association view, broadcast, dedicated keys, the server's
  branches of the library, an expected security policy other than the default,
  suites other than 0 (the client sets none): the program does not call them.
* Second blocks and second frames of an answer: the program never asks for one
  (see `SegmentedResponse`), so `dlms_getDataFromBlock`, the check of block
  numbers (`lib/dlms.c:811`) and reassembly are not reached with more than one.
* Arrays and structures (the library never gives one elements), the text of
  logical names, scalers and labels; dates.
* Argument syntax, tracing, baud rates and mode bits; growth of object and
  message arrays.

## 6. Plan

1. An abstract specification of a run (connect, act once, close) implemented by
   `Session`.
2. Theorems for `Receiver` with noise of fewer bytes than a frame before an
   answer.
3. Reading a GET response with data block (`lib/dlms.c:800`) as the operator it
   is for a single block.
