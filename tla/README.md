# axsh in TLA+

TLA+ specifications of [axsh](https://github.com/ThomasHabets/axsh), a remote
shell over amateur radio: signed, never encrypted, over any byte stream (TCP, or
AX.25 through an AGW modem). They are checked with TLC on small instances and, where
it matters most, proved with TLAPS for every value of their constants.
Source references such as `client.rs:180` are to `src/src/` of the repository.

## The system

| Part | State it keeps | Operations | Talks to |
|---|---|---|---|
| `packet.rs`: `Packet` | none | serialise and parse the six packet types, per signature mode | called by both handshakes and the payload stream |
| `lib.rs`: `ConnSign`, `ConnVerify` | long term key pairs, mode (`quantum_insecure`) | sign and verify, with prefix or detached | the handshakes |
| `lib.rs`: `PacketSign`, `PacketVerify` | per direction counter; time of the last success | `sign`, `verify` | `PayloadStream` |
| `client.rs`: `ClientStream` | position in the handshake, the hello it read, the key it settled on, the hello it sent | connect (with timeout, key lookup and accept callbacks), then read, write, keepalive, shutdown | one byte stream; `known_hosts` through callbacks |
| `server.rs`: `ServerStream` | position in the handshake, its nonce, the hello it accepted | accept (with timeout), then as above | one byte stream; the authorized keys |
| `transport.rs`: `PayloadStream` | queued frame and offset, received payload and offset, both counters | `poll_write`, `keepalive`, `poll_flush`, `poll_shutdown`, `poll_read` | HDLC below, applications above |
| `hdlc.rs`: `AsyncFrameReader`; `encode`, `decode` | frame in hand, whether inside one | take an octet; encode and decode a frame | byte stream |
| `bin/axsh.rs` | the `known_hosts` file; whether stdin is open | load and append entries, ask the user, the select loop | `ClientStream`, terminal, file |
| `bin/axshd.rs` | authorized keys; accepted connections; the running command | accept loops (TCP: a task each, AGW: one by one), run a command line | `ServerStream`, child processes |
| `lib.rs`, `base64.rs`: file formats | none | key bundles, base64, `known_hosts` and `authorized_keys` lines, durations | the binaries |
| `axsh-keygen`, `axsh-pubkey`, `axsh-fingerprint` | none | sequential tools around the formats | files, terminal |

How the parts interact: a connection is a client task and a server task joined by
two FIFO byte streams. They exchange `ServerHello`, optionally
`RequestServerPubkey` and `ServerPubkey`, then `ClientHello` and
`ServerComplete`, one HDLC frame each. If every check passes, both hand stream and
packet keys over to a `PayloadStream`, whose two directions share nothing but the
stream. The application above splits, selects over and drops it as it likes.
Cryptography (aws-lc), the AGW library, tokio and the radio are outside the
repository.

What is hard about it:

* **Several handshakes under the same long term keys**, over a medium everyone
  hears: a frame can be lost, garbled, or heard again later and elsewhere. Only the
  nonces and what is signed over what keep sessions apart.
* **Two timers**, one at each end, that can fire at any await, including between
  the two ends' views of "established" - and a user prompt that blocks one of them.
* **A counter that is not sent**: signer and verifier must agree on it through any mix
  of data, keepalives, partial writes and errors.
* **Poll-based code**: every read and write can stop after any octet and be resumed,
  or not, and the stream can end or be dropped at any of those points.
* **Limits**: frame size, idle time, room in the stream beneath.
* **Loops that do not read while they write** (both binaries), and a file that
  several processes append to.

What makes each part correct:

* *Handshake*: an established session joins exactly one client and one server that
  fit together (authorized client, pinned or settled-on server key, same mode) and
  hold the same two hellos; no frame opens two sessions; ends that fit are never
  refused on a clean radio; both ends always finish.
* *Payload stream*: the reader gets a prefix of what was written, in order and once,
  whatever the medium does; without faults it gets all of it, an error has a reason,
  and a clean end after a shutdown is complete; an expired session stays expired.
* *known_hosts*: what the user accepted is found by every later connection, and the
  file stays readable. *Session loops*: the session always goes on or ends. *Accept
  loops*: every caller is served in the end. *Formats*: decoding inverts encoding and
  refuses everything else.

## Modules

| Module | Models | Source |
|---|---|---|
| `Packets` | packets, signatures and what parses as what, as records | `packet.rs`, `lib.rs` |
| `Handshake` | both ends of any number of connections, timers, user, radio | `client.rs`, `server.rs`, callbacks of `bin/axsh.rs` |
| `Agreement`, `HandshakeRefines` | what the handshake promises (offer, accept, confirm), and the mapping to it | `README.md` "Security", `PROTOCOL.md` |
| `PayloadStream` | one direction of a session, octet by octet | `transport.rs`, `hdlc.rs`, `lib.rs` |
| `ByteStream` | what a direction promises: an ordered stream | `README.md` "Replay" |
| `Session` | `Handshake` composed with the payloads of the sessions it opens | `client.rs`, `server.rs`, `lib.rs` |
| `ShellSession` | an open session: both loops, the command and its pipes | `bin/axsh.rs`, `bin/axshd.rs` |
| `LocalShell` | what a session promises its user: what a local shell would show | `README.md` "Run client" |
| `AcceptLoop` | axshd over TCP and over AGW, with its callers | `bin/axshd.rs` |
| `KnownHosts` | several `axsh` processes over one `known_hosts` file | `bin/axsh.rs`, `lib.rs`, `base64.rs` |
| `KeyFile` | several `axsh-keygen` and loaders over one private key file | `lib.rs`, `bin/axsh-keygen.rs` |
| `Hdlc` | `encode`, `decode`, escaping and the CRC, bit by bit | `hdlc.rs` |
| `WireFormat` | the bytes of the packets | `packet.rs` |
| `KeyBundle` | the bytes of public and private connection keys | `lib.rs` |
| `KeyLines` | the lines of `authorized_keys` and `known_hosts`, as three programs read them | `lib.rs`, `bin/axsh.rs`, `bin/axshd.rs`, `bin/axsh-fingerprint.rs` |
| `Base64`, `Durations` | `base64.rs`; `parse_duration` | `base64.rs`, `lib.rs` |
| `Loops`, `Octets` | one pass over a sequence; slices, and numbers as digits | the loops and conversions of the formats |
| `Formats` | an input that grows, for each of the format modules, and what each promises of it | |
| `MCHandshake`, `MCSession`, `MCShellSession`, `MCKnownHosts`, `MCFormats` | instances for TLC | |
| `HandshakeProofs`, `PayloadStreamProofs`, `SessionProofs`, `ShellSessionProofs`, `AcceptLoopProofs`, `KnownHostsProofs`, `KeyFileProofs`, `FormatProofs` | the theorems | |

How they fit together: `Handshake` takes packets for records, and `WireFormat` shows that the bytes allow it.
`Session` adds to `Handshake` the packet keys at work, and takes a direction for a set of payloads anybody
may hear; `PayloadStream` shows how one direction gets its payloads across and what it does when it cannot;
`ShellSession` builds on two such directions, each an ordered stream with room for so many payloads.
`PayloadStream` takes a frame for its octets in order, complete or not, and `Hdlc` shows what the flags,
escapes and the CRC make of that. `AcceptLoop` takes from `Handshake` that a timer bounds it and from
`ShellSession` that a session whose client is gone ends. `KnownHosts` and `Handshake` take a line or a key
for one symbol, and `KeyLines`, `Base64` and `KeyBundle` show what the readers make of its characters and octets.

Some definitions stand beside another with the same parameters and are used by
no action (`VerifiesAnyData`, `AnyCounter`, `AcceptsIdle`, ...). Each is that definition with
a plausible mistake in it; put in its place, it must make TLC refute the property
`PROJECT.json` names for it. They show that the properties can fail.

### Handshake

`cPc[c]` and `sPc[c]` are the await points of the two tasks of connection `c`
(`hello`, `pubkey`, `prompt`, `complete` at the client; `hello`, `flush` at the server).
`cHello`, `cKey`, `cSent`, `sHello`, `sSeen` are the locals that matter: the hello read, key
settled on, hello sent; the hello sent, hello accepted. `conf[c]` is how the ends were
set up: keys, `known_hosts` entry, mode. An action is what a task does between two
awaits, every check and write included: `ServerAccepts` is the check of digest, authorized
key and signature, the making of the transcript, its signature and the queuing of
`ServerComplete` (`server.rs:98-150`); each early return is an action that ends in
`failed` with its kind of error. An error closes that end's stream, which the other
end may notice (`ServerHangup`, `ClientHangup`) after or before reading what was under way.

A nonce identifies one `ServerHello` or `ClientHello`; a signature is a record of
key, mode and what was signed, so it verifies exactly when all three match. In the code
nonces are 64 random bits; the model takes them to be distinct, as it takes signatures
not to be forgeable and digests not to collide.

The radio may, up to `MaxFaults` times, drop a frame, or put noise or *any frame
ever sent on any connection* in front of what an end reads next. That covers repeats,
reordering, stale frames and two stations hearing each other. A frame that is cut is
noise. The handshake timer can fire wherever a task awaits. The
accept callback (`bin/axsh.rs:129-169`) reads a line from the terminal inside the
future the timer is polled with, so `ClientTimeout` is not enabled at `prompt`.

### Payload stream

`sender` and `reader` are what the applications did (open, shut down, dropped, failed;
open, end of file, gone). `signed` is every payload signed: the code keeps its
length only, `sign_counter`. `writeBuf` is `write_buffer[write_offset..]`, `unread` is
`read_buffer[read_offset..]`, `inFrame` and `frame` the frame reader, `verifyCounter` and
`idle` the `PacketVerify`. The i-th byte ever written is the number i, so `delivered` shows
at once whether anything is missing, repeated or out of turn.

An octet on the wire is a flag, noise, or octet i of the k-th payload's frame. A frame
decodes when it is one payload's octets, complete and in order - the FCS and the signature
are taken to catch everything else - and is accepted when that payload's counter is the
one expected and the session has not been idle too long. Escaping shows only in a frame's
length, which varies by up to `MaxEscapes`.

`Write` and `Keepalive` need the last frame drained; `Drain` is one `poll_write` of the stream
beneath, taking any part of what is queued that there is room for. The reader takes one octet per
step and may stop between any two, which is what a cancelled read is. After an error
the application may go on reading: the code allows it, and so does the model. After a
frame that is too long the reader stays inside it, as `push_frame_byte` leaves it
(`hdlc.rs:61`, `177`).

### Known hosts

`file` is the file as a sequence of newlines and entries; `host`, `known` and `offered` are a
process's address, the key it looked up and the key its server sent. `trusted` and `accepted` are
history: what users were told is permanently added, and what they said yes to. `Start` is
`load_known_hosts` and the lookup; `Connect` the part of the handshake up to the accept callback;
`Answer`, `CheckEnd`, `WriteNewline`, `WriteEntry`, `WriteEnd` are the steps of
`confirm_and_add_known_host` and `append_known_host` between which another process can act, one system
call each; `Verify` is the rest of the handshake, which can still fail.

`Crash` also stands for a write that fails, and may leave any part of an entry in the file. What such a
part is worth depends only on where it was cut: within the host (`"host"`, the characters that were written: alone on its line
it does not parse); within the key, at a multiple of four base64 characters (`"short"`: it parses, to
`CutKey`, which is nobody's key); or elsewhere (`"broken"`). An entry that another process appends right behind a piece of a host
name becomes an entry for the two names together, as `parse_known_host` takes all up to the first space for the host: names of
hosts are sequences of `Letters`, `NameOf` joins the pieces and `HostAt` puts them in front of the name. In the instance one host is
called `ab` and the other `b`, so that a piece of the one makes the other one's entry its own. A piece of a key with anything behind it
is taken not to parse; where the characters happened to be base64 as well it would be nobody's key, as `CutKey` is.
`Loads` is the strictness of `load_known_hosts`: one bad line, or a host named twice, and nobody can
use the file. `MaxCrashes` bounds the crashes. `atOnce` is how a history of the file goes: it is fixed at the start, and is 1
(each `axsh` is over before the next begins) or `MaxRunning`.

`Mixed` are the hosts and keys of lines with such a piece in front of an accepted entry. `AcceptedOrMixed` says that they are the only way
for a process to go on with a key that nobody accepted for its address, and that they come about only where processes overlap;
`OnlyAccepted`, without that exception, does not hold (see Findings).

### Session

`SessionSpec` is `Handshake` with four more variables. An *end* is named by its packet key. `wrote[e]` and
`read[e]` are what an end has signed and accepted, in order: their lengths are `sign_counter` and
`verify_counter`. An end may write and read once its own handshake is over (`Established`), which the two ends are
at different times; `PeerKey` is the packet key its handshake left it with. A payload signed by anybody may be
heard by anybody, any number of times and at any time; `PayloadVerifies` is the signature check over counter and
data. Any other frame makes the session of that end fail.

### Shell sessions

`cli` is where the client is (`loop`, the select; `writing`, in `write_all` and `flush` of a line; `done`,
`failed`), `srv` where the server's task is (`reading` a line, `running` the select over both pipes, `writing` a
chunk). `up` and `down` are the two directions, each with room for a few payloads, `made` and `taken` what a command
has written to each pipe and the server has read from it, `held` the pipes that some process of the command
still has open - a process in the background may hold one after the shell has exited - and `open` is `stdout_open`
and `stderr_open`. `sending` is the chunk being written and `terminal` what the user has been shown. A command writes up
to `MaxOutput` chunks to each pipe, in any order relative to each other, when there is room in the pipe, and may exit before.
What breaks, `MaxFaults` times: the link, the client, the start of `/bin/sh`. `AnHourPasses` makes a direction
stale: the next payload on it is refused, which ends the session for who reads it.

`MaxAhead` bounds the lines typed before the status of an earlier one is shown. With no bound below the room of
the streams the two ends can wait for each other (see Findings).

### Accept loops

`phase[c]` is how far the connection of a caller is, `daemon` what the loop of axshd awaits: `accept` or, over AGW,
the end of the connection it handles. `handle_connection` is a handshake, which succeeds, fails or times out, and a
session. `accept` fails when the process has no descriptor left (TCP), or for another reason `MaxFaults`
times; the error leaves `main`.

### Key files

A private key file is its three parts, each marked with whose key it is of. `write_to_file` creates the file
(`create_new`), and writes it in as many writes as it takes; a maker may die or fail at each. `from_file` opens and reads
in as many reads as it takes, while the file may grow under it. A power failure leaves any beginning of the file, any part of
it zero, or nothing at all: nothing is flushed.

### Formats

The modules `Hdlc`, `WireFormat`, `KeyBundle`, `KeyLines`, `Base64` and `Durations` have no state: they are the
code's readers and writers as operators, with their widths as constants, and for each a law that compares them
with what they should mean. A reader returns the set of the one result it got, or of none. `Formats` has the only
state, an input for one of them that grows by one symbol after another; what a symbol is (an octet, a character, a line)
depends on the format. `MCFormats` gives it values, and the runs go over every input within their bounds. Every loop of the code
over its input is `Loop` of `Loops`, a recursive function of the place reached, whose step is a function too.

The references are independent of the layout: what bytes mean as a packet is the set of packets that the writer
writes as them; what a base64 text means is its bits; what a file of keys says is the words of its lines; a
check sequence is compared with the good residue of RFC 1662. In `Hdlc` an octet is the set of its bits that are 1.

## Runs

| Run | Instance | Shows |
|---|---|---|
| `ss_agree` | 2 connections; 3 faults with the pinned pair, 1 with every way the ends may not fit; with users who know their server the sessions that open: 1 fault, 2 users and 1 payload each, or no fault, 1 user and 2 payloads each | `ServerAgreement`, `ClientAgreement`, `NoSharedSession`, `CleanHandshakesSucceed`, `TypeOK`; `FormsAgreement`: the handshake implements `Agreement`; `EndToEnd`, `ServesVerified` |
| `hs_timers` | 1 connection, every set-up, 1 fault, `FairSpec` | `ServerTimeLimit`; with a user who answers, `AttendedTimeLimit` and `AttendedCompletes` |
| `hs_prompt` | 1 connection, nobody answers | `HandshakeTimeLimit` is **violated** (see Findings) |
| `ps_stream` | 3 bytes, 3 packets, 1 fault, a wire of 2 octets, frames beyond the limit, `FairSpec` | `InOrder`, `IsByteStream`, `CleanEofIsComplete`, `ErrorsHaveCause`, `IdleIsFinal`, `WritesArrive`, `TypeOK` |
| `sh_local` | 2 lines, up to 3 chunks of output, 1 fault, room for 1 payload and 1 chunk, `FairSpec` | `LooksLocal`: a session implements `LocalShell`; `LeavesWhenAllIsShown`, `SessionEnds`, `TypeOK` |
| `sh_full` | 3 lines typed ahead | `OutputStreamed` is **violated** (see Findings) |
| `al_serves` | 3 callers, TCP and AGW, 2 descriptors, 1 failing accept | `OthersGoOn`, `CallersGetIn` |
| `kh_hosts` | 3 processes, at once and one after another, 2 crashes | `AcceptedOrMixed`, `TypeOK`; with `atOnce = 1`, `AloneRemembers` |
| `kh_two` | 2 processes at once, no crash | `PermanentlyAdded` is **violated** (see Findings) |
| `kh_mixed` | 3 processes, 2 at once, 1 crash | `OnlyAccepted` is **violated** (see Findings) |
| `formats` | 2 makers and 2 loaders of a key file with a power failure; every input of each format within its bounds | `OnlyWholeKeys`, `ReportedKept`, `OneIdentity`; `FramesApart`, `GoodResidue`, `OneBitTold`; `PacketsAsWritten`, `KeysAsWritten`; `AuthorizedAsListed`, `KnownAsListed`, `FingerprintsWhatIsUsed`; `DecodesBits`; `AcceptedIsMeant` |
| `fm_suffixes` | durations of up to 5 characters | `SuffixesAccepted` is **violated** (see Findings) |

Bounds. *Handshake, Session*: two connections are what confusion between sessions takes: one whose frames are
heard and one that hears them; a third would repeat the part of either (and the proofs cover any
number). Three faults allow a frame to be lost, its substitute heard, and one more in the
other direction; `MCSession` spends them on the usual pair, since a pair that does not fit needs one
stray frame to be led further. Two payloads of an end are the least that can change places; an end that
refuses a frame only stops, so one that does is enough.
*PayloadStream*: three packets allow a first, a keepalive or replayed one and a successor. `MaxFrame` is chosen so
that some frames fit exactly and some do not; `Capacity` so that no frame fits the wire at once, and
`MaxIdle` is one tick so that the limit is met and passed. *ShellSession*: two commands show what one leaves to the next, three
chunks allow two on one pipe and one on the other, and room for one makes every queue full at times. *AcceptLoop*: with two descriptors
and three callers one is left without. *KnownHosts*: three
processes are one that leaves something behind, one that mixes with it and one that reads the result; two
hosts and two keys tell the same host with another key from another host, and the name of the one is a piece of the other's with its own behind it; with two crashes a piece can follow a piece.
*KeyFile*: two makers to race and two loaders to differ. *Formats*: payloads of up to 4 octets out of the flag, the escape, what they are escaped to, and the
extremes (their check sequences take many more values), with a limit that only frames with almost every octet escaped exceed; packets of up to 9 octets, one more than the longest packet of fixed length, with
fields of 1 or 2; key bundles of up to 11 octets of one bit, so that a length can be more than its field holds; files of up to 2 lines out of
330, of which the short ones are all there are; texts of two quartets, so that a padding can be inside; durations of up to
5 characters with a u64 of 13 bits, which two hours do not fit.

Symmetry is used where connections, challenges, the keys of hosts and processes are interchangeable; never together with liveness.
Deadlock is not checked: connections, processes and inputs end.

Fairness. `FairSpec` of `Handshake` is weak fairness of each task and of each timer: tokio
polls every runnable task and every timer elapses. The user and the radio owe nothing; where a property
needs a user who answers the prompt, `Attended` is its premise. `FairSpec` of
`PayloadStream` is weak fairness of `Drain` and of the reader's steps: the loops of both binaries flush after
every write (`bin/axsh.rs:266`, `bin/axshd.rs:122`) and keep reading. Neither binary obliges anyone
to write more or to end the session, and the clock may stand still. `Fairness` of `ShellSession` is weak fairness of the
client, of the server and of the command: tokio polls both tasks, and a command whose output is taken gets done; nobody has to
type, nor to end the input, and nothing has to break. `SessionEnds` accordingly is about sessions that one side has left or
whose input has ended, and about ends that have something to write when the link breaks; who only reads from a link that went silent is told by nobody. In `AcceptLoop` the loop, the handshakes and their timers are fair, and so is the end of a session whose client is gone -
what `SessionEnds` shows; callers owe nothing, and `CallersGetIn` names what it takes: an accept that works and, over AGW, no
session of somebody else that goes on for ever.

## Proofs

All theorems hold for every value of the constants that the named assumptions allow: any number of connections, processes, faults,
crashes, keys and set-ups, any size of packet, wire and frame, any width of a field. The assumptions say

* that symbols for different things differ, and set-ups are well formed: `ConfigAssumption`, `NoConnAssumption`, `PayloadAssumption`, `HostsAssumption`,
  `PathAssumption`, `AlphabetAssumption`, `DurationAssumption`;
* that sizes, limits and widths are numbers, and not 0 where the code has at least one: `BoundAssumption`, `SizeAssumption`,
  `CapacityAssumption`, `LimitAssumption`, `FrameSizeAssumption`, `WidthsAssumption`, `BundleAssumption`;
* that inputs are made of the symbols of their format: `InputsAssumption`.

* `HandshakeProofs`: `TypeCorrect`, `ServersAgree`, `ClientsAgree`, `SessionsNotShared`, `FittingEndsSucceed`.
  The agreements are not inductive by themselves: a server concludes from a signature what
  a client did earlier. The invariant says of every frame ever on the air where it comes
  from - a `ServerHello` from the one stream with its nonce, a signed hello or transcript
  from a task that is past the step that signs it, with the locals it signed - and that what
  is under way in a stream is on the air or noise. Each step then either sends a frame with
  such an origin or reads one.
  That ends which fit are not refused (`FittingEndsSucceed`) takes an invariant of its own (`Clean`): as long as nothing was lost or
  strayed, what is under way on such a connection is at most the one frame its reader waits for, made from the very
  hellos and keys it will be checked against - except towards an end that has left.
  That the handshake forms what it promises is `Implements` in the same module. Accepting maps to `Accept` because of
  `ServerAgreement` in the state reached, completing to `Confirm` because of `ClientAgreement`;
  every other step leaves the mapped state alone. The choice in the mapping is determined because
  nonces are never used twice.
* `SessionProofs`: `SessionTypeCorrect`, `SessionsEndToEnd`, `ServersServeVerified`. `SessionSpec` includes `Handshake`'s
  specification, so all of `HandshakeProofs` is at hand. What is added: every payload on the air is the one its end wrote at
  that count (`Signed`), ends do nothing before they are established (`OnlyEstablished`), and what an established end
  has read is the beginning of what was written under the key it verifies with (`ReadsPeer`). That this key is the one
  authenticated peer's is `ServerAgreement` and `ClientAgreement`.
* `PayloadStreamProofs`: `TypeCorrect`, `ReadsInOrder`, `IdleSessionsEnd`, `Implements`, and on a medium without faults
  `CleanMedium`, `ErrorsExplained` (`ErrorsHaveCause`) and `EofComplete` (`CleanEofIsComplete`).
  For the first four the invariant is `Ledger` (payloads are numbered from 0 and cut the written bytes into
  consecutive intervals) and `Cursor` (the reader stands at the end of payload number
  `verifyCounter`, less what is unread). Nothing needs to be known about the wire: a frame that
  verifies is the next interval.
  For the others the
  wire is what matters. What the frame reader holds, the wire and the queue together are a *route* of places: every octet
  belongs to one place of one payload's frame, consecutive octets to consecutive places, from where the reader is to where the next
  payload's frame will begin - unless a fault changed it, a sender was dropped with octets queued, or the reader is inside a frame that
  was too long. So each frame that ends is the payload expected, and an end of file met at a frame's boundary after a shutdown
  leaves nothing behind.
* `ShellSessionProofs`: `ShellTypeCorrect`, `ShellLooksLocal`, `ShellLeaves`. What may be shown next depends on what was shown, which
  lies with the client, while what is sent next depends on how far the server has read the pipes. `Shown` ties
  them: as long as the server goes on, the chunks on the terminal and under way are just those of the commands before and
  those taken from the pipes of this one, but for the chunk in hand. `Ordered` says that each chunk under way follows when its turn comes,
  which stays true when the server is gone. `LinesFollow` (the lines under way are those after the one that runs) and `Runs` (a
  pipe is closed at its end only) are what these need.
  `ShellLeaves` (`LeavesWhenAllIsShown`) counts the statuses on the terminal along the steps of `LocalShell` (`Counted`) and says who
  leaves when: as long as nothing breaks, the server is done only when axsh has closed its direction and every line has run, and axsh only
  when the server is done and nothing is under way.
* `KnownHostsProofs`: `TypeCorrect`, `ConnectsToAccepted` (`AcceptedOrMixed`), `OneByOneRemember`. The invariant adds `Recorded` (a whole entry
  anywhere in the file was accepted for the name that was written with it, whatever stands around it), `Looked` (a key found for a host was
  accepted for it, or is that of a mixed line, which the file still shows because it only grows: `ToldStays`; in a file that loads nothing else
  can stand in front of an entry, and a short piece yields no key) and `Asked` (past the prompt, the key offered was accepted).
  That no line is mixed where processes run one at a time takes `Neat`: whatever is in the file and is not a newline has a newline or the
  end of the file behind it, because only the one process that runs appends, and what it appends stands on an empty line. This holds
  wherever processes crash.
  `OneByOneRemember` (`AloneRemembers`) is about the same processes. Until a crash has left a piece of an entry, there is one entry
  for each host, and what users were told is added is among them; a process that is at the prompt or
  appends is the only one there is, so the host it did not find when it started is still not in the file.
* `AcceptLoopProofs`: `ConnectionsAccounted`, `ConnectionsApart` (`OthersGoOn`). The backlog is just the callers that wait, each
  once; over AGW the one connection there may be is the one the loop waits for; over TCP there are never more than descriptors.
  So a connection that is refused, silent or hung up takes no other with it: only an accept that fails does, with the daemon.
* `KeyFileProofs`: `KeyFileTypeCorrect`, `WholeKeysOnly`, `KeysKept` (`ReportedKept`), `IdentityKept` (`OneIdentity`). One maker at most writes, and has
  written all of the file there is (`OneWriter`); what is in the file is one maker's, but for zeros (`OneOwner`); a loader has
  read the beginning of the file as it still is (`ReadsFile`); until the power fails, a file that was loaded or reported does not
  change (`Settled`). So two loaders that got a key got the same one.
* `FormatProofs`: a theorem for each law of the formats, for inputs of every length and fields of every width. `InputsRead` says what the
  inputs are; each law is then shown of every such input.
  * `PacketsExact`, `KeysExact`: a packet or a bundle is cut at places that its widths give, and cut back from what was
    written it is what it was written from (`CutApart`, `CutBack`); a number is what its digits are read as and the other way round
    (digits of a base, up to the largest number of a width).
  * `FramesExact`: what is escaped holds no flag (`NoFlagInside`), unescaping takes it back (`UnescapedBack`), and the reader
    collects just what is between two flags (`FrameRead`).
  * `ResidueExact`: the eight steps of an octet are linear over exclusive or, so that the two octets of the check sequence meet what the
    register holds, and what remains is one computation, the same for every payload.
  * `TurnedBitExact` (`OneBitTold`): both registers of two different sequences that differ in one octet stay different, because a step loses
    nothing (`BitKeeps`, `OctetKeeps`); by `ResidueExact` one of the two has a wrong check sequence. The rest is where the turned octet
    stands: in a flag, behind an escape, or alone (`Place`), and which frames the reader then makes of the stream.
  * `AuthorizedExact`, `KnownExact`, `ShownExact`: what is kept of a file or a line is in one-to-one correspondence with the places it
    stood at (`KeptPlaces`), so lines can be counted by the keys read from them.
  * `DecodedExact`: a text is of the standard just when all its quartets are (`Shaped`, `Quartet`); the bits of an octet are those of
    the two characters it is joined from; and data is decoded from the text written of it.
  * `AcceptedExact`: an argument ends in a unit at one place at most, and what is multiplied without overflow is the product.

  The library's induction theorems cannot be instantiated with the provers at hand. Induction over data goes by the least counterexample
  instead: a set of naturals that has 0 and with each number the next has all of them (`UpTo`, from the well-foundedness of the order), and a
  set of sequences that has the empty one and is closed under `Append` has all (`AllSeqs`). That is why `Loop` is a recursive function whose
  step is a value and not an operator: one lemma (`LoopAppend`, `LoopConcat`) serves all loops.

Only model-checked: all liveness (`ServerTimeLimit`, `AttendedTimeLimit`, `AttendedCompletes`, `WritesArrive`, `SessionEnds`,
`CallersGetIn`), which is out of the prover's reach. Every invariant and every other action property that a passing run checks is proved.

## Findings

* `client.rs:180`: the documented limit on the time of a handshake (`lib.rs:43`) does not hold for a
  client whose user is asked about an unknown host key. `axsh` reads the answer with a blocking
  `read_line` in the accept callback, inside the future given to `tokio::time::timeout`, which can
  therefore not expire. Run `hs_prompt` is the trace: the client stays at the prompt for ever, while the
  server times out and leaves. With a user who answers the limit holds (`AttendedTimeLimit`).
* `bin/axsh.rs:120`: the user is told that a key is *permanently added* (`bin/axsh.rs:163`), but an append
  is three unlocked writes after a check that may be stale by then. Two `axsh` that accept keys at the
  same time can join their entries in one line, or record one host twice; `load_known_hosts` then refuses
  the whole file, and no host can be reached until somebody repairs it. Run `kh_two` is the trace. One at
  a time, the append repairs an open last line (`AloneRemembers`).
* `bin/axsh.rs:123`: a host that is found in `known_hosts` counts as "already checked" (`bin/axsh.rs:235`), which is not so behind a
  write that was cut inside the name of a host, by a crash or a full disk. Another `axsh` that had found the file ending in a newline appends its
  entry right behind the piece, and `parse_known_host` (`lib.rs:134`) reads one entry for the two names together. A later `axsh` to
  an address of that name connects with the key without asking, although it was accepted for another address: `1`, and
  `72.16.0.1:22` with its key, is an entry for `172.16.0.1:22`. Run `kh_mixed` is the trace. It takes two `axsh` at once and one that is cut; a key that no
  user accepted for any address is trusted in no case (`AcceptedOrMixed`).
* `bin/axsh.rs:263`: axsh does not read while it writes a line, and axshd does not read while it writes output
  (`bin/axshd.rs:121`). With lines typed ahead and output under way both streams fill and each end waits for the other for
  good: what a command has written is not "streamed to the client" (`bin/axshd.rs:90`). Run `sh_full` is the trace.
* `lib.rs:54`: `parse_duration` documents a suffix `ms` (`lib.rs:51`) that it never accepts: the rule for `s` takes it first.
  Run `fm_suffixes` is the trace. What is accepted is what was meant (`AcceptedIsMeant`).

Met while modelling, without a statement that they contradict: a write of more than 64 KiB makes one frame that the peer
always refuses, after which it never reads another (`transport.rs:88`, `hdlc.rs:178`); the idle limit
ends a session only when the next packet comes, so a quiet one is held open (`lib.rs:37`, `lib.rs:406`); over AGW one session that goes on keeps
every other caller waiting (`bin/axshd.rs:229`); an accept that fails ends the daemon and every session with it (`bin/axshd.rs:240`); a key file left
by an `axsh-keygen` that died has to be removed by hand before another can be made (`lib.rs:322`); a bit that makes or unmakes an
escape changes two octets of what is decoded, and 16 bits of check sequence do not always tell (of the payload `7d 3d 8b 7c`, bit 0 of the sixth
octet of the frame), so that the signature has to; a host name followed by a tab is known with the tab (`lib.rs:133-141`).

## Plan

What is left: `ShellSession` over two `PayloadStream`s instead of two queues of payloads, the session as a whole octet by octet. Its states are
beyond TLC at any size at which something happens, so it is worth as much as its proof.

Not modelled: the cryptography, tokio and AGW libraries (external, modelled by what the code relies on);
`axsh-pubkey` (loads a key file, as `KeyFile` has it, and prints one line, as `KeyLines` has it); option parsing and logging, which have no
state; how text reaches the screen (`from_utf8_lossy` of what one read returned, `print!` without a flush; `bin/axsh.rs:257`); build and
release scripts.
