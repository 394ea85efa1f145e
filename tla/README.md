# A verification project for fencr

fencr runs each sandbox as a firecracker microvm of its own and gives it the
host's help through a few small programs: `pkgs/cli/cli.go` (the `fencr`
command and what the checkpoint units run), `pkgs/egress` (one egress unit per
sandbox: dns, tls by name, credentials), `pkgs/mcp-gateway/gateway.py` (one
gateway for all sandboxes), and systemd units, sockets and nftables rules that
nix generates. The modules here model the parts of these programs that keep
state and run concurrently, check them with TLC on small instances, and prove
with TLAPS what holds for every instance. `PROJECT.json` maps every definition
to the lines it stands for.

## Inventory

| part | state | operations | who shares it | what makes it correct |
|---|---|---|---|---|
| checkpoints (`cli.go`, `checkpoint.nix`, `microvm.nix`) | the checkpoint directory, its `.tmp` files, a flock, the disk image | `write-checkpoint` from ExecStopPost, timer and command; prune; `checkpoints --rm`; `restore` | units of the sandbox's user, root's commands, the running guest, systemd's stop and start jobs | a name never shows half a disk, after power loss too; retention takes the right files; a restore installs what it chose; everything ends |
| mcp gateway, backend sessions (`gateway.py`) | a pool of sessions by sandbox and backend, a lock per key | acquire, call, discard, expiry, retry, cancellation | all requests of all sandboxes, one task per session | a tool call is sent once; a session leaks in one known gap only; every request ends |
| mcp gateway, door (`gateway.py`) | sessions a sandbox holds, sessions being opened | handle, live_sessions | all clients of a sandbox | at most MAX_SESSIONS, and none locked out |
| dns relay (`dns.go`) | a token bucket, slots, one resolver connection per stream | take, relay over udp and tcp, screen, refuse | goroutines per query and per stream | rate and load on the resolver are bounded; an answer fits its query and the grants |
| credential proxy (`credentials.go`) | in-flight slots, the request's uri, the journal | judge, substitute, forward, scrub, record | handlers of concurrent requests | the value goes only where one credential admits the request and comes back only where the scrub does not reach; one line per request |
| egress routing (`main.go`, `sni.go`, `domain.go`) | connections, the records of a hello | read the client hello, match, hand over, dial, splice | two goroutines per connection | the whole hello's name decides; the stream is replayed in order; no inside address is dialled; both directions end and lose nothing |
| firewall (`firewall.nix`), doors (`host-units.nix`, `run` of `main.go`), grants (`instance.nix`) | the loaded ruleset and its counters, tracked connections, sockets held by pid 1 | a packet meets a chain, a rebuild, a restart of the egress unit | the guest, host processes, the kernel | the grants in force decide every packet; a door that is reachable is served |
| status (`cli.go`) | none: it reads counters and two journals | grantLines, blocked | whatever changed between the lines and the reading | a suggested grant admits what was refused; an unused grant can go, as far as the lines read tell |
| secrets relay, trust (`host-units.nix`) | a socket unit that closes after use | serve, close, reopen at the next start | guest, systemd | one fetch per boot |

The hard behaviours are the interleaving of units and commands in one directory,
kills and power loss between the copy and its name, systemd jobs that wait for
processes that wait for a lock, a session pool used across awaits, retries and
cancellation, slots that every return path must give back, half-closed
connections, and configurations that change under connections, logs and counters
that are older than they are. `PROJECT.json` lists them under "hazards", each at
its line.

## Modules

### Checkpoints

Files are inodes in the order they are created (`data`), and paths name inodes
(`file`, `tmp`); a disk is the number of the last guest write it contains, so
that a torn copy is a value of its own (`Torn`). A process is a writer (one per
label the `checkpoint@` template is started with, and the ExecStopPost) or a
restore; its locals are `target`, `src`, `head` and `victims`, and `pc` is where
it is between two system calls.

| actions | code |
|---|---|
| `StartWriter` | label, stamp, the timer's question to firecracker (`cli.go:891-907`) |
| `Lock`, `Sweep` | flock, removal of stale `.tmp`, the exists check, open of the image (`908-949`) |
| `Stage`, `Clone`, `CopyHead`, `CopyRest`, `Sync`, `Fail` | `stage` (`788-828`) and its callers' clean-up; a clone is one step, a plain copy two |
| `Rename`, `List`, `PruneOne`, `Finish` | rename, then `prune` from one listing, one unlink at a time (`866-887`, `957-963`) |
| `Remove` | `checkpoints --rm`, without the lock (`1035-1054`) |
| `OpenSource`, `StopUnit`, `UnitStopped`, `Replace`, `StartUnit` | `restore` (`1055-1080`) |
| `CleanExit`, `FailedExit`, `UnitStart` | the microvm unit: a clean stop runs the ExecStopPost, a failed one does not copy; it starts whenever it is inactive (`microvm.nix:50-75`, `cli.go:841-848`) |
| `Kill`, `Commit`, `HostCrash`, `Tick`, `GuestWrite` | the world |

Two things are left as open as the code leaves them. Contents are on the disk
after an fsync only, and no directory is ever synced (`cli.go:783`, `957`): a
rename or unlink is on the disk when the file system next writes out its journal
(`Commit`, at any moment), and `HostCrash` returns every path to what `stable`
names. The assumption is that of a journalling file system, directory changes
reach the disk in the order they were made, with the checkpoints and the image
on one file system, as the code's own renames and clones want it. `made`, `kept`
and `removed` go back with the paths: a name that a crash undid counts as never
made. And the unit starts at any moment it is inactive (`UnitStart`: a boot,
`systemctl start`, a switch of the host, `Restart=on-failure`), also between a
restore's stop and its rename, since neither the unit nor `restore`
(`cli.go:1074-1079`) looks. `early` marks a guest that was started there.

A rename that fails for another reason than a missing `.tmp` is covered by `Kill`
at the same point: both leave the `.tmp` and end the process. A process killed
while it waits for `systemctl stop` leaves the stop job, as systemd does. `made`,
`kept`, `removed`, `wanted`, `saved` and `early` are history and appear in no
guard.

`RunsOnImage` and `ReplacedIsSaved` leave out the guest marked `early`, for which
they are false: it runs on the replaced file, and its stop copies whatever the
image's path names by then. That every other guest keeps its image, also behind a
restore that is killed, fails or waits for a stop job whose ExecStopPost queues for
the flock, is what is left to check.

### CheckpointStore and CheckpointsImplement

What an operator is promised, without files, locks or processes: a map from
names to whole disk states in which a name is written once (`Take`, `Drop`),
and a restore that replaces the image in one step by the state it chose
(`Choose`, `Install`). It does not promise that the sandbox is off at that
moment (`guest` is then "aside": on a disk that is no longer the image), nor that
the latest steps outlive a crash: `Crash` returns the map and the image to a
point that was settled before (`Settle`). `CheckpointsImplement` maps a name to
what its inode holds, the image to what its file holds, the settled map to what
`stable` names, and a restore to what its checkpoint held when it was opened;
every step of `Checkpoints` must then be a step of the store or leave it alone. A
name that shows half a disk, or a crash after which the names are those of no
earlier moment, is no step of the store, so the `checkpoints` run does not list
`FilesWhole` again. `RestoreInstalls` (the file a restore is about to give the
image's name holds its choice) is checked by `checkpoints_plain` and proved.

### McpSessions

asyncio runs one task until it awaits, so an action is what a task does between
two awaits. A session is a record in the order of creation; `entries` and
`lock` are `Sessions.entries` and `Sessions.locks`. One backend is modelled, so
the key is the sandbox. `Reuse`, `Expire`, `OpenFirst`, `OpenAgain`, `Opened`,
`OpenRaised` are `acquire` (`gateway.py:164-181`), `Answered`, `CallFails`,
`ErrorAnswer`, `Discarded` are `call` (`183-198`) with `discard` (`159-162`),
`HandshakeDone`, `HandshakeFails`, `TaskEnds` are `hold` and `aclose`
(`127-141`). `Cancel` may come at every await: `CancelledError` is no
`Exception`, so nothing is discarded or closed. Awaiting a future and being
cancelled cancels the future, so `hold` of a handshake that was abandoned
fails in `set_result` and leaves its context. A future that already has its
result cannot be cancelled: a request cancelled after `ready` was set and before
it runs again (`gateway.py:175-179`) leaves a session that is in no entry and
whose `hold` waits for a release that no one is left to give. The model keeps it
(`Unclaimed`, `LeftBehind`), and `NoLeak` says that this is the only way: every
other session that was not released is its key's or is being opened under the
key's lock, and one that was left behind is no one's.

### McpGateway

The door in front of the pool, composed with it: clients open sessions (`Post`,
`Leaves`: `handle`, `gateway.py:317-341`), close them (`Delete`), leave in the
middle of opening one (`Breaks`) or go idle, and the requests of `McpSessions`
run in the session of the client that makes them and are cancelled with it.
`Registers`, `Delete`, `Idle` and `Abandon` are the sdk's session manager, taken
from how `live_sessions` and `handle` use it: a transport closed with DELETE
stays in the registry, and a client that leaves while its transport is being
registered leaves an orphan until the idle timeout. The check and the slot come
before any await, so `Post` is one step. A transport that is registered and not
yet answered counts twice in the code, and in the model.

### DnsRelay

`UdpQuery` to `UdpGivesUp` are `forwardDNS` and `relayQuery` (`dns.go:95-158`),
`Accept` to `ResolverGone` are `forwardDNSStream` and `relayStream`
(`185-257`), `Take` and `TakeFails` are `bucket.take` (`38-49`), which holds a
mutex. A query is a model value with the class the relay gives it, and an
answer names classes of addresses as `screen.allows` tells them apart. Tokens
are whole and the clock ticks in seconds: between ticks the bucket's refill is
a multiple of the rate. `Measure` is history: it picks the moment the rate is
measured from, so that `WithinRate` is about every interval.

### CredentialProxy and AllowRules

`TooMany` to `Forward` are `handler` and `substitute` (`credentials.go:96-150`,
`211-242`), `Interim` to `Served` are `forward` (`288-336`) with `scrub` and
`record`. A request has a host, a method and a path, and the credentials that
admit it are computed by `AllowRules` (`152-207`): `PathPattern` is what
`pathPattern` writes, `MatchString` follows the expression through the path, and
`HasDotSegment` splits it.

Other text is abstracted to what stands in it of a credential: the stored value,
the key in a stored `Bearer <key>`, or the escaped form that `url.QueryEscape`
(`credentials.go:217`) and net/url make of a key in the parts of a uri in
`EscapedIn`. An upstream echoes what it got (`Echoes`). What the guest reads has
the places "interim", "header" and "trailer", and for the body what
`rewriteBody` (`252-286`) makes of it: "body" is held for both passes of `scrub`,
"brim" was made too long by the first for the second, "stream" is any other,
whatever its length. The passes search raw bytes (`239`, `268`), so they find no
escaped form, and no pass is made over trailers.

### DomainNames and Egress

`DomainNames` is the one wildcard rule (`domain.go`) with `allowedName` and the
verdict of `route`; a name is its labels and whether it is spelt with capitals.
`Egress` is one connection at the tls door, since connections share nothing.
Bytes are counted in units: a record carries 0, 1 or 3 of them, the length field
of the hello ends after `Prefix` units, and `ReadRecord` makes the checks of
`readClientHello` in their order. `raw` and `replay` are the `MultiReader` of the
`prefixed` connection; `got` holds positions of the other side's stream, so that
loss, repetition and reordering show. `Copy`, `CopyEnds` and `CopyBreaks` are the
two `copyStream`, one per side; `Resolve`, `Connects`, `DialFails` are
`dialPublic`; `Accept`, `TerminatorReads`, `TerminatorCloses` are the handover to
the credential proxy. A write that fails after the peer has gone is `CopyBreaks`;
data the kernel holds for a peer that reset is lost, as it is there. An address
on the lan never connects: the unit's `IPAddressDeny` drops it.

### Network

The options of one sandbox as a record (`Configs`, restricted by `Valid` to what
`resolveInstance` does not refuse), the doors derived from it for the socket unit
(`Passed`) and by `run` (`Taken`), and the chains of `firewall.nix` as sequences
of rules (`Forward`, `Input`, `Output`). A packet meets the one its endpoints
select (`Chain`), of which the first match decides (`First`, `Tag`). `Redirected`
is the prerouting chain; conntrack keeps the port a connection was given by its
first packet (`PortOf`). `Rebuild` changes one option: a new ruleset with
counters at zero, new sockets, and connections that stay tracked, which the `ct
count` of the new chains does not know. `passed` is history. The egress unit's
journal is a sequence: a hello leaves a line with its verdict and name (`Hello`),
and the unit's other lines (`Logs`: hellos that could not be read, credential
requests, dropped queries) fill it too. The ports keep their numbers, because 443
of the host is granted both as a host port and as the tls door, and 32768
separates what `status` takes for a reply.

### Status

`Read` is what `egressLog` gets: the last `JournalLines` lines of that journal
(`cli.go:245-246`; 400 in the code), whatever they are. `GrantLines` are the rows
`cli/default.nix` renders, `Unused` is `grantLines` with `packets` and
`connections`, `HintOf` and `NameHint` are the two halves of `blocked`. They read
the state of `Network` at any moment, with lines that were written under earlier
configurations. Every property is about the lines that were read. The kernel log
is a set: its 400 lines (`cli.go:531-534`) give each its own hint, and a line
that is not read has none. `Followed` are the configurations an operator may
write on reading a hint, as far as the options take them (`Valid`): the grant it
names or, where that is `outbound "internet" or a domain`, an open grant or some
pattern.

`HintAdmits` rules no line out. It says for each what its hint does: `Wrong` are
the hints that no configuration can make good (a port or a destination for udp;
dns over tcp beside domain grants), there is a way to follow every other one, and
every way admits a new connection like the one refused, while the wrong ones admit
nothing. For a refused name, the options take the name as a grant exactly where
there is no open grant (`instance.nix:272`) and it has two labels, and then its
verdict is no longer to deny.

## Runs

| run | instance | what it shows |
|---|---|---|
| `checkpoints` | labels stop, keep and `stop-<stamp>`, one restore, keep 1, 2 seconds, 3 commands, 1 crash, reflinks | safety of the directory, and that it implements `CheckpointStore` |
| `checkpoints_plain` | label timer, the ExecStopPost, one restore, 1 crash, no reflinks | no torn copy under a name; writers and restores end |
| `checkpoints_running_stop` | label stop, no reflinks | finding: `fencr checkpoint <sandbox> stop` names a torn copy of a running disk |
| `checkpoints_two_restores` | two restores | finding: they share `state.img.tmp` |
| `mcp_sessions` | three clients of one sandbox, two places, a listing and a tool call, one fault, one tick | a call is sent once, sessions leak in one gap only, the door keeps its limit and locks nobody out, calls end |
| `mcp_idle` | the pool alone, two sandboxes, longer | finding: a session in use is dropped as idle |
| `mcp_one_death` | two listings | finding: one death fails a listing |
| `dns_relay` | three queries over both roads, two streams, burst, rate and both limits 1 | rate, slots, fit of answers, slots return |
| `credential_proxy` | five requests, credentials for `GET /a*` and `* /*b`, two slots; patterns of up to two stars against paths of up to five characters | the compiled entries mean what they read; slots, one credential, what an echo hands back, one journal line, requests end |
| `credential_journal` | the same | finding: the journal's status differs from the guest's |
| `egress` | six hellos, up to four records of the guest and one of the upstream, two addresses | routing by the whole hello, order, no inside address, no loss at a half-close, the end of connections |
| `status` | 443 as host port and inbound, a private resolver as destination, `*.org` with `evil.org` and the credential's `api.org`, every valid configuration, three packets, hellos, other log lines, restarts or rebuilds, a window of one journal line | the grants in force decide, doors are served, each hint is right or one of the wrong ones, "unused" is true of what was read |

Bounds, and why they are enough. `Keep` 1 with two stamps makes every second
checkpoint of a kind prune the first; three commands suffice for a checkpoint, a
restore and a kill or removal beside it, each with the exits and copies they
cause, which are not counted. One guest write tells a stale, a fresh and a torn
disk apart. One crash suffices: it returns every process to its start, and
`Commit` puts what it leaves at any earlier moment. Of the automatic labels,
`stop` is in the first run, and the timer, which asks whether the guest runs, in
the second; `manual` is stamped as they are and not pruned, as `keep`. In
`McpSessions` a window of 1 and one tick separate fresh from expired, one fault
is a death, a failed handshake or an error answer in turn, and more requests add
waiters of the same lock. Three clients for two places refuse one and let the
third take the place of one that ended. In `DnsRelay` limits of 1 are reached by
two queries; AAAA stands for all the queries answered locally. In
`CredentialProxy` two slots are exhausted by three of five requests, and of two
credentials with a placeholder one is substituted and has an escaped form. In
`Egress` a hello of three units with a prefix of two is cut before, inside and
after its length, over two records or more, or outgrows `MaxHello`; records after
it exercise the replay; two addresses suffice for a refused one before, behind or
in place of a good one. In `Network` three steps are a packet, a rebuild and what
happens then, or a line in a log and a rebuild after it; with a window of one
line, two hellos, or one and another line, put a line out of it. Kernel hints are
per line, so one line suffices, and one connection fills the cap of 1. `egress`
has `HostTLS` FALSE; the proof of `NeverInside` is for both values. No run checks
for deadlock: each of these systems is idle when the bounded commands or requests
are used up.

Fairness. Weak fairness for each process or request: the kernel and the event
loop run what can run, and a flock that is freed goes to a waiter. A stop job
ends, at the latest by TimeoutStopSec. An operator's command, a kill, a crash,
a timer and an error are never fair. In `DnsRelay` the deadlines of 2, 5 and
30 seconds end every wait; in `CredentialProxy` an upstream answers or fails
and a guest reads or hangs up; in `McpSessions` a backend answers or fails a
call, which httpx's timeouts ensure over http and which is assumed of a backend
behind a socket; in `McpGateway` the sdk also answers an initialize and cancels
the requests of a session that ended, and no session has to end. In `Egress`
goroutines run and deadlines pass, and a peer that reads the end of our direction
ends its own or breaks; no peer has to end a connection of its own accord, so
`ConnectionsEnd` is about connections one side of which has ended.

Every property of a passing run has a mutant: the definitions marked "Mutant"
stand before the definition they change. `GatewayTypeOK` and the `TypeOK` of
`McpSessions`, `CredentialProxy`, `Egress` and `Network` are stated for the
reader and for proofs; no run lists them. What they say is part of the inductive
invariants below. The pool's keys are not a property
either: with a session per sandbox in the model's state, that no session is
shared holds by the shape of the model.

## Findings

1. `fencr checkpoint <sandbox> stop` (`cli.go:940`) copies a running disk
   without reflinks, which the documentation says is refused.
2. Two restores of one sandbox (`cli.go:776`) stage in one file without a lock.
3. A session with a call in flight counts as idle (`gateway.py:170`).
4. `discard(key)` (`gateway.py:196`) closes a session its caller never used.
5. The journal's status is noted before the scrub can fail
   (`credentials.go:320`).

Smaller observations, which the properties are stated around:

- A restore does not look at the unit again after its stop. A guest started
  between the stop and the rename, by a switch of the host or an operator, runs
  on the replaced file, `restore` starts nothing and reports success, and the
  checkpoint of that guest's stop is one of the image, not of the disk it wrote
  to (`cli.go:1074-1079`; `docs/decisions/checkpoints.md:25` says the sandbox
  reboots into the checkpointed disk). `RunsOnImage` and `ReplacedIsSaved` leave
  that guest out (`early`).
- No directory is synced (`cli.go:783`, `957`): after a power loss the latest
  checkpoints may be missing or back, and the image may be the one before a
  restore that was reported done. `Crash` of `CheckpointStore` says so.
- A request that is cancelled after its session's handshake and before it runs
  again leaves the session open for good (`gateway.py:175-179`, `except
  Exception`). `NoLeak` names this gap. The cancel scope of the request is the
  sdk's; that it may cancel there is an assumption about an external part.
- What an upstream echoes is not always rewritten (`docs/credentials.md:215-220`,
  `README.md:213-216` and `docs/overview.md:184-187` promise it of headers and
  bodies up to 1 MiB). An api that takes its key in the uri gets it escaped
  (`credentials.go:217`), and an echo of that form in a header or a short body is
  not found; trailers are not looked at; a body that grows past 1 MiB in the
  first pass keeps the bare key. A body of unknown length passes, however
  short, as the documentation says. `EchoScrubbed` names exactly these.
- A hint can be wrong (`cli.go:385`, "the grant that would admit it"): `inbound
  <port>` and `"<address>:53"` for a refused UDP packet name grants for TCP only
  (`docs/networking.md:90` says so of the latter); a domain does nothing for dns
  over TCP, and a sandbox with domains cannot take the open grant that would; the
  name of a refused connection (`cli.go:459`), whose line may be older than the
  grants, is no grant beside `"internet"` (`instance.nix:272`) or with one label.
  `HintAdmits` says which are wrong and that no other is.
- `status` reads 400 lines of the egress unit's journal (`cli.go:245-246`), so an
  entry last used before those shows as unused. `UnusedIsSafe` is about the lines
  that were read.
- `docs/networking.md:50-55` says that `"host:443"` never reaches the host's
  bridge address; that holds only while the sandbox has a tls door.
- An open grant of which only the resolver is used is shown as unused, since dns
  has counters of its own; a sandbox whose only traffic is a connection the host
  opened before the last rebuild shows `inbound` as unused, since tracked packets
  to the guest pass a rule without a counter. `UnusedIsSafe` leaves both out: it
  is about the guest's packets that no door takes (`AtDoor`).
- After a rebuild the cap of connections counts from zero (`Full`).
- A connection to the tls door that a rebuild has closed is shown as "reply to a
  connection the host no longer tracks", because its port is the redirected one.

## Proofs

Every theorem holds for every value of the constants, from the named
assumptions in the modules that declare them; TLC evaluates those on every run.

| theorem | statement | assumes besides |
|---|---|---|
| `CheckpointsProofs!TypeCorrect` | `Spec => []TypeOK` | |
| `CheckpointsProofs!WritersTakeTurns` | `Spec => []TmpOwned` | |
| `CheckpointsProofs!OperatorsKeep` | `Spec => []KeptUntilRemoved` | |
| `CheckpointsWhole!NamesShowWhole` | `Spec => []FilesWhole` | `OneRestore`, `ColdStops` |
| `CheckpointsWhole!RestoreKeepsChoice` | `Spec => []RestoreInstalls` | `OneRestore`, `ColdStops` |
| `CheckpointsWhole!GuestKeepsImage` | `Spec => []RunsOnImage` | `OneRestore` |
| `CheckpointsWhole!NamesAreFrozen` | `Spec => CheckpointsFrozen` | `OneRestore`, `ColdStops` |
| `CheckpointsPromise!FilesImplementStore` | `Spec => ImplementsStore` | `OneRestore`, `ColdStops` |
| `CheckpointsPromise!NewestStay` | `Spec => []NewestKept` | |
| `CheckpointsPromise!KeepIsKept` | `Spec => []WithinKeep` | |
| `CheckpointsPromise!ReplacedDiskIsSaved` | `Spec => ReplacedIsSaved` | `OneRestore`, `ColdStops` |
| `DnsRelayProofs!TypeCorrect` | `Spec => []TypeOK` | |
| `DnsRelayProofs!RateBound` | `Spec => []WithinRate` | |
| `DnsRelayProofs!AnswersBelong` | `Spec => []AnswersFit` | |
| `DnsRelayProofs!SlotsHold` | `Spec => []SlotsCounted`, and so the bounds on goroutines | |
| `DnsRelayProofs!ResolverIsPaid` | `Spec => []AskedIsPaid` | |
| `EgressProofs!StreamsInOrder` | `Spec => []InOrder` | |
| `EgressProofs!EndsComplete` | `Spec => []EndIsComplete` | |
| `EgressProofs!StaysOutside` | `Spec => []NeverInside` | |
| `EgressProofs!RouteFollowsName` | `Spec => []RoutedByName` | |
| `CredentialProxyProofs!PatternMatchesAsRead` | `MatchString(PathPattern(p), path) <=> Placed(p, path)` | `p` starts with a part that is not empty |
| `CredentialProxyProofs!DotSegmentsAsRead` | `HasDotSegment(path) <=> ~Stays(path)` | the path starts at a slash |
| `CredentialProxyProofs!EntriesAgree` | `Agree(patterns, paths)` | the same of every pattern and path |
| `CredentialProxyProofs!SlotsComeBack` | `Spec => []SlotsCounted` | |
| `CredentialProxyProofs!OneCredentialEach` | `Spec => []OneCredential` | |
| `CredentialProxyProofs!EchoesScrubbed` | `Spec => []EchoScrubbed` | |
| `CredentialProxyProofs!OneLineEach` | `Spec => []JournalledOnce` | |
| `McpGatewayProofs!ToolCalledOnce` | `Spec` and `GatewaySpec => []SentOnce` | |
| `McpGatewayProofs!RetriedOnAnother` | `Spec` and `GatewaySpec => []RetriedElsewhere` | |
| `McpGatewayProofs!SessionsNotLeaked` | `Spec` and `GatewaySpec => []NoLeak` | |
| `McpGatewayProofs!DoorHolds` | `GatewaySpec => []WithinSessions` | |
| `McpGatewayProofs!NotLockedOut` | `GatewaySpec => NoLockout` | |
| `NetworkProofs!TypeCorrect` | `Spec => []TypeOK` | |
| `NetworkProofs!GrantsHold` | `Spec => []GrantsDecide` | |
| `NetworkProofs!DoorsHold` | `Spec => []DoorsServed` | |
| `NetworkProofs!HintsAdmit` | `Spec => []HintAdmits` | |
| `NetworkProofs!UnusedCanGo` | `Spec => []UnusedIsSafe` | |

`OneRestore` (one restore of a sandbox at a time) and `ColdStops` (with no
reflinks nobody starts the template with the label stop) are what findings 1 and
2 show the code does not ensure. Other weaknesses of the code are not assumed
away but stated in the properties: the guest that is started under a restore
(`early`), a crash that undoes the latest steps, the session left behind by a
cancelled request, the echoes that get past the scrub, the wrong hints and the
lines that were not read. What the models take from the world besides is in the
sections above: directory changes reach the disk in order, and asyncio, the sdk,
systemd and the kernel do what is said there. That a pattern starts with a part
is what the nix option ensures: an entry's path begins with a slash
(`egress.nix:291`). A request's path does too, but for the `*` of `OPTIONS`;
`OneCredentialEach` does not assume it. The assumptions on constants are of the
same kind: a server name and a pattern are sequences of labels
(`HelloAssumption`, `PatternAssumption`), a path and an entry are sequences of
characters (`RequestAssumption`, `AllowAssumption`), and the credentials of a
sandbox are finitely many (`CredentialAssumption`). The number of journal lines
that `status` reads is any (`JournalAssumption`).

The arguments. None of the properties is inductive.

- `TypeInv` adds `Opened` to `TypeOK`: a copy has its source open, a rename's
  target is a checkpoint, and the image is never missing.
- `LockInv` adds to `TmpOwned` that a restore's target is the image, so that its
  staging is no `.tmp` of the directory.
- `KeptInv` adds `Kinds`: a name keeps the kind of its label, `checkpointLabel`
  takes only the bare words of the pruned kinds, and listings hold pruned kinds
  only. Then the set a stale listing removes and the set operators keep are
  disjoint.
- `WholeInv` follows a disk from source to name. `Inodes`: no inode has two
  paths, so writing a `.tmp` changes no file, now or where a crash would lead;
  `StableInodes` says the same of the paths a crash restores. `Units`: the guest
  is gone while the ExecStopPost runs, and a guest that is not `early` has the
  image open, for a restore beside it that has asked for the stop still waits for
  its job. `Aside`: a running guest,
  also an early one, writes to no copy, no checkpoint and nothing a restore
  reads. `Sources`: what a process has open is a whole disk which no copy is
  written to, which a restore chose, and which does not change under a plain
  copy. `Copies`: a completed copy is whole, and durable before the rename.
  `StableWhole`: what a crash would leave under a name is whole, because no
  rename precedes its fsync. `OwnTargets`, from the lock and `OneRestore`, says
  that no two processes stage in one path. The step is split by what it does to
  files: it only unlinks (`Quiet`), fills a copy (`Puts`), syncs, installs,
  commits, or it is the guest or the crash.
- The refinement adds `FreeInv`: a name is free from the sweep's exists check
  until the rename, since only the holder of the flock installs names. So a
  rename is a `Take` of a whole disk, and a restore's rename an `Install` of what
  its `Choose` took, whether a guest runs or not. A commit is a `Settle`, a crash
  of the host a `Crash`, since what `stable` names is whole; starts, stops and
  ends of restores are a `Turn`, and every other step leaves the store alone.
- `RetainInv`: a name that was made and is gone is outdated (`Keep` newer of its
  kind were made) or was removed, and so is what any prune has listed. It needs
  neither lock nor fresh stamp: being outdated lasts, because `made` only grows
  between crashes, so a listing can be as stale as it likes; and a crash, which
  ends every listing, returns names and history to one earlier moment
  (`RetainSettled`).
- `FewLeft`: what is present and not listed by a writer that prunes is at most
  `Keep` of a kind. That holds at the listing by counting (the oldest name that
  is not listed has fewer than `Keep` newer ones), and after it because the
  writer holds the flock, under which no one else adds a name.
- `SavedInv` follows the disk the ExecStopPost saved. `SavedSince(t)`: every stop
  checkpoint stamped after `t` holds the image's disk, and every one being made
  will. It holds of the ExecStopPost's own stamp from the start, since stamps are
  never of the future (`Past`), if the guest that stopped was not `early`
  (`Stopping`), and lasts as long as the guest is gone and no restore installs.
  `Spare`: what a prune will unlink has a newer one that no one listed, so that
  one stop checkpoint after `t` is always left (`Saved`), though perhaps not the
  one that set `saved`.
- `RateInv` relates tokens spent and tokens held to the refill up to the last
  take, from any moment chosen for measuring; the bucket's cap at the burst only
  loses tokens. The products of rate and time are kept behind lemmas.
- `FitInv` says that a stream that waits has exactly one exchange under way with
  its resolver, and that otherwise none is (`OneUnderWay`): the reason why
  `relayStream` gives up a connection whose answer it did not read.
- `SlotInv`: each channel of slots counts the goroutines on its road, as finite
  sets, since a step starts one, ends one or neither (`OneMoves`).
- `PaidInv` counts what the resolver was asked together with what it is about to
  be asked (`Due`), because the token is spent before the query is sent.
- `ConnectionInv`: what was delivered of a side is what was taken off its socket
  less what is to be replayed (`Replaying`, `Streams`); the addresses still to
  dial are public ones and the verdict was to allow (`Dialling`); and a copy of
  an unbroken splice stops only when its side is drained (`Splicing`). `Routed`
  adds that a verdict was made on the whole hello and stays. That
  `IsStrictSuffix` reads the labels from the end as a name reads below its base
  is a lemma, with the sum over the records of a hello.
- `HandlerInv`: the slots count the handlers that run (`Running`); nothing of a
  request is sent or seen before its judgement, and a sent one passed it
  (`JudgedAt`), with the value in the header and, of a credential that is
  substituted, where the guest put its placeholder. Hence an escaped form comes
  only from there (`EchoesGot`), and what each place lets through of an echo is
  what `EchoScrubbed` allows (`ScrubbedEcho`). `OneCredential` follows with the
  theorems about the entries, `PatternMatchesAsRead` and `DotSegmentsAsRead`.
- `PatternMatchesAsRead`: the states the expression reaches after a part are, by
  induction along the pattern, the ends of the placements of the parts so far.
  The induction is along one sequence that is fixed, as a set of numbers that is
  closed under successor, and needs no induction theorem with an operator.
- `PoolInv`: the lock of a key is held by the request that expires or opens its
  session, and then the key has none (`Locked`); a request uses a session of its
  own sandbox (`Keyed`); one that waits for a release waits for a session that
  was released, and one that has none to use holds none (`Waiting`); a session a
  cancelled request left behind is no key's and no other request's (`Left`) and
  remains so, since only its key's holders touch a session (`LostStays`); one
  that was not released is its key's, is being opened by the lock's holder, or
  was left behind (`Owned`); and a request was sent no more often than it has
  begun attempts (`Counted`). It is kept by every step of the pool and by every
  step of the door, so it holds of both specifications.
- `DoorInv`: `opening` counts the clients inside `handle_request`, so the limit,
  checked before a slot is taken, bounds transports registered and to come.
- `OutputTag`, `ForwardTag` and `InputTag` turn a chain into the tag it gives,
  once: the first of the rows that matches. Everything about packets cites them.
- `NetworkInv` has a part for each thing that outlives a rebuild. `Tracking`: the
  kernel knows a connection once, by a packet that opened it, and sends it where
  some configuration, not the one in force, redirected it. With it `GrantsDecide`
  is a matter of one packet under one configuration (`Decides`), chain by chain.
  `Lines`: a line's tag says which chain wrote it and so who sent the packet, and
  its port is the packet's own but for a redirect (`About`); so a port below
  32768 is no door's and no reply's, and a hint built from the line is about the
  packet. From there `HintsAdmit` is a matter of one packet, one hint and one
  configuration (`Right`), hint by hint, and of what `Valid` says of one more
  name (`NameIsValid`). `Counting`: what passed since the ruleset was loaded left
  the counter of its destination, of the open grant or of the host's ports, or it
  was at a door and neither its connection nor a redirect will take it to a
  granted port (`CountedAs`). The last clause is what a connection that expires,
  and comes back with another port, would break.
- `UnusedIsSafe` then needs that taking a grant away only ever closes doors
  (`WithoutIsLesser`), so that a redirect that goes leaves other packets where
  they were; and for names, that only the verdict an unused entry could have
  given depends on it (`VerdictIsSafe`).

Each of these invariants was checked with TLC on the instance of its component's
run before it was proved; `NetworkInv` also with three ports of the host, two of
which are a door's and the one replies go to.

Only model-checked: `RulesAgree`, which compares the operators of `AllowRules`
with what an entry reads on bounded inputs when a request is judged. Its content
is proved for every entry and path (`EntriesAgree`).

Out of the prover's reach, and left to TLC: liveness under fairness
(`WritersEnd`, `RestoresEnd`, `RequestsEnd`, `CallsEnd`, `SlotsReturn`,
`ConnectionsEnd`).

## Plan

1. Done: the modules above, their runs, the refinement of `CheckpointStore`, and
   the proofs above.
2. Done: every safety property the passing runs check is proved for all
   constants, or, for `RulesAgree`, its content is.
3. Open: the parts listed below. What would pay first is the order of units at a
   start of the guest, with systemd's jobs as an external module.

## Not modelled

The secrets relay and the trust unit: what they do over time is systemd's job
engine (a socket pulled in by `Wants` at each start, `PartOf`, a `--no-block`
stop), and a model of it would be of systemd. The tool permissions of the mcp
gateway, and the rendering of status, list and logs. `answerDNS` keeps no state.
The certificate authority of the egress unit, the guest image, the hardening of
units and the rest of the evaluation of options by nix are configuration or
cryptography. In `Network`: ipv6, which every chain drops first, the masquerade,
the host's replies, and the moments inside a rebuild, which is one step. In the
modelled parts: the btrfs attribute `stage` carries over, file ownership,
symlinks in a directory the sandbox's user owns, messages' bytes, and the pool's
shutdown.
