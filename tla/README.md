# A verification model of netplug-wireguard

TLA+ modules, TLC runs and TLAPS proofs about netplug, the web panel that keeps
a WireGuard server, its accounts and their quotas. The modules are translated
from the Go code; `PROJECT.json` maps every definition to the lines it stands
for and lists the runs, the mutants, the hazards and the theorems.

## The system

netplug is one process. SQLite, opened with a single connection, is its only
durable state besides `wg0.conf`. Around it:

| part | state it keeps | what it does | what makes it correct |
|---|---|---|---|
| handlers (`internal/app`) | none: each request reads and writes the database statement by statement, concurrently with the others | write rows, then *push*: `WriteWireGuardConfig`, then `wg syncconf` or `wg-quick down/up`; then reconcile queues and DNS | after the last request, files and interface follow the rows |
| syncer (`wireguard/syncer.go`) | none between ticks | every few seconds dumps the interface and, in one transaction, books traffic and days and switches accounts on and off | no byte or day is charged twice; used-up accounts are disabled; only they, and only until they are renewed |
| config and interface control (`wireguard/config.go`, `apply.go`, `state.go`) | `wg0.conf`, its temporary files, the interface | renders the rows, renames the file into place, loads it | the file is one whole snapshot of the rows |
| queues (`internal/pcq`) | the tc qdiscs, a mutex | loads the limits of all groups, merges them, rebuilds the qdiscs | the least limit wins; no old limit survives a change |
| DNS manager (`internal/dns`, `wireguard/dns_*.go`) | the CoreDNS child, a mutex, an alias address on the host | restarts the child from the database | at most one child; it runs if and only if it is enabled |
| backup and restore (`wireguard/backup.go`) | none | replaces settings, server, peers, groups | a restored system equals the backup |
| setup, login, import (`app/handlers.go`) | `system_config`, `users` | first-run wizard | one administrator; the wizard closes behind itself |
| address allocation (`wireguard/peers.go`) | none | the first free address of the range | no two peers share an address |
| schema, views, assets, version, client configurations | - | migrations, pages, text | not modelled, see `PROJECT.json` |

The parts interact through the rows, through `wg0.conf` and through the kernel's
interface; there are no messages. What makes that hard:

* the syncer compares a *dump* with rows that may be newer than it;
* the kernel's transfer counters restart at zero whenever a peer is removed and
  added, its key changes, or the interface goes down;
* a write and its push are separate steps, with requests, the syncer and crashes
  in between, and every external command can fail;
* the syncer changes rows and pushes nothing;
* tc is rebuilt by a list of commands, not atomically;
* clocks: whole days are charged by irregular checks.

`PROJECT.json` lists each hazard at its line with the properties that watch it.

## Modules

| module | what it is |
|---|---|
| `Meter` | what the metering promises: a reading adds to a meter only traffic that flowed and takes exactly that from the quota |
| `PeerSync` | the syncer, the administrator's requests and the push, over rows, `wg0.conf` and the interface; implements `Meter` |
| `MCPeerSync` | `PeerSync` for TLC |
| `PeerSyncRenewal` | `PeerSync` with a history of the days an account was renewed for |
| `PeerSyncProofs` | the theorems about both |
| `Push` | what a push promises: what is written, and what reaches the interface, moves from one snapshot of the rows to a newer one |
| `ConfigApply` | several pushes at once, file operation by file operation, on `wg0.conf` and its two temporary files; implements `Push` |
| `MCConfigApply` | `ConfigApply` for TLC, with its symmetry, its view and its bound |
| `ConfigApplyProofs` | the theorems about it |
| `PcqLimits` | `LoadPeerLimits`: the scan that merges presets into one limit per address |
| `PcqApply` | groups, memberships, presets, the requests that change them, and `pcq.Apply` with its lock and its commands |
| `MCPcqApply` | `PcqApply` for TLC, with its bound |
| `PcqLimitsProofs`, `PcqApplyProofs` | the theorems about the queues |
| `DnsManager` | the CoreDNS child, its watchers, the manager's lock, and the requests that apply the DNS settings; implements `Supervisor` |
| `Supervisor` | what the manager promises: one server or none, which answers from rows that somebody has read and ends before the next is started |
| `DnsContent` | which answers the generated files give, and which the rows want |
| `DnsService` | `DnsManager` and `DnsContent` together: what clients are answered |
| `MCDnsManager` | `DnsService` for TLC, with its symmetry and a tree of three domains |
| `DnsManagerProofs`, `DnsServiceProofs` | the theorems about them |
| `Backup` | backing up and restoring, statement by statement, beside the requests that write the same tables |
| `MCBackup` | `Backup` for TLC, with its symmetry and its two bounds |
| `BackupProofs` | the theorems about it |
| `Provisioning` | from an empty database to accounts with addresses: first administrator, wizard, import, restore, allocation of addresses |
| `MCProvisioning` | `Provisioning` for TLC, with its symmetry |
| `ProvisioningProofs` | the theorems about it |

### PeerSync

A row `user[u]` has the columns the syncer decides by: key, switch, `stored` (the
counters `bytes_received`, `bytes_sent` of the last dump), `total`
(`total_bytes_*`: earlier lives of the counters), `days`, `quota`, `lastCheck`.
`conf` is the peer list of `wg0.conf`, `wg` the peers of the interface with their
counters, `dump` what the syncer holds between `wg show dump` and its
transaction. `admin` says how far the one administrator's request has got:
write the file, load it, take the interface down, bring it up. Each handler is
one action (`UserCreate`, `UserUpdate`, `UserToggle`, `UserDelete`,
`WireGuardPost`), each step of the push is one (`WriteConfig`, `LoadConfig`,
`TakeDown`, and their failures), and so are the syncer's dump and its
transaction (`SyncDump`, `SyncCommit`, `SyncAbort`). `SyncedRow` is the loop body of
`syncOnce`. `Transfer`, `InterfaceLost` and `Tick` are the world; `Restart` is a
crash followed by `main`'s reload. `carried` and `charged` are history.

Rates, handshakes and the connected flag are for display and left out. Keys are
distinct between accounts: the handlers generate them, and two accounts that
are given the same private key by hand are not modelled. Quotas are naturals; that
a number of megabytes times 2^20 wraps when it is large enough (handlers.go:1147) is left out.
The rows that a restore writes are left out too: it gives an account other counters, days
and quota at once, and `SettledHolds` takes it for a request for the accounts it names.

`MCPeerSync` looks at bytes and at hours apart (`OneLimit`): a commit charges the
quota and the days of a row side by side, and they meet in `Spent` only, where either
is enough. Bytes are carried in the first hour, by accounts without days (`Bytes`); hours
pass while nothing is carried, for accounts without a quota (`Hours`). Two bytes flow
where a key changes, a third where none does.

`PeerSyncRenewal` watches renewals: `paidUntil[u]` is the hour an account's days were
to last to when they were entered, `unseen[u]` how many hours the last check then lay
back. `RenewalLasts` is what an administrator expects, and is violated;
`RenewalLosesUnseen` is what is left of it.

### ConfigApply

`PeerSync` has one administrator, whose pushes nobody disturbs. `ConfigApply` says
what that rests on. `db` is the rows, as two versions: of the settings, which the
[Interface] section shows, and of the peers. `file` has the texts of `wg0.conf`
(`"conf"`), `wg0.conf.tmp` (`"tmp"`) and `wg0.conf.peers.tmp` (`"peers"`): a snapshot of the rows,
`Empty` after a truncation, or `Torn` when two writers have met or one has stopped. `live`
is the interface, whose settings and peers may come from different files. `pc`,
`mode` and `buf` follow each request from its handler (`UserPost`, `SetupPost`, `WireGuardSavePost`, ...)
through `WriteWireGuardConfig` (`ReadSettings`, `ReadPeers`, `OpenTmp`, `FillTmp`, `Rename`)
and then `syncconf` (`Strip`, `OpenCopy`, `FillCopy`, `Syncconf`, `Remove`) or `wg-quick` (`Down`,
`Up`). `os.WriteFile` is two steps, for it truncates what it opens; `at[p]` is the
name of the file `p` has open *now*, since `rename` takes open files with it and
leaves those that bore the name without one (`Moved`). `WriteFails` and `LoadFails` are all
failures; a save goes on after a failed write, as `SaveWireGuardState` does.

Nothing syncs the files or their directory either, so the disk may be behind. `kept` is
the older text of `wg0.conf` that it may still have: a `Rename` replaces it by the text
that loses its name, or leaves it, when not even that one had reached the disk. A stop of the
host (`HostDies`) leaves the file as it was, undoes the renames (`kept` comes back), or keeps
the name and loses the text (`Empty`, `Torn`). `was` is history: what the file said before
such a stop, until it is written again.

Nothing locks the files, so the code promises less than a reader may think, and two more
history variables say how much less. `suspect` has the names of files that may not
have been written by one push alone, or whose text a stop of the host may have taken.
`missed` is why file and interface may differ from the rows: failures, pushes that
overlapped, the syncer, and new settings that wait for a restart; a push that begins
to read while no other pushes empties it (`MakesUp`).

`Push` is the same seen from outside, without temporary files, copies or requests:
the rows grow, `conf` is replaced by rows that somebody has read, none older than the
ones written before (`last`), `wg` gets the peers of the file that is there, or is made from
it. A stop of the host (`Crash`) may take the text of `conf` or bring older rows back, so
`conf` and `last` part; but `wg` is only given a `conf` that is `last`, which says that main
writes the file anew before anything is loaded. All of this holds while the system is
`calm`, that is, since a push began alone and as long as none overlaps or fails; otherwise
(`Troubled`) file and interface may become anything.
The mapping is in `ConfigApply`: `calm` is that `missed` has neither `"overlap"` nor
`"failure"`, `last` is `Last`: `was`, if the host has stopped since, or else the file.

`MCConfigApply` has a `View`: what `wg0.conf.tmp` or the copy says while nobody writes it,
will rename it or will read it makes no difference to any later step, since the next
one to open it truncates it, so states that differ in nothing else are one.

### PcqLimits and PcqApply

`PcqLimits` scans any rows in any order, with every column NULL or a number, and
keeps `out`, the map of the Go code. In `PcqApply` the result of that scan is the
operator `Limit`, the database is `account`, `groups`, `member`, `preset`, and `tc` is
the pair of qdiscs, each NULL or a function from users to limits. `pc` follows
every request through its statements, its push, the wait for `applyMu` and the
commands of the plan, with `want` and `left` as the locals of `Apply`; a class and
its filter are one command. The process `Main` is the start of the daemon, which
reconciles before it serves. `missed` is history: why the interface may lag
behind the presets. It is emptied when `Apply` loads the limits, and filled by
what never reconciles: a failed push or command, a bulk add that fails half
way, the syncer, the deletion of a group, an interface lost behind the
program's back. A group's limits are taken after its classifier; the merge of
several groups is `PcqLimits`' subject.

### DnsManager

The database is `row` (`dns_settings`: the switch and the resolver address),
`records` (rewrites and rules) and `configured` (the WireGuard server has an
address); the host is `up` and `alias`, the interface and the addresses on it. `mu`
and `cmd` are the manager's lock and child; `serves[k]` says what a living process
answers from. `pc` follows a request through its write (`DNSSavePost`,
`DNSRecordPost`, `DNSReloadPost`, `WireGuardPost`), its push, the reads of
`ApplyFromDB` before the lock (`Read`, `Ensure`, `List`), `stopLocked` (`NoChild`,
`Signal`, `StopWaits`, `StopReceives`), and then either `Unalias` or `AddAlias` and
`Exec`; `ApplyFails` is any of them failing. `Main` is the start of the daemon.

`stopLocked` and `watchProcess` both call `Wait` on one `exec.Cmd`. The output of
CoreDNS goes to `io.Discard`, so `os/exec` copies it in a goroutine that reports its
end once, over a channel; `pipe[k]` is that report. Each caller learns that the process
has ended, looks whether there is a report to wait for, and receives it: whoever
looks too early and receives too late waits for ever. `WatchWaits` and
`WatchReceives`, `StopWaits` and `StopReceives` are these steps.

`missed` is history: why the child may differ from the database. It is emptied
when settings are read, and filled by failures, crashes, by a request that takes the
lock after one that read later (`stale`, from `ahead` and `late`), and by a generated
address stored over newer settings (`overwrite`). `Restart` ends the child with
the daemon, as their container does. `Kids` bounds the processes: a request takes
the lock only when one is free (`Room`). `RestorePost` is the end of a restore, which
takes the interface down and calls no `ApplyFromDB`; it counts as a failure. Whether
an address is the client's or the listening one is left out.

`Supervisor` is the manager without processes, watchers, lock or requests. `drafts` are
settings that call for a server and still need an address and the records, `plans` are
what is to be answered from (or NULL, for no server), `answers` is what is answered from. Somebody
reads, plans, stops what answers, and only then starts what was planned or stays off;
whoever has a draft or a plan is `busy`, and when the last one is done and all went
well the answers are those of the rows (`Done`). In the mapping each request brings the
draft or the plan it holds at its step (`Drafting`, `Planning`), `answers` are those of the living
processes, and all is `calm` when nothing was missed. An end that `stopLocked` has asked for
is `Stop`; any other, a failure, a late lock and a lost interface are `Trouble`, after which
only the one who reads next is bound to do it right.

### DnsContent and DnsService

What the files say is a function of the rows. `DnsContent` has the rows (`Rewrite`,
`Rule`), where `WriteHostsFile`, `prepareRewriteZones` and `CollectBlockedDomains` put them (`HostLines`,
`ZoneRecords`, `Zones`, `Blocked`), and what each server block of the Corefile answers
(`RootAnswer`, `ZoneAnswer`). A name is a node in a tree: `Parent` is the name without
its first label, which is all that `SplitRewriteDomain` does with it. Against this
stands what the page says of the rows, without files: `Forbidden`, `Overrides`, `Wanted`.
`DnsService` gives each row of `DnsManager` any content, so that `AnswersFollowRows` speaks
of clients: once a quiet system has missed nothing, they are answered as the rows want.

CoreDNS is external, and two things are to be known about it.

* A block for a zone answers for all names in the zone and forwards nothing.
  `prepareRewriteZones` makes one for the domain *above* each rewrite that is no
  address: a TXT rewrite for `a.example.com` takes over `example.com`, with the block
  list, the address rewrites and the resolvers gone for all of it. `AnswersFollowRows`
  is claimed where no zone is in the way, and for the rewrites that have made the
  innermost zone (`InReach`).
* The Corefile may be one that CoreDNS does not accept: `renderCorefile` names the plugin
  `hosts` twice when there are both blocked names and address rewrites, and
  `WriteZoneFile` gives a zone an SOA only if it has no other record. A child that ends at
  once after its start is the action `Exit`, possible at any time, and `missed` then
  has `"crash"`; `Answer` says what a child answers that accepts its files.

### Backup

The database is `settings`, `key`, `peer`, `groups`, `member` and `preset`, one variable
for each table; `file[p]` is the backup that request `p` writes or restores, `shelf` the
one that the administrator has, `job[p]` the loop over groups and members. An
export reads a table by a statement (`ExportSettings` to `ExportGroups`) and the
presets one by one (`ExportPreset`). A restore writes the settings, the server, then
in one transaction the accounts, having emptied the tables it was told to replace
(`RestoreTables`), and then each group, each member and each preset
(`RestoreGroup`, `RestoreMember`, `RestorePreset`). The transaction is one step,
because the pool has one connection and the transaction holds it. `Fail` is a failure or
a crash between any two statements.

Names stand for ids, for a file has no ids. Of an account the model keeps the two
keys, since `restorePeer` merges the private key with the row it replaces and
overwrites the rest. `last_day_check`, the icon and the tables of the DNS are in no backup.
The other requests write statement by statement (`UserSave`, `UserRename`,
`UserChange`, `GroupDelete`, and so on) at any moment. `alone` is history: whom nobody
has written beside. Of the others nothing is promised: their copies may mix two
states of the database.

### Provisioning

`admins`, `config`, `server` and `addr` are the tables `users`, `system_config`, `vpn_servers`
and `vpn_users`. A `Config` stands for a whole form; of its fields the model looks at the
clients' range and the gateway. `server` names the form whose host and port the
server's row has. `pc[p]` is where request `p` is and `form[p]` what it was sent or has
read. The steps are the statements: `SetupAdminPost`, `CountAdmins`, `InsertAdmin`; for
both wizards the check (`Submit`), `WriteSettings`, `WriteServer`, then `ImportPeer` for
each peer of a file; `WireGuardSave` and `SaveServer`, which only updates a server;
`ReadRange` and `NextClientAllowedIP`, after which a form may stay open as long as it
likes, or `Type`, an address written by hand; `UserCreate`; and the restore of a backup:
`RestoreSettings`, `RestoreServer`, which inserts a server only if the file has no key for
it, and the transaction of the accounts (`RestorePeers`). A backup is any set of accounts
with addresses that this system could have had, with those of them that were `loose` then; its
accounts replace the ones there are or are put over them, account by account. Its keys
and groups are `Backup`'s subject, its push is `ConfigApply`'s. `Fail` ends a request at any
step, `Restart` all of them, and `BootstrapAdmin` runs before the daemon serves again.
A session is possible for whoever wants one once there is an administrator. A form
that changes an account keeps its first address and is no action here; the other
entries of `allowed_ips` are left out, as `NextClientAllowedIP` leaves them out.

The code checks first and writes later, without a transaction, so requests
overtake each other. `misled` is history: the requests whose last check is out
of date, because another one has written since, or failed and was taken for a
"no" or a zero. The properties say that nothing goes wrong but by these: `extra` and
`loose` are the rows such requests insert, `torn` says that settings and server
were not written by one undisturbed request. `loose` has three more kinds of accounts,
whose addresses nobody has compared with the others: imported ones, typed ones, and those
that a restore beside the present accounts has given another address than they had. An
account that is deleted leaves its address to whoever asks next, and such a restore brings
it back with that address: two accounts have one.

## Runs

| run | properties | shows | bounds, and why they are enough |
|---|---|---|---|
| `peersync` | `TypeOK`, `NoOvercount`, `AccountInv`, `NoDayChargedTwice`, `DaysInv`, `MeterSpec`, `ExhaustedIsDisabled`, `SettledHolds` | no byte and no hour is booked twice; the rows implement `Meter`; a quota or days that are used up are noticed; a disabled account that left file, interface and dump stays off until a request for it | one account, since accounts do not meet in the accounting; two bytes a direction, quota 2: a counter can restart below, at and above the stored value, which is all that `CounterReset` tells apart; 64 hours in steps of 16, so that checks fall before, on and after whole days; `OneLimit`: bytes or hours, and two bytes, or three where the key stays |
| `peersync_disable` | `DisableSticks` (violated) | a dump older than the push re-enables a disabled account | the shortest instance |
| `peersync_cut` | `DisabledIsCut` (violated) | an account that the syncer disables is served until somebody pushes, under full fairness | the shortest instance |
| `peersync_renewal` | `RenewalLasts` (violated) | a renewed account pays for the days before its renewal | the shortest instance |
| `config_apply` | `TypeOK`, `WholeFile`, `InSync`, `Forward`, `PushSpec` | `wg0.conf` is the whole text of one push; a quiet system that missed nothing has files and interface as the rows say; no push brings older rows back, and what a stop of the host brings back is replaced by rows no older than those it has undone; the file operations implement `Push` | two pushes meet at every pair of file operations, and the start of the daemon follows a crash at any; one change of each kind of rows makes an older and a newer text; `OneReason`: of failures, overlaps and the syncer one kind awaits a push at a time, besides new settings; what the disk may bring back is any text before the last rename |
| `pcq_apply` | `TypeOK`, `InSync`, `LimitsBind`, `Unmixed`, `EveryRequestEnds` | two concurrent requests, restarts, the syncer and failures everywhere leave no old limits, and never limits of two loads; what limits a peer is a preset that is on, of a group that exists, for an enabled member; no request hangs | two requests contend for the lock while a third party writes; one user limited in both directions reaches every command and every partial plan between them; `OneReason`: gaps of one kind at a time. That the lowest of several presets wins is seen by `pcq_limits` and proved for any number (`MinimumBinds`) |
| `pcq_limits` | `MinimumWins` | the least limit wins in any order | two rows over NULL, 1 and 2: the merge compares two values at a time |
| `dns_manager` | `TypeOK`, `OneChild`, `EndReachesManager`, `InSync`, `AnswersFollowRows`, `EmbraceLasts`, `SupervisorSpec` | no CoreDNS runs that the manager has forgotten, and none that has ended stays unnoticed; a stop that waits in vain waits for the watcher, and for ever; a quiet system that missed nothing runs it as the rows say, and clients are answered what they want; all of it together implements `Supervisor` | two requests overtake each other, two processes are an old child and its successor; one typed address besides the server's and the fallback has all three kinds of address; two rows of any content can block and allow one name, or rewrite it with two types; three domains in a line, the innermost on a block list, have a zone at, above and below a name; `OneReason`: gaps of one kind at a time; `AloneAfterFailure`: from a failure to the next reading of the settings one request is served |
| `dns_hang` | `EveryRequestEnds` (violated) | a stop that waits for a report the watcher took | one request at a time is enough |
| `backup` | `TypeOK`, `BackupIsSnapshot`, `RestoreIsFaithful`, `OnlyMergesPart` | an undisturbed backup is the database, an undisturbed restore is the backup; disturbed ones leave no dangling row; only the merge of a restored row parts a key pair | one request walks through saves, exports and restores while single statements of all others fall between its steps; two accounts can be in the file, in the database, in both; `OneBackup`: once a backup exists no other is taken, since a second one would only be another file; `OwnPairs`: no two accounts have one pair |
| `backup_keys` | `KeysMatch` (violated) | a restore pairs a new private key with an old public key | the shortest instance |
| `provisioning` | `TypeOK`, `OneAdmin`, `DistinctAddresses`, `ServerMatches`, `WizardIsUsedOnce` | what a request has checked still holds when it writes, unless it was misled, also beside and after restores of backups | two requests: one is overtaken by the other at every step; two administrators, two accounts and two addresses are what it takes to have one too many or one twice, and with one as the gateway the range runs out |

Every property of a passing run has a mutant, a plausible mistake in the code,
that breaks it.

The bounds `OneReason` speak of `missed`, a history that no guard reads: they cut
behaviours in which gaps of two kinds are open at once, where the properties, which
ask whether there is any gap, promise nothing. They also leave such behaviours out of
`EveryRequestEnds` in `pcq_apply`, where a second gap is one more statement that has
failed.

`AloneAfterFailure` is about the same history: it cuts behaviours in which two requests are
under way after a failure, before anybody has read the settings again. Two requests
after a crash of the child, a late lock or an overwritten address remain. Every property of
`dns_manager` is a theorem as well, and the theorems need neither bound.

**Fairness.** `SyncFairness`: the ticker of `loop` (syncer.go:58-73) fires for ever,
and a failed transaction is tried again at the next tick, so a commit that is
possible again and again happens (strong fairness). `PushFairness`, used only in
`peersync_cut`: a push that was begun is carried on, for each command has a
timeout, and does not fail for ever. `PcqApply!Fairness`: a request in progress
takes its next step, since statements and commands return, and `sync.Mutex` hands
itself to one who waits long enough (strong fairness of `Lock`). `DnsManager!Fairness` is the same, and a child that was
told to end does (it is killed after five seconds) and its watcher runs. Nothing is assumed
about administrators, traffic, clocks, failures or crashes.

## Proofs

TLC checks the instances above; TLAPS proves the following for all values of the
constants, from the assumptions of the modules only (numbers are naturals,
NULL is none of them, `Main` is not a request).

* `PeerSyncProofs`: `TypeCorrect`; `NeverOvercounts`; `AccountingIsSound`;
  `DaysAreChargedOnce`; `ChecksFollowCharges`; `SettledAccountsStay`; `ImplementsMeter`;
  `RenewalsLoseNoMore`.
  `NoOvercount` is not inductive: whether `total + stored` may grow depends on which
  life of the counters a dump shows. `AccountInv` adds that. With `Base` the bytes
  of earlier lives, either the row fits below `Base` altogether (its peer has been
  replaced since it was synced), or `total` fits below `Base` and `stored` below the
  counter; and the dump in the syncer's hands is an earlier moment of the present
  life or belongs to an earlier one. A reset that is detected moves the row from
  the first case to the second; a reset that is *missed*, because the new
  counter has already passed the stored value, loses bytes and never invents any.
  For the days, `charged` is at most `lastCheck`, and `lastCheck` at most `now`
  (`ChecksFollowCharges`).
  `ImplementsMeter` maps each step to a step of `Meter` or a stutter.
  `RenewalsLoseNoMore` is about `PeerSyncRenewal`: an account runs out no earlier than it was
  paid for, less the hours that lay between the last check and the renewal. No run of
  these checks it, for the loss it bounds is the violated `RenewalLasts`. Its invariant
  `RenewalInv` is that the days left, counted from the last check, reach the paid hour; a
  check keeps that, since it never takes more whole days than it moves `lastCheck`.
* `ConfigApplyProofs`: `TypeCorrect`, `FileIsWhole`, `FollowsRows`, `GoesForward`,
  `ImplementsPush`. The
  invariant grows in layers. `OpenInv`: who has which file open, at which step, and with
  what to write. `WholeInv`: as long as `wg0.conf.tmp` is not suspect, only one request
  is between its opening and its renaming, and the file is whole once that request has
  written it; so what is renamed is whole, and so is what the disk has
  `kept` of it. `BoundInv`: no file, buffer or interface is ahead of the rows. `AloneInv`: while no overlap has been recorded at most one request
  pushes, and what it holds is at least as new as what is there and as what was there
  before the host stopped (`Last`); `GoesForward` needs no more than this, and so claims of
  a stop of the host only that the rows it has undone are not undercut afterwards.
  `CleanInv` and `SettingsInv` say how far that one request has got: up to its renaming the file may be old, up to its loading the interface may be, and
  afterwards both are what the rows say. `ImplementsPush` goes through the steps once more:
  truncating, filling and copying are stutters of `Push`, a renaming is its `Write`, a
  `Syncconf` its `Load`, and whatever happens outside the calm is `Troubled`. It needs
  `LoadInv`: in the calm a request that loads has the file of the rows before it, which the host
  has not stopped since (`was` is NULL), and its stripped copy is that file.
* `PcqLimitsProofs`: `MinimumAlwaysWins`, by the lemma that `MergeMin` keeps "the least
  of the limits so far, or 0" when a value is added.
* `PcqApplyProofs`: `TypeCorrect`, `OneAtATime`, `InterfaceFollowsPresets`,
  `MinimumBinds`, `LimitsAreOfOneLoad`. `InSync`
  speaks about quiet states only; `SyncInv` speaks about all: when nothing was
  missed and nobody is still to load, then either nobody holds the lock and the
  interface is right, or the holder has loaded what the database says now, and
  what stands on the interface is exactly the part of its plan that it has run
  (`Built`). The argument is that whoever changes the database or the interface is
  pending until it loads, and it can only load after the present holder is done.
  `MinimumBinds` says what the right interface means to a peer, without `Limit`: the
  limits that bind are those of groups that exist, for which members and presets must go with
  their group whoever adds members or toggles meanwhile (`RowsInv`); the least of them
  exists because every set of naturals has one (`NatMin`, by well-founded minimality).
  `LimitsAreOfOneLoad` speaks of the states in between and needs no history: from the
  deletions on, each direction is empty or a part of what the builder has loaded (`MixInv`),
  through lost interfaces, restarts and failures, because only the holder of the lock
  adds to it.
* `DnsManagerProofs`: `TypeCorrect`, `AtMostOneChild`, `ChildFollowsDatabase`,
  `EndIsNoticed`, `StuckForGood`, `ImplementsSupervisor`. The
  invariant adds to the types: who holds the lock (`LockInv`), that a plan being
  carried out has an address and is switched on (`PlanInv`), what a process and
  its watcher may be doing, and that only the child lives (`ChildInv`), and who has
  read before whom (`LateInv`). `SyncInv` says, of all states, what `InSync` says of
  quiet ones: when nothing was missed, nobody is late for the lock and nobody is
  still to read, then the last one that read knows what the database says now; if
  nobody waits for the lock, its holder knows it; and if nobody holds it, the child
  matches. Whoever enters the lock last is thus the one that knows.
  `EndIsNoticed` and `StuckForGood` are the safe part of finding 4: while the manager has
  a child whose report was read, its watcher has read it (`EndReachesManager`); so a stop
  that waits for a report that is gone holds the lock for which that watcher waits
  (`Embrace`), and no step of anybody but a new start of the daemon ends it. That
  somebody gets there is what the run `dns_hang` shows.
  `ImplementsSupervisor` maps each step to one of `Supervisor` or to a stutter. The drafts and
  the plans are split into one request's share and those of the others (`Shares`,
  `SharesNext`), so a step has to account for its own share only, and one that keeps it is
  unseen (`Unseen`); what others share is never lost, which is why an abstract plan may stay
  when one of its owners is done. That nothing lives when a child is started is `ChildInv`, and
  that the last to leave leaves the right answers is `InSync` after the step.
* `DnsServiceProofs`: `AnswersAsWanted`, about `DnsContent` alone, for any tree of domains and
  any rows: outside all zones the hosts files have exactly the rewrites of a name,
  and a zone that lies innermost has exactly those of its names that are no addresses.
  That the innermost zone is unique needs that two names do not lie in each
  other (`TreeAssumption`). `ClientsAreAnswered` joins it with `ChildFollowsDatabase`.
* `BackupProofs`: `TypeCorrect`, `BackupsAreSnapshots`, `RestoresAreFaithful`,
  `OnlyMergesPartPairs`, `KeysMatchUntilMerged`. What
  the properties say of a request that has finished is an instance of what holds at
  each of its steps while it is alone: `Copied(p)`, the part of the file that `p` has
  read is what the tables say, and `Rebuilt(p)`, the tables that `p` has written say
  what its file does, except for the group it is at. `FileInv` is about
  the files: a file that is finished has memberships and presets of its own groups only,
  without which a restore that replaces the groups could not be shown to leave nothing else.
  A write by anybody else empties `alone`, so each step has to be shown for its own
  request only. `OnlyMergesPartPairs` says where finding 5 comes from and that it comes from
  nowhere else: when the pairs of all rows and files match, every step keeps them so,
  but for a restore that keeps a row with a private key and whose file has none for it
  (`Merges`). As long as that is not done the keys match (`KeysMatchUntilMerged`).
* `ProvisioningProofs`: `TypeCorrect`, `OneAdministrator`, `AddressesAreDistinct`,
  `ServerFollowsSettings`, `WizardIsClosed`. Each invariant says of the requests that were
  not misled what they know at the step they are at: before the insert there is no
  administrator (`AdminInv`), before the settings there are none (`WizardInv`), before
  the server the settings are the request's own (`SettingsInv`, for the wizards, the save and
  the restore), and the address in an open form is free (`AddrInv`). Whoever writes misleads
  all others, so only its own knowledge has to be carried over.

Only model-checked: the liveness properties (`ExhaustedIsDisabled`,
`EveryRequestEnds`), which are out of the prover's reach, and the violated ones.

## Findings

1. A disabled account may come back: the syncer enables every disabled row it
   finds in a dump, also when the dump is older than the disabling and its push
   (`DisableSticks`).
2. A used-up quota disables the row and does not stop the traffic (`DisabledIsCut`).
3. A renewal keeps `last_day_check`, so the first sync charges the days before it
   (`RenewalLasts`).
4. Stopping CoreDNS can wait for ever, holding the manager's lock, since two
   goroutines wait on one `exec.Cmd` (`EveryRequestEnds`). Were each of them told,
   the property would hold under the same fairness.
5. Restoring an account that was backed up without a private key, over one that
   has got a key pair since, pairs keys that do not belong together (`KeysMatch`).

More gaps came up; the models contain them, and the hazards list them:

* deleting a group runs no `Apply` (in `PcqApply`, the reason `"delete"` in `missed`);
* an older request can start a DNS that a newer one has switched off (in
  `DnsManager`, the reason `"stale"` in `missed`);
* while a group has no members every backup fails (the guard `Scannable` in `Backup`);
* backups leave the DNS rewrites out, which the page says they include;
* a wizard that fails between the settings and the server is closed for good, and nothing
  but the restore of a backup without a server key inserts the server any more
  (`SaveServer` and `RestoreServer` in `Provisioning`);
* two first visitors may both become administrators, two open forms may be given one
  address, and a restore that keeps the accounts may bring back an address that has been
  given to another since (`extra` and `loose` in `Provisioning`);
* a stop of the host may undo the last renames, so that `wg0.conf` is an older one until main
  writes it again (`kept` in `ConfigApply`);
* pushes that overlap may rename each other's half-written file, and nothing repairs
  it before the next push (`suspect` and the reason `"overlap"` in `ConfigApply`);
* after a restore the interface has lost the address that CoreDNS serves (`RestorePost`
  in `DnsManager`);
* a rewrite that is no address takes a whole domain over (`InReach` in `DnsContent`).

## Not modelled

* Pages, assets, the version check, the live view, client configurations and key
  handling are text, parsing and reading without state. Cryptography is a library's,
  in the backup archive too (`backup_crypto.go`).
* Of the DNS contents, the text of the files, the validation of forms and the
  download of block lists. Their cache is written in place and taken for fresh for a day
  (blocklist.go:104-145), and the download happens under the manager's lock: both are hazards
  about durations and torn files that no property covers.
* Of the queues, the arithmetic of rates and bursts (plan.go).
* A daemon killed outside its container leaves its CoreDNS behind; the model ends both.
* Sessions and passwords: whoever needs a session needs an administrator first.
* A restore is in four modules, each with the part of it that the others there meet: its tables
  in `Backup`, its settings, server and addresses in `Provisioning`, its push in `ConfigApply`,
  and the alias it loses in `DnsManager`. The queues after it are reconciled like after any
  push (`PcqApply`). The counters, days and quotas that it brings are not in `PeerSync`: it may
  give a row any value, also less traffic than was booked.

## What is left

* More of the handlers that only format and store, which `PROJECT.json` lists as partly
  modelled.
