# A TLA+ model of f2b

f2b reads log lines, finds the hosts they complain about, and has a firewall
block those hosts for a while. This directory holds TLA+ modules of its parts,
TLC configurations that check them on small instances, and TLAPS proofs about
them. Paths like `jail.c:353` are relative to `src/src`.

## 1. The system

### Components, their state and their operations

| Component | State it keeps | Operations |
|---|---|---|
| Jail engine, `jail.c` | options of the jail, list of known hosts, the ban of each, `need_save` | create, init, start, process (poll, score, ban, sweep, save), stop, `jail X set`, `ip ban/release/show` |
| Known host, `ipaddr.c`; match history, `matches.c` | dates, `bancount`, `release_at`; a linked list of matches with `count` and `last` | create, prepend, expire, flush, score |
| State file, `statefile.c` | one line per banned host on disk | load, save (write a temporary file, rename it) |
| Backend loader, `backend.c`; usage list, `backends/backend.c`; exec backend, `backends/exec.c` | the loaded library, a usage count per shared table, the rules in the kernel | start, stop, ban, unban, check, load, unload |
| Daemon, `daemon.c` | the global `state`, the list of jails, the template of jails | boot, signal handler, main loop, log rotation, reload, shutdown |
| Files source, `sources/files.c` | list of followed files: descriptor, position, last `struct stat` | start, next (rotation test, reopening, reading), stop |
| Control socket, `csocket.c`, with `buf.c` and `event.c` | table of connections, receive and send buffer of each | accept, receive, authorize, serve lines, answer, broadcast events, destroy |
| Filter, `filter.c`, `filters/preg.c`, `filters/pcre.c` | list of patterns with scores and counters, default score, case switch | init, load file, match, reload, destroy |
| Configuration, `config.c` | sections by type, parameters of each | load, include, merge, free |
| Source loader, `source.c`; portknock source, `sources/portknock.c` | the loaded library; listening sockets | init, start, next (accept), stop, destroy |
| Redis backend, `backends/redis.c`; redis source, `sources/redis.c` | a connection each, a counter of pings | connect, ban (count and publish), ping; subscribe, next (receive) |
| Commands, client, log, hashes, appconfig, ipset | see section 7 | not modelled |

### How they interact

The daemon is one thread. In a turn of its main loop it calls
`f2b_jail_process` for each jail, polls the control socket, which may run
commands on the jails, and sleeps for a second. A jail's pass calls `next()` of
its source until that returns nothing, has its filter match each line, updates
the host's matches, bans through the backend, then sweeps its hosts (release,
forget) and saves the state file. Signals interrupt any instruction and write
the global `state`. Everything else that moves is outside of the process: log
files grow and are rotated, clients connect, talk and hang up, the
administrator edits configuration and pattern files, backend commands fail, and
the process itself may be killed. The firewall and the state file survive it.

Several daemons work together through a redis server: the backend of a "sensor"
jail publishes its bans, and the source of an "actor" jail takes each message
for a log line (`docs/configuration.md:117-186`).

### What is hard

- the same host is banned and released by log lines, by the operator, and by
  the sweep, which uses the time at which the pass began;
- the process is killed between a change in memory, in the firewall, on disk;
- one of several effects fails: a command, a short write, a start step;
- 16-bit scores, window edges, dates that are equal;
- counts of shared tables over failed starts, crashes, reloads, unloaded libraries;
- sockets and rules that outlive the jail that made them; two jails, one table;
- a server that goes down between two commands of one ban, answers that are
  lost, connections that die without a word;
- requests that overwrite each other in one global variable;
- files that are replaced between two system calls, lines written in pieces;
- lines cut over buffers of fixed size, events in the middle of answers;
- configuration and patterns re-read over what was there before.

`PROJECT.json` lists each such hazard at its line, with the properties that
cover it.

### What makes each part correct

Jail: the firewall follows the bans; a ban has its term; bans are on disk and
come back; a line bans at `banscore` and never below; blocks end. Matches: the list with
its shortcuts is the score history. Backend: the counts count the users, a rule
is set up by the first and removed by the last, and the firewall agrees with the
jails. Sources: the sockets a jail could open stay open while it runs and are
closed when it stops. Teamwork: actors get the published bans in order, none twice, none
lost while connected, and everybody connects again. Daemon: the jails are those of
the last readable configuration, a reload and a lone shutdown are served. Files: in order, nothing
twice, nothing lost of a file left alone, replacements followed. Socket: lines
whole, in order and authorized, answers in the order they were given. Filter: the
patterns and scores are those of the file last read. Configuration: merged, ordered, nothing stale.

## 2. Modules

| Module | Models | Correspondence |
|---|---|---|
| `ScoreHistory` | what `matches.c` promises: a sum of scores per second | operators named after the C functions |
| `Matches` | `matches.c` as it is: list, `count`, `last`, early exits | refines `ScoreHistory`, which it instantiates as `H` |
| `Jail` (EXTENDS `ScoreHistory`) | `jail.c`, `ipaddr.c`, `statefile.c`, the ban side of `exec.c` | `pc` is the place in `f2b_jail_start`, `f2b_jail_process` or `f2b_jail_stop`; one step per line polled, per host swept, restored or released; commands act when `pc = "idle"` |
| `SharedBackend` | the exec backend on shared tables, the usage list, and the `ipset`/`iptables` state behind it | one step per command that `cmd_list_exec` runs; each may fail before or after its work |
| `Portknock` | `sources/portknock.c` and the sockets behind it | operators named after the C functions; a start opens any subset of the ports that are free, because `getaddrinfo`, `socket`, `bind` and `listen` fail for reasons of their own; `refused` is history |
| `Lifecycle` (EXTENDS both) | `f2b_jail_init`, `_start`, `_process`, `_stop` for all jails of a daemon, `jails_start`, `jails_stop`, loading and unloading, crashes | `phase`, `turn` and `pc` are the place in the daemon; the sweep of a pass is a loop that releases any hosts in any order, then saves; `miscounted`, `orphans`, `lost`, `exposed`, `stray` are history |
| `Feed` | what actors may expect: some of the messages, in order, none twice | abstract |
| `Teamwork` | the redis backend and source in several jails, the server and the network | `pc` of a jail is the place in `ban()` or `next()`; refines `Feed`, which it instantiates as `F`; `acked`, `got`, `since`, `term` are history |
| `Daemon` | `main`, the signal handler, `jails_start`, `jails_stop`; the template of `jail.c`, by the two parameters `enabled` and `bantime` | `pc` is the place in the main loop; `defaults` is the static template that survives reloads; `asked`, `reloadAsked` and `tried` are history |
| `FilesSource` | `files.c` | `next()` is cut at its system calls: `file_rotated` (stat), `file_open` (stat), `fopen`, which may fail, `file_getline`; `start()` takes the `stat` and the `fopen` of a file in one step and opens every file there is; `busy` holds the files that are never without a line |
| `ControlSocket` | `csocket.c`, `buf.c`, event broadcast | one step per accept, per connection visited, per line served; `served`, `ran`, `said`, `heard`, `cause` are history |
| `Filter` | `filter.c` and the regex modules | `cfg` is `struct _config`; scores are cut to a `short int`; a match may leave no host to copy; `loaded`, `earlier` and `fed` are history |
| `Config` | `config.c` | one step per file read; `read` is history |
| `SumProofs` | facts about `SumFunctionOnSet`, which `ScoreHistory` and `Matches` sum scores with | |
| `JailProofs`, `MatchesProofs`, `TeamworkProofs`, `LifecycleProofs`, `FilesProofs`, `ControlSocketProofs`, `ReloadProofs` | theorems about these modules; `ReloadProofs` about `Daemon`, `Filter` and `Config` | |
| `MC*` | instances for TLC | |

`Jail` uses `ScoreHistory` in place of the linked list; the theorem
`ListImplementsHistory` is what justifies this. `Lifecycle` follows every jail of a daemon from start to
stop and leaves scores and dates to `Jail`: a ban is a host in `held`, and any
accepted connection may complete one. `Teamwork` does the same for the jails of
several daemons, and keeps the scores, because the actor's matter. `Daemon`
starts and stops jails as wholes and takes the content of the configuration as a
whole; `Config` says how that content comes about. `Jail` takes a line as a host with a score, which is what `Filter`
makes of a line of `FilesSource`.

Abstractions: an address, a pattern, a parameter, a log line are names. A
pattern stands for the set of lines it matches, a header for the section it
means (`[mainly]` means `[main]`, because the code compares prefixes). The unit
of the control socket's buffers is a word, not a byte; a NUL is a word of its own,
and other control characters are the word `binary`. A file of the files
source holds pieces: a line, or half of one. Configuration files are read as a
whole once they are open. Time is in seconds and does not step back. Scores
wrap at `ShortHalf`, 2^15 in the code.

## 3. Runs

| Run | Question | Bounds |
|---|---|---|
| `matches` | does the list implement the history? | 4 seconds, 4 matches, scores 1 and 3 |
| `jail_crash` | what survives kills? | 2 hosts (symmetric), 4 seconds, 2 lines a second |
| `jail_faults` | what holds when anything may fail? | 1 host, 5 seconds, bans and releases by hand, `bantime` set to a good and a bad value |
| `jail_live` | is the firewall exact, is the ban decision, do blocks end? | 1 host, 5 seconds from second 10 on, `ShortHalf` 3 so that the scores of three lines wrap; `banscore` and `findtime` set to 0 and to 11, which is beyond the wrap and longer than the clock is old |
| `backend_shared` | do counts, rules, blocked hosts and sockets stay what the running jails need? | 3 jails on 2 tables and 2 ports (one port listed by two jails), any list of jails in any order, 2 reloads or boots, 1 fault (a command that fails, a free port that cannot be opened, a crash), any failed init, 1 host |
| `daemon_requests` | are requests served, jails up to date? | 2 jails, 5 contents of the file (`[defaults]` enables, disables or is silent, sections override or are silent, no jail, unreadable), 3 requests, 2 edits |
| `files_follow` | is nothing lost, repeated, reordered? | 2 files, the head of the list with lines without end or not, 2 pieces, 1 rotation, 1 truncation |
| `socket_clients` | are lines and answers intact? | 1 remote client, 3 lines of every kind (with a NUL, with other control characters, too long), buffers of 2 and 6 words, 1 event, shutdown |
| `filter_reload` | which patterns are in use, which one counts? | 3 patterns (one broken, one that matches a line without its host), 6 contents, a score beyond the cut (150 with `ShortHalf` 100), a switch in the section and in a file, 3 matched lines |
| `config_load` | what does a configuration come to? | 3 files with 2 to 4 contents, 2 directories, 2 edits, 2 loads |
| `teamwork_feed` | what reaches an actor, and does it end well? | 2 sensors, 1 actor, 1 host, 3 bans, 1 failure of any kind, `banscore` 20 (two messages), `ping` 2 |
| `v_slot` | violation: does a client keep its connection? | 2 clients, 2 slots |

Why these bounds are enough to be interesting: two bans and a release of a host,
with a second ban longer by the extension, fit into the seconds given, and so do
expiry, forgetting and a later match; with one host fewer, hosts do not interact
in the code except through the loops, which `jail_crash` runs with two. Three
jails on two tables give a table with a first, a second and no user, and a port
that two of them list gives a start that finds its port taken, by the other or by
a socket that leaked. One failure and two rounds are enough to crash or fail at
any command and to see the next start, stop or boot work on what is left. Two
sensors interleave the two commands of their bans, and three messages let an
actor miss one between two it gets. The invariants of these two runs also hold
with `MaxFaults = 2` (2.0 million and 0.4 million states); the runs keep one fault
because liveness is checked, too. A receive
buffer of two words holds less than two lines and a send buffer of six less than
two answers, so both overflow and partial service happen. Two edits and two
loads allow a file to come, go and change within one load. All counters that
would grow without end have a bound named in the module (`Max...`).

Every property of a passing run is broken by at least one plausible change of
one definition, kept in the modules under a comment "Mutant".

`CHECK_DEADLOCK FALSE` is set for `backend_shared` and `config_load`, where the
bounded number of rounds or loads ends. Type invariants that are proved are not
run again.

## 4. Fairness

- `Jail`: weak fairness of the clock and of the steps of a pass and of start and
  stop: the main loop comes back each second and none of its calls is skipped.
  `PollEnd` is weakly fair: the source runs dry in each pass. The code does not
  guarantee this: `jail.c:310` loops as long as there are lines, and a log that
  grows faster than it is read holds up the sweep. `MaxLines` per second is
  the assumption in the model.
- `Daemon`: weak fairness of the main program, none of signals or edits.
- `Lifecycle`: weak fairness of the daemon's thread as a whole. Nobody has to
  knock, ask or boot. `NothingWaits` holds unless somebody knocks for ever, which
  is how it states that `f2b_jail_process` has no limit.
- `Teamwork`: weak fairness of each jail's own thread, which its daemon calls every
  second. A connect that fails changes nothing, so this also says that one that is
  tried for ever succeeds some time if the server is up; the code tries again with
  each call, and would fail for ever only with a wrong address or password. Nothing
  is assumed of the server: `Reconnected` speaks of runs in which it stays up from
  some time on.
- `FilesSource`: weak fairness of the source as a whole: the jail calls `next()`
  in each pass. Nothing is assumed of the writers. `next()` begins each call at the
  head of the list and goes on only from a file without a line (`files.c:212-215`),
  so that a file that always has one keeps the later ones from being read:
  `EverythingRead` and `FollowsReplacement` speak of a file before which no other is
  busy for ever (`HasTurns`), and the run has files that are.
- `ControlSocket`: weak fairness of the poll loop; strong fairness of a
  successful `accept()`, which `select()` reports again in each turn; and a
  client finishes the line it has begun.

## 5. Proofs

About `Jail`, `JailProofs` proves, for all addresses,
options, scores, bounds and kinds of failure that `JailAssumption` allows
(parameters are integers, periods positive and factors not negative):

| Theorem | Says | Argument |
|---|---|---|
| `TypeCorrect` | `[]TypeOK` | inductive by itself; needs that histories stay histories and that `Extended` and `Short` yield integers |
| `BansAreEnforced`, `FirewallIsExact` | `[]FirewallCoversBans`, `[]FirewallExact` | `FirewallInv` = `TypeOK`, `LoopInv` (the loops that restore and stop visit banned hosts only, and the latter all of them) and both invariants: neither is inductive without knowing which hosts a loop has still to visit |
| `ReleasesAreDue` | `NoEarlyRelease` | needs that `now`, the time the pass began, is not later than `clock`, which is part of `TypeOK` |
| `BansKeepTheirTerm` | `[]BanTerm` | `TermInv` adds that the present `bantime` is one the jail was given; the lemma `ExtendedGrows` does the arithmetic |
| `BansAreSaved` | `[]BansOnDisk` | `DiskInv` says it at every place: during a pass a ban that is not on disk yet has `need_save` set |
| `SavedBansReturn` | `[]BansRestored` | `RestoredInv` says from the end of `f2b_jail_start` on that a saved ban that is not over is a ban of the jail with the same release time |
| `BansAreDecided` | `BanDecision`: a polled line bans its host only if the scores of findtime and the grace of 600 s reach `banscore`, and it does whenever they do, unless their sum wraps or findtime is longer than the clock is old | `jail.c:353` passes a length where a time is expected, so that what counts is what `f2b_matches_expire` kept. The sum of what is kept is what was collected (`WindowScore`, by `SumSupport`); the sum over the search window is at most that, and the same if the window begins with the clock or before it (`ScoreLow`); `Short` never makes a sum of naturals larger |

The assumptions of the properties stay in them: `FirewallExact` speaks of a
backend that works and of no crash, `BansOnDisk` of a disk that works. `BansOnDisk`
also excludes bans by hand and `BansRestored` all commands, because the code
saves neither a release by hand nor a repeated ban by hand (section 6).

About the other modules, for all values of the constants that their assumptions
allow:

| Module | Theorem | Says | Argument |
|---|---|---|---|
| `MatchesProofs` | `CountersAlwaysAgree` | `[]CountersAgree` | `ListInv`: the list is sorted, nothing in it is later than the clock, and the counters agree; the early exits of `matches.c` are right only for a sorted list |
| | `ListImplementsHistory` | `ImplementsHistory` | the scores of a list, grouped by second, are the history. `Score` and `Kept` are recursive functions: that they exist and are unique is an induction written out by hand (`Inductive`). Expiring a list is a sum over fewer places (`SumRenamed`, `SumGrouped`) |
| `SumProofs` | `SumGrouped` and lemmas | a sum over a finite set does not depend on the order of the fold, nor on its grouping | the fold picks any element next; induction on the set, again by hand |
| `TeamworkProofs` | `TypeCorrect`, `NothingIsMissed` | `[]TypeOK`, `[]NothingMissed` | `IInv` adds `Ordered`: what is on its way to an actor is in order, was sent, and is newer than all the actor has got. `NothingMissed` alone says nothing of a broken connection, from which older messages may still be read |
| | `Refinement` | `FollowsFeed` | by `Ordered`, taking a message is a `Get` of `Feed`; a publication is a `Send`; every other step stutters |
| | `BansArePublished` | `[]CountedAndPublished` | `Counted`: for each host the messages and the sensors between their two commands are at most the counts, so a failure between the two leaves a count too many and never a message too many |
| | `BansAreAlwaysEarned` | `[]BansAreEarned` | `Earned`, a book for each actor and host: bans made times `banscore` and matches kept times their score are at most the score of the messages it was told |
| `LifecycleProofs` | `LifecycleTypes` | `[](TypeOK /\ TurnOK)` | the type of `turn` and `jails` needs `TurnOK`: while jails are stopped, the head of `turn` is the head of `jails` |
| | `UsersAreCounted`, `RulesArePaired`, `FirewallAndJailsAgree`, `PortsAreHeard` | `[]UsageCountsUsers`, `[]RulesPaired`, `[]FirewallAgrees`, `[]PortsHeard` | one invariant, `SafetyInv`, because they lean on each other. `OrderOK`: no jail is listed twice and the library is loaded by the running jails and the one at work. `CountOK`: no count is too low, even where a failure made one too high. `CommandsOK`: how far the commands of a table are, and what they have done. `HeldOK`: only a jail that runs, or is being started or stopped, holds hosts. `PortsOK`: of the jails that expect a port to be open (they list it and were not refused it) none has it that was started after another, so that stopping them in the order of their start never closes it for one that still runs |
| `ReloadProofs` | `DaemonTypes`, `JailsFollowConfig` | `[]TypeOK`, `[]JailsOfConfig` | `DaemonInv` adds that from the start of the jails to the next load the running, failed and waiting jails together are those of the configuration, each running one started from it, that none waits once the main loop turns, and that the template says what `[defaults]` says, and only where that is silent what it said before |
| | `PatternsAreOfFile`, `FirstMatchIsCounted` | `[]PatternsOfFile`, `[]FirstMatchCounts` | `FilterInv`: the list of patterns is `Listed` by the content last read and the switch of before (every place is taken by exactly one accepted line, later lines at later places) and `Counted` by the lines since. That a fold over the file establishes the first is `ReadOK`, an invariant of the loop, by induction on the number of lines read |
| | `ConfigTypeCorrect`, `ConfigMerges`, `ConfigParams`, `ConfigIncludes` | `[]ConfigTypeOK`, `[]SectionsMerged`, `[]ParamsOfFiles`, `[]FilesIncluded` | `ConfigInv`: the lists `Agrees` with the `Script`, the lines read so far by file and line number. A script made longer by one line (`Longer`) changes them as one turn of the loop does (`TurnAgrees`): a header that is new adds a section at the head, a parameter adds to, or in `[main]` and `[defaults]` replaces in, the section in force. `ReadFileAgrees` does this for the lines of a file, by induction over them. `Follows` says of the included files that what was read and what is still to be read are in the order of `glob()`; only the first file says which directory (`NamesStay`) |
| `FilesProofs` | `FilesTypes` | `[]TypeOK` | needs that an open file has a path and a `struct stat`, that the place in the list is valid where it is used, and that `LineEnd`, a CHOOSE, exists (least element of a set of naturals) |
| | `LinesComeInOrder`, `NoLineIsLost` | `[]InOrder`, `[]NothingLost` | `FilesInv`: `StreamsOK`, what `next()` returned, what is in the buffer and what is still in the open file form one stream whose numbers rise; `FollowedOK`, a file only appended to stays open under its inode and its stream has no gap; `InodesOK`, an open inode belongs to one path; `StartOK`, where `start()` is |
| `ControlSocketProofs` | `SocketTypes`, `LinesKeepOrder`, `AnswersKeepOrder`, `CommandsAuthorized`, `OverflowsAreLongLines` | `[]TypeOK`, `[]InOrder`, `[]AnswersInOrder`, `[]RunsAuthorized`, `[]OverflowIsLongLine` | `SocketInv`: `StreamOK`, the receive buffer, the wire and the rest of the line laid end to end are the lines not served yet, cut at their newlines; `SlotsOK`, a client is in one slot; `FreshOK`, a client that is not connected has heard nothing; `AuthOK`, an authorized client was served the password. After a NUL the buffer holds no line that the code can find, and the NUL is in the line whose turn it is |

Assumed about `Teamwork`: `Sensor` and `Actor` are disjoint and the bounds are
naturals, `DefScore` positive. About `Lifecycle`: a finite
set of jails with a table and a list of ports each. About `FilesSource`: `glob()`
returns no path twice. About `Matches`: the clock starts after 0 and is bounded,
scores are naturals. About `ControlSocket`: slots and both buffers are positive,
and a client is of one of the two sockets. About `Filter`: the patterns that compile are
patterns, files and sections are lists of lines and parameters, `ShortHalf` is positive. About `Config`:
`glob()` returns no path twice, and `[main]`, `[csocket]` and `[defaults]` have the
empty name.

Only model-checked: all liveness (`BansEnd`,
`NothingWaits`, `ReloadServed`, `ShutdownServed`, `EverythingRead`,
`FollowsReplacement`, `LinesServed`, `Heard`, `Reconnected`), which is out of the
prover's reach.

## 6. Where code and documents disagree

Shown by a run:

- `csocket.c:477` (`v_slot`): the loop's own `cnum` shadows the outer one, so each
  new connection is put in slot 0.

Seen while modelling; the modules do what the code does, and the properties are
stated so as to hold:

- `files.c:47`: reopening a rotated file clears its `next` link; the rest of the
  list is never polled again, against `docs/configuration.md:62-63`. `files_follow`
  therefore promises `EverythingRead` for undisturbed files only.
- `docs/configuration.md:184` promises a ban on all instances "as quick as possible"
  after one message. A message counts `MATCH_DEFSCORE` (`jail.c:321`), 10, and the
  default `banscore` is 50: it takes five (`BansAreEarned`).
- `docs/configuration.md:69` calls the option `server`; both redis modules know
  `host` only (`backends/redis.c:135`).
- `sources/redis.c:196` accepts a message of any type, or on any channel, of which
  only one half has to fit (`||`).
- `sources/redis.c:207` takes a connection that died without a word for one without
  news, for ever (`Reconnected` excepts it).
- `backends/redis.c:175` keeps the connection when a jail that shares its `id` with
  others is stopped, and `destroy` frees the configuration with it.
- `jail.c:527` publishes restored bans again after each restart, so that the
  actors count them again.
- `jail.c:474` leaves the listening sockets of a portknock source open, without an
  owner, when the backend's start fails (`PortsHeard`); `portknock.c:141` then finds
  the port taken at the next start, and reports success.
- `portknock.c:128-145`: whatever else keeps a port from being opened is logged, and
  the start reports success: the jail runs without the port (`PortsHeard` excepts
  ports that were refused).
- `jail.c:241`: with a shared table, the release of a host by one jail lets it
  through for the others (`FirewallAgrees`).
- `jail.c:353` passes `findtime`, a length, where `matches.h:60` wants a time. The
  sweep keeps matches for findtime and a grace of 600 s, and all of them count, where
  `jail.h:31` calls findtime the period. A length that is longer than the clock is
  old would leave matches out (`BanDecision` excepts it).
- `jail.c:302` cuts the score to a `short int`: a sum beyond 32767 may wrap and
  suppress a ban; it never causes one (`BanDecision`).
- `jail.c:205` counts a ban by hand of a known host from its last match.
- `jail.c:370` reads `release_at` after the release zeroed it, so that a host may
  be forgotten at once, against `jail.h:33`.
- `jail.c:684` asks for a save only when a new host is added, `jail.c:698` does
  not after a release by hand, and the shutdown does not save.
- `jail.c:310` keeps polling a jail that was disabled with `jail X set enabled no`,
  against `jail.h:17`.
- `jail.c:474` destroys a backend whose start commands failed without undoing
  the count of `exec.c:218`; the next jail takes the rule for present.
- `daemon.c:50`: a SIGTERM is lost if SIGHUP, or the assignment of `state` after
  a log rotation or before a reload, comes before the loop looks.
- `daemon.c:391`: a reload may leave no jail at all, where the start gives up.
- `jail.c:170`: a default removed from the configuration survives the reload,
  against `commands.c:37`. So does `enabled = yes`: a jail that does not say
  `enabled` goes on, against `docs/configuration.md:29` (`JailsOfConfig` says of such
  jails only that the template decides).
- `files.c:43`: a file that is missing for one poll loses its path and the next
  poll asserts (`Abort`).
- `files.c:215`: a file that is never without a line keeps the later ones of the list
  from being read (section 4); nothing in the documents says that files take turns.
- `files.c:116`: the halves of a line written in two pieces are two lines.
- `filter.c:157`: a `defscore` of the filter's section is reset by the flush that
  precedes loading; only `set: defscore` lines in the pattern file have effect,
  while `icase` of the section is kept, and so is that of a pattern file after a
  reload of one that does not set it.
- `preg.c:62`, `pcre.c:78`: `atoi()` into a `short int`: a `defscore` beyond 32767
  becomes another score.
- `pcre.c:169-175`: a match is counted before its host is copied. If the pattern's
  host is optional and absent, the search goes on: one line is counted for several
  patterns, and may have the score of a later one (`FirstMatchCounts` says which).
- `csocket.c:169`: the check for control characters stops at the first NUL, and so
  does the search for a newline (`buf.c:59`). The client stays connected, no line
  behind the NUL is ever served (`LinesServed` excepts them), and short lines fill the
  buffer until `csocket.c:207` reports an overflow.
- `filter.c:241`: a reload of a file that cannot be read leaves no patterns.
- `config.c:71`: outside of `[main]` and `[defaults]` a repeated parameter does not
  replace the former; lookups such as `load` find the first, loops the last.
- `config.c:337`: the sections `[csocket]` and `[source:*]` are not freed.

## 7. Not modelled

- Text: the command parser, the interactive client, statistics, formats, log.
- `appconfig.c`, daemonizing, privileges, pid file: straight code at start.
- `exec.c:136`: a child whose `execv` fails returns into the daemon's own loop as a
  second daemon. Modelling it would double every variable of the process.
- `portknock.c:38-71`, parsing of `listen`: text. For an IPv6 address its test is
  inverted (`portknock.c:46`): one with a port is refused, one without is written
  through NULL.
- Usage counts in the redis backend: they decide only whether `stop()` disconnects.
- ipset backends: calls of libipset, with the usage list that `SharedBackend` models.
- `md5.c`, `fnv32a.c`, `strlcpy.c`: third-party code without state.
- Undefined behaviour in the signal handler (`daemon.c:44` formats and writes a
  message) and the terminator that `buf.c:39` writes behind a full buffer.

Assumed: the clock does not step back; percentages of `*_extend` are not
negative; an exec backend has both start and stop commands; inode numbers are
not reused while a file is followed; the redis server keeps its data over a
restart and delivers the messages of one connection in order.

## 8. Plan

Order of work, the most important behaviour first.

1. Done: `Jail`, `Matches`/`ScoreHistory`, `Daemon`, `FilesSource`, `ControlSocket`,
   `Filter`, `Config`; `Lifecycle` over `SharedBackend` and `Portknock`; `Teamwork` with
   its refinement of `Feed`; the proofs of section 5.
2. To add: an abstract list of bans that `Jail` implements, with the refinement
   proved step by step.
3. Models to add, if they earn it: the command parser of `commands.c`; the startup of
   `csocket.c` (which of its sockets could be opened).
