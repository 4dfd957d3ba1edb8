# A verification project for rewsr-maxfields

`rewsr-maxfields` collects facts about bare-metal servers (CPU, disks, NICs,
power, provisioning, topology), merges them into one record per server, appends
the record to a SQLite table and serves curated views of the latest one over
HTTP. This directory models it in TLA+, checks the models with TLC and proves
the central facts with TLAPS. Source paths below are relative to `src/`.

## 1. The system

### Components

| component | state it keeps | operations |
|---|---|---|
| `facts` (merge.go, infer.go) | none; one `ServerFacts` under construction | `BuildServerFacts`, `mergeInto`, `mergeCPU`, `mergeSource`, `unionStrings`, `InferCapabilities`, `InferHealth` |
| `store` | the tables `server_facts` (append-only) and `provisioning_state` (one row per server), one `*sql.DB` | `Open`, `SaveFacts`, `GetLatestFacts`, `ListServerIDs`, `GetAllLatestFacts`, `GetProvisioning`, `SetProvisioning` |
| `refresh` | a goroutine, its ticker, its context | `Start`, `refreshAll` |
| `collectors` | none between calls | seventeen `Collect` methods, in Go over commands and files, or over the C probes |
| `runner` | one child process at a time | `Run` |
| `api` | none | two GET handlers, `PublicView`, `HardwareView` |
| `cmd/rewsr-maxfields` | the process: main goroutine, context, HTTP server | `runServe`, `runScan` |
| `fleet` | none | `Aggregate`, `FindCapable`, `FirmwareSpread` over `GetAllLatestFacts` |
| `cstore` (C) | caller's buffers | bounded string and file helpers, the block-device scan |
| `cprobe` (C) | caller's buffers | sysfs, PCI, SMBIOS, ethtool, cpuid and MSR probes |

### How they interact

`runServe` opens the database, seeds demo provisioning records, starts the
refresher and a goroutine that waits for a signal, and calls `ListenAndServe`.
The refresher calls the collectors in a fixed order for one server after
another and saves each result. Request handlers never collect: they read the
store. The control plane, another process, writes `provisioning_state` at any
time, and one collector reads it. All goroutines share one context (cancelled
by a signal or by `runServe`'s deferred call) and one database handle (closed
by `runServe`'s other deferred call, whoever still uses it).

### What is hard, and what makes each part correct

* **Merge.** Collectors fail in part: facts come with an error, and are merged
  all the same. *Correct:* each field is the first collector's that knew it;
  one provisioning record is never mixed with another.
* **Store.** Two queries claim to return "the latest row", one by
  `observed_at`, one by row id, and the wall clock is not monotonic. *Correct:*
  exactly one answer each, the same one as long as rows are in time order, and
  never a step back in time.
* **Refresher.** Cancellation, ticks, slow cycles and failing saves interleave.
  *Correct:* a failure of one server costs no other its turn; nothing collected
  after the cancel is kept; ticks are answered and a cancel ends it.
* **Process.** A shutdown overtakes requests and the refresher; the process may
  die anywhere. *Correct:* it implements a simple service whose answers are
  atomic and never go back; rows survive; a signal ends it; no request waits for
  a collection.
* **Views.** Several fields of two responses are derived separately from the
  same facts. *Correct:* they agree.
* **Wave-two collectors.** A capability rests on sources read one after the
  other on a host that changes, with tools missing or failing. *Correct:*
  nothing on record that was not there, nothing missed that was there all along,
  and the record catches up with a host that settles.
* **Fleet queries.** They count one row of each server, chosen by its id where the
  pages' is chosen by time, by rules of their own. *Correct:* the counts add up,
  and agree with the pages as long as rows are in time order.
* **Runner.** A child's pipe may outlive the child's deadline. *Correct:* output
  reported as a success is whole.
* **Parsers.** State carried from line to line: an open block, a section, a
  pointer into a slice that `append` moves. *Correct:* each value belongs to the
  block it was printed in.
* **C probes.** Short reads, full arrays, names in directory order, devices that
  come and go, tables cut short, two-call ioctl handshakes. *Correct:* within
  bounds, a definite result for every input, whole or refused.

`PROJECT.json` lists the hazards one by one, with the line where each bites and
the property that covers it.

## 2. The modules

| module | extends | instantiates | used by |
|---|---|---|---|
| `Facts` | | | `Collectors`, `Views`, `Fleet`, `Wave2` |
| `Collectors` | `Facts` | | `Refresher` |
| `FactsStore` | | | `Refresher`, `MCFactsStore` |
| `Refresher` | `Collectors` | `FactsStore` (as `Store`) | `Serve`, `MCRefresher`, `RefresherProofs` |
| `Views` | `Facts` | | `MCRefresher`, `MCFactsStore` |
| `Fleet` | `Facts` | | `MCFactsStore` |
| `FactsService` | | | `Serve` |
| `Serve` | `Refresher` | `FactsService` (as `Service`, the refinement) | `MCServe`, `ServeHistory` |
| `ServeHistory` | `Serve` | | `MCServeHistory`, `ServeProofs` |
| `Wave2` | `Facts` | | `HostScan` |
| `HostScan` | `Wave2` | | `MCHostScan`, `HostScanProofs` |
| `Orders` | | | `TextParsers`, `DmiWalk` |
| `TextParsers`, `Decoders`, `FileRead`, `DevScan`, `DmiWalk`, `LinkModes`, `CommandRunner` | | | `Probes` |
| `Probes` | | those seven | `MCProbes`, `ProbesProofs` |

The proofs: `FactsStoreProofs` extends `FactsStore` and, for what the fleet queries
add up, `MCFactsStore`; `RefresherProofs` extends
`Refresher`; `ServeProofs` extends `ServeHistory` and `RefresherProofs`;
`RowProofs` extends `ServeProofs` and, for its property of the views,
`MCRefresher` (the values these MC modules offer for the constants are not used);
`HostScanProofs` extends `HostScan`; `ProbesProofs` extends `Probes`, and
`ParserProofs` extends it. `SumProofs`, on sums over finite sets, is used by
`FactsStoreProofs`, `RowProofs`, `ProbesProofs` and `ParserProofs`.

**Facts** is package `facts` without its loop. A `ServerFacts` is a record of
its single-valued fields (`typed`), the parts of `Source`, the sets
`NetworkModes` and `Capabilities`, and the `Raw` keys that matter. The zero
value of a field stands for "not known", as in Go. `FillGaps` is the repeated
`if dst.X == zero { dst.X = src.X }` of `mergeInto` and `mergeCPU`. Strings
are members of the constant `Words`: `STRING` under TLC; the proofs use only
that the words the code itself writes are in it (`FactsAssumption`).

**Collectors** gives, for each collector that sets a single-valued field, the
set of results one `Collect` may return: which tools fail, what the BMC,
`lldpctl` and `ipmitool` answer, what a cancelled context does. No collector
returns nil facts, so the `f == nil` branch of `BuildServerFacts` is never taken
by these; `results = <<>>`, its other way to an error, needs an empty pipeline.

**FactsStore** has the two tables, the handle and the clock. A row's id is its
position in `rows`. A query is the set of row ids it returns, so that a query
returning several rows, or none, can be expressed. The tie-break of
`GetLatestFacts` (last insert) is what SQLite does with the index on
`(server_id, observed_at)`. Its own `Next` is the store under arbitrary
callers; the other modules use its operations.

**Refresher** is the goroutine: one step for each collector call, for the end of
a build, for the save, and for each branch of the `select`. `pc` is where it
stands, `srv` the server's position in the list, `merged` and `results` the local
variables of `BuildServerFacts`. Between any two steps the ticker may fire, the
context be cancelled, the clock move either way, and the control plane write a
record. `attempted`, `records` and `steppedBack` are history variables, and so
are `from` and `records` in a saved row: no guard reads them.

**Views** has the two JSON views of `api/views.go` as operators.

**Serve** is the process: the main goroutine's path through `runServe` (`main`),
the seeding loop with its lookup and write as two steps, the shutdown
goroutine, one request per client as accept, query and respond, and crash and
restart on the same tables. It extends `Refresher`: the refresher's variables are
the process's own, `ServeNext` takes its steps, and adds the rest.
After a panic (`pc = "panicked"`, from `time.NewTicker` with an interval that is
not positive) only the crash is left.

**FactsService** is the abstract specification: one current observation per
server, replaced by a later one, and requests answered with it at one instant.
**ServeHistory** is the process with a history of what its clients were told.

**Fleet** is package `fleet`: three operators on the set of rows that
`GetAllLatestFacts` returns, with all the counts and totals of the report. They
have no state; `MCFactsStore` applies them, and
the views, to what the store holds after any saves.

**Wave2** has, for each of the ten collectors that set capabilities and network
modes, what it makes of the sources it reads. A host is a set of features (a GPU,
a loaded module, a port that is up), a source shows some of them, and what a
collector has read is a function from sources to what they showed, nothing where
a source is missing or fails. What then stands in for it, and what does not (an
installed `rdma` that fails), is the collector's.
**HostScan** runs builds over and over: `BeginBuild`, one `ReadSource` for each
command, file or directory, `Save`; between any two of them `HostChanges` may add
or remove a feature. `during` and `always` are history: the features the host
had at some instant, and at every instant, of the build.

The routines beneath the collectors are modules of one shape: an input or
surroundings, a record `st` of the routine's local variables, one action per step.
**Probes** composes them: `routine` says which one a behaviour is of, `world` is
its input or surroundings. What tools print, what lists, directories and
tables hold, and every size is a constant of `Probes`; **MCProbes** only gives
those constants values.

* **TextParsers**: the parsers with state between lines (`ibv_devinfo`, the
  bonding files, `numactl`, `ethtool -g` and `-T`, `ipmitool sdr`, `lldpctl`). A
  line is its key and its value; a text is dealt out line by line, so every state
  holds a text and what the loop makes of it. `NumaLine` keeps the backing arrays
  that `append` leaves behind, and pointers into them.
* **Decoders**: loops over lists: `rewsr_parse_cpulist` beside Go's
  `countCPUList`, the CPUID topology subleaves, names joined into a buffer.
* **FileRead**: the four read loops, with short reads, `EINTR`, errors and a
  `realloc` that fails.
* **DevScan**: `rewsr_pci_scan_root` and `rewsr_sysfs_scan_net` (one loop), and
  `rewsr_list_dir` with `rewsr_block_scan`, while devices come and go between
  `readdir`, `stat` and the reads of attributes. What `readdir` says of a
  name that comes or goes is left open, as POSIX leaves it, and `qsort` may leave
  any arrangement that is in order.
* **DmiWalk**: the SMBIOS cursor and decoding, over tables a firmware lays out,
  cut anywhere. A field of a byte or a word is one cell, a dword is two. `LaidOut`
  says which cells the firmware lays out for its structures, one behind the other
  and zeros behind the last, and `SizeEncoded` how it writes the size of a memory
  module.
* **Orders**: the members of a set of positions in ascending order.
* **LinkModes**: the two calls of `ETHTOOL_GLINKSETTINGS`, against a kernel whose
  link changes in between and a driver that breaks the contract.
* **CommandRunner**: `Run`, the child, a process the child leaves behind, their
  pipe, and os/exec's kill and copy.

`MC*` modules give the constants their values. Operators whose comment says
"gone wrong" are variants of the one below them, used to confirm that the
properties notice the difference (`PROJECT.json`, "mutants"); no specification
uses them. The arms of a `CASE` exclude each other: TLC takes the first that
applies, the logic of the proofs any.

`PROJECT.json` maps each definition to its lines of source.

## 3. The runs

| run | question | bounds |
|---|---|---|
| `facts_store` | do the two latest-row queries behave under any saves, ties, clocks, reopening? | 2 servers, 3 rows, 3 times |
| `refresher_merge` | what can a saved row say, and where from? do the views agree on it? | 1 server, all five collectors with every combination of answers, two records, one cycle |
| `refresher` | cancel, ticks and clock at every point: what is on record, and do cycles end, ticks get answered, cancels stop it? | 2 servers, 1 collector, 2 times, 1 tick before the cancel; without bound after it |
| `serve_safety` | does the process implement the service, with crashes, failing queries and a stepping clock? are requests answered and signals obeyed with a stuck refresher? | 1 server, 1 client, 2 boots, 2 times |
| `serve_reliable` | and the stronger service, if queries on an open database succeed? what may clients conclude from their answers? | 1 server, 2 clients (symmetric), 2 cycles, 1 boot |
| `host_scan` | is what is on record what the host had? | six pipelines of 1 to 3 collectors, 2 to 6 features that may change for each, 2 changes, 5 sets of missing and failing sources |
| `probes` | are the parsers, loops, scans and the runner right for every input? | 5 lines, 3 list items, files to 9 bytes, 4 names with 1 hotplug, tables of 3 structures cut anywhere |

What they show:

* `OneAnswer`, `QueriesAgreeInOrder`, `ServedNeverGoesBack`: the store's two
  readings of "latest" are well defined, agree on rows in time order, ties
  included, and the API's reading never goes back, even if the clock does. Three
  rows make all orders of two rows of one server beside another server's.
* `FirstCollectorWins`, `NoTornRecord`: what merge.go:12-14 promises for one
  build holds of every row on record, while the control plane rewrites the
  record between two collector calls. The provisioning lookup is one query, so
  state and domain of a row come from one record on file, or from none. A record
  without a domain, and a lookup without a record, leave the domain to LLDP: it
  is then the hint of the same build.
* `HealthyHasEvidence`: a healthy row has hardware behind it and no collector
  saw it off first.
* `ViewsTellOneStory`: capabilities inferred in infer.go and fields computed in
  views.go from the same row do not contradict each other.
* `NoRowCollectedAfterCancel`: `refreshAll` does not look at its context and
  goes on with collectors that now fail or fall back to demo facts; only the
  save's own context keeps that off the record.
* `WholeBatchAttempted`, `TickAnswered` (a cycle ends and the tick that came
  during it is answered), `CancelStopsRefresher`.
* `QueriesAgree`: in the refresher's own use rows are in time order, because
  `observed_at` is stamped by the one goroutine that saves; so the API and the
  fleet tools show the same row until the clock steps back.
* `ImplementsFactsService`: every step of the process is a step of
  `FactsService` or changes nothing of it, with `GetLatestFacts` as the
  refinement mapping's current observation. In particular an in-flight query
  overtaken by `db.Close` is answered "nothing" (a 404), never with something
  else, and a save that is older than the current row is no observation.
* `AnswersNeverGoBack`: a client that asks after any client was told of a row is
  not told of an older one, whatever the clock does.
* `FleetAddsUp`: every server on record is counted once in the fleet report, in one
  state of health and one domain; its bandwidth is that of the ports speed by
  speed; a firmware version is counted once a server. The report reads the row of
  greatest id, the API serves the one of latest time: where each server's rows are
  in time order, the report's healthy servers and the ones found by capability are
  those of the served pages. In other states it may say something else.
* `CapabilitiesWereThere`: every capability or mode on record has evidence that
  was there while its build ran. It does not say at one instant: GPUDirect
  needs a module and an HCA that are looked for one after the other, so a record
  may join a module that was unloaded with an HCA that came after it.
* `NothingMissed`: evidence that was there all through a build is on record, also
  when another source stands in for a tool that is missing or fails. An `rdma`
  that is installed and fails has none (linux_rdma.go:132-137), and what it would
  have shown is not on record. `RecordCatchesUp`: a host that changes no more is
  soon on record exactly as it is.
* `BlocksKeepTheirLines`, `EthtoolAsPrinted`, `SensorsAddUp`: what the parsers
  keep, told from the positions of the lines alone. `NumaNodesComplete` needs
  that the lines of one node stand together, as `numactl` prints them: with
  lines interleaved a value would go into an array that `append` has left, and
  be lost. An unreadable ring size is kept as zero, which `EthtoolAsPrinted` says
  as it is. `HintIsTheOneSwitch`: where a neighbour announces a system name, the
  hint is that name exactly if the host is on no other switch, whichever key Go's
  map iteration hands out; of hosts on nameless switches alone see `claim_switch`.
* `CpulistReadAlike`, `TopologyMultiplies`, `NeedTellsTruncation`,
  `WholeOrRefused`, `OneAnswerOfTheKernel`, `WalkIsTheTable`, `DecodedFromItsOwn`:
  each C loop against a definition of what it is to return, for every split of
  its input. A refused cpulist leaves bits set, those of the refused element too
  if only the text behind it is wrong; without a level a topology is all zeros.
* `SteadyDevicesReported`: devices that stay for the whole scan are reported
  once, in order and with their own attributes, unless there was no room, and
  then the count says so (but see section 5 for the block scan).
* `SuccessIsWhole`: `Run` reports success only with all that was written.
  `RunReturns`: a stuck command is killed and `Run` returns, unless a process it
  left behind holds the pipe. `LoopsEnd`: every scan, read and walk ends.
* `RowsOutliveProcess`, `SignalEndsProcess`, `RequestsNeverWaitForCollection`.

Five further runs state what a comment says and TLC refutes:

| run | the comment | the code |
|---|---|---|
| `claim_failed_build` | facts/merge.go:16-17, if every collector fails the result is nil | collectors return facts beside their errors; a build of nothing but failures is saved |
| `claim_switch` | collectors/linux_lldp.go:84-85, multiple chassis mean no single domain, so no hint is set | switches without a system name are called by a key of their chassis objects, and two of them may have the same |
| `claim_domain` | collectors/wave2.go:24-25, a provisioning failure domain always beats the LLDP hint | not when the lookup fails: its facts are empty, and the hint fills the gap |
| `claim_seed` | cmd/rewsr-maxfields/main.go:191-193, the demo record is only a fallback for servers with no real record | lookup and write are two statements; a record written between them is replaced |
| `claim_bounded` | runner/runner.go:25-27, every invocation is bounded by Timeout | `Output` waits for the pipe, which a process the command left behind may hold for ever |

### Bounds

`MaxTime`, `MaxRows`, `MaxCycles`, `MaxBoots`, `MaxChanges` (of the host, and of
a link), `MaxLines`, `MaxItems`, `MaxLength`, `MaxInterrupts`, `MaxHotplug` and
`MaxOutput` are the only bounds; all are constants, given in the `.cfg` files,
and the proofs hold for every value of them. Each run keeps the dimension it
asks about large and the others small: answers of collectors with one server,
batches with few answers. Two times make a tie, an order and a step back; a
third separates "older than the current row" from "older than the row before it"
where only the store is looked at. Two servers show one disturbing another.
`MaxCycles` limits ticks before the cancel only: afterwards the refresher may
take as many as `select` gives it, which is what `CancelStopsRefresher` is
about. Two boots cover one crash at every point and a restart on what it left.
Two changes of the host are a feature that goes and comes back, or one that goes
as another comes. Five lines hold two blocks with a line each and one line
before them. Capacities of the C loops are scaled down with their inputs (a
table limit of 8 for files of up to 9 bytes, arrays of 2 and 4 for 4 names, of
one processor and one memory module for tables of up to three), so that "fits",
"fits exactly" and "does not fit" all occur. `LinkModes` has kernels of fewer
words than the limit, of exactly as many, of more, and one whose negated count
is far beyond it.

`serve_reliable` takes its two clients as symmetric: they are alike in every
action, and both its properties are safety.

`probes`, `claim_bounded` and `claim_switch` run without deadlock checking: a
routine that has returned has nothing left to do. All other runs check for
deadlock.

### Fairness

`Refresher!FairSpec` has weak fairness of the goroutine, which includes that a
collector call returns, and strong fairness of the `ctx.Done()` branch: `select`
chooses at random among ready channels (refresh/refresher.go:41-47), so a branch
ready again and again is taken eventually. That every collector returns is what
the deadlines of `runner` and of the HTTP client intend; `RunReturns` shows what
it takes: that no command leaves a process behind that holds its output pipe
(runner/runner.go:51). `ServeFairSpec` therefore assumes nothing of the
refresher, only of the main goroutine, the shutdown goroutine and the handlers,
and its two liveness properties hold with the refresher stuck for good.
`HostScan!FairSpec` assumes that the refresher goes on building and that reads
return, and nothing of the host. `Probes!FairSpec` has weak fairness of the
steps a routine takes by itself; children, devices and links are under none.

## 4. The proofs

Every theorem is of the specification the runs check (`Spec`, `ServeSpec`,
`HistorySpec`, `FairSpec`), for every value of the constants that meets the
named assumptions, and without a bound on the length of the behaviour. An
invariant is proved by an inductive one: it holds at the start, every step keeps
it (one lemma or case per action), and it implies the property.

### Assumptions

| assumption | what it asks | why the code has it |
|---|---|---|
| `FactsAssumption`, `CollectorsAssumption`, `StoreAssumption`, `RefresherAssumption`, `ServeAssumption`, `HostScanAssumption` | the constants are of their types; the words the code writes, and the demo record, are among the words and records | |
| `HardwareAssumption` | finitely many NICs, and disks of the types `lsblk` output is sorted into | they are lists, and `linux_disk.go` writes no other type |
| `FleetAssumption` | a row has finitely many NICs, of a speed without sign, a list of parts, and a list of disk sizes | they are lists; `readSpeedGbps` makes 0 of the kernel's -1 |
| `PipelineAssumption` | the provisioning store is asked once, and before LLDP | the order of `buildCollectors`; used for `NoTornRecord` alone |
| `RelevantAssumption` | the features a choice of wave-two collectors is looked at with are none of another collector's, whatever is missing or fails | with all ten collectors chosen it asks nothing |
| `ReadAssumption` | buffers have room for a byte | `rewsr_read_first_line` and `rewsr_read_file` refuse others at entry, the other two loops allocate their own |
| `ModesAssumption` | numbers of words are not negative | the kernel answers with the negated count |
| `ScanAssumption` | names are ranks, sizes are sizes | `strcmp` orders names totally |
| `CpulistAssumption`, `TopologyAssumption` | a range without a dash is one CPU, bits, level types and counts have no sign | the C parser reads a number, and a second one only behind a dash; CPUID fields are unsigned |
| `NamesAssumption` | names have lengths, buffers sizes (zero included) | `strlen` and `size_t` |
| `IbvAssumption` | no field line of `ibv_devinfo` has the key "device" | the tool prints the device as the header `hca_id` |
| `DmiAssumption` | a structure of a table is no padding, one with a length has it, a string has no NUL, a module with room for a size has it encoded; the cells are those laid out, as far as there are any; arrays have sizes | the SMBIOS specification, which rewsr_dmi.c decodes |
| `LldpAssumption` | a chassis is keyed by its switch's name, or by fields; no key is empty, no name is a field's, and no two switches have one name | how `lldpctl -f json` prints it (linux_lldp.go:106-116); names that are shared could not be told apart |
| `StampsAssumption` | a line is a header or under one; a clock index has no sign, or is no number | how `ethtool -T` indents, and `strconv.Atoi` |
| `SdrAssumption` | watts are numbers | the parser keeps the larger by `>`, which a NaN would escape |

TLC evaluates all of them on the runs.

### The store and the refresher

`FactsStoreProofs`
* `StoreTypeCorrect`.
* `StoreOneAnswer`. That a latest row is *unique* follows from the order the
  query sorts by; that it *exists* in a table of any length would take induction
  over the table, so it is carried along the behaviour: `QueriesInv` says that
  every server with rows has a latest row by either query, and `SaveServes`,
  `SaveInFleet` show how a save moves it.
* `StoreServesForward`, from the same lemma: what is served never goes back.
* `StoreQueriesAgree`: rows in time order get one answer from both queries.
* `FleetReportsAddUp`. By `QueriesInv` the fleet's rows are one of each server
  on record (`FleetRowsOneEach`); the rest is arithmetic of such a set of rows.
  States of health and domains split it into sets that do not overlap, whose
  sizes add up (`SizeOfBoth`, `SumOfSizes`); bandwidth is a table of ports,
  servers by speeds, and adds up by rows as by columns (`SumByValue`,
  `SumSwaps`); a version is bumped where it is first seen, at most once a server
  and at least on one (`BumpedOnce`, `SumAtMost`). Where rows are in time order
  the rows served are the fleet's (`FleetRowsServed`, from `LatestInOrder`), and
  what is said of pages is said of them.

`RefresherProofs`
* `RefresherTypeCorrect`. One lemma per collector says that whatever it returns
  is well-typed facts; `MergeType` and `InferType` carry that to the row.
* `CancelKeepsRecordClean`. The property is not inductive: a build under way
  might already hold late results. `CancelInv` adds `NoLateResult`, before the
  cancel no result of the build under way is late; after it no save succeeds,
  so what the build holds then does not matter.
* `BatchIsWhole`. Between cycles `attempted` says nothing of how it was filled;
  `BatchInv` says that during one it is exactly the servers before `srv`.
* `RefresherQueriesAgree`. `OrderInv`: until the clock steps back the rows are in
  time order, none is later than now, and the stamp of the row about to be saved
  is between the two, although the clock may run on between stamp and save. The
  two queries then agree as in the store.

`RowProofs`
* `RowsFromFirst`. `FirstInv` says of the build under way what the property says of
  rows: merged facts are of the first of the results so far. `MergeFromFirst` is
  the step, `mergeInto` with one more result: a gap is filled or stays, and what
  is known is left alone.
* `HealthIsEvident`, from `FirstInv` and `EvidenceInv` (collectors report no
  power state but "on" and "off"): `InferHealth`'s verdict on merged facts is
  traced back to the results they came from.
* `RecordsAreWhole`. `TornInv`: the record on file now is among those noted for
  the build, until the provisioning store is asked there is neither state nor
  domain that could be mixed with it, and afterwards the two are of one record
  noted, or of none, with a domain of LLDP's only where that has none. Without
  `PipelineAssumption` a second lookup, or an LLDP hint before it, would break
  it.
* `ViewsAgree`. `StoryInv` says of every row's data that its two pages agree
  (`OneStory`, four named parts), and of the facts merged so far that they are
  `Plain`: the capabilities the views and the inference use are there only by the
  inference, features come with NICs, disks are of the types `diskType` knows.
  One lemma per collector; `Inferred` then gives the capabilities their reasons.
  Bandwidth is a sum over a finite set of NICs: it is at least the speed of each
  (`SumAtLeast` of `SumProofs`).
* `ServeRowsFromFirst`, `ServeHealthIsEvident`, `ServeRecordsAreWhole`,
  `ServeCancelKeepsRecordClean`, `ServeBatchIsWhole`, `ServeQueriesAgree`,
  `ServeViewsAgree`: the same properties of the whole process. The refresher's
  invariants are kept by the steps of the process around it as well: a crash, a
  start or an exit empties its variables, seeding and the handlers leave them
  alone, and what is on record when a process starts was saved by an earlier one
  under the same invariants.

### The process

`ServeProofs`
* `ServeInvariant`: types, and what each phase of `main` says of the refresher and
  the context (not started while seeding, cancelled while closing).
* `RowsOutlive`, from it.
* `ServeImplementsService`: the refinement, step by step. `LatestIsServed` shows
  that the mapping's current observation is well defined; `ServeKinds` sorts the
  steps of the process into saves, requests, life of the process and the rest.
  A save is an observation if it is later than the current row and nothing
  otherwise (`SaveServed`, `SaveRefines`), a handler's query the instant its
  request is answered (`RequestRefines`), an open, close or crash what the
  service has for it (`LifeRefines`), and the rest stutters.

* `AnswersForward`. `ToldInv`: nobody was told of a row later than the one served
  now (`newest` against `Served`), and a client is answered no less than had been
  told when its request was accepted (`floor`). It rests on `SaveServed`: a save
  moves what is served forward or not at all.

### The wave-two collectors

`HostScanProofs`, for every choice of collectors
* `CapabilitiesHaveEvidence`, `EvidenceIsRecorded`. `ScanInv`: what the collector at
  work has read shows only features that were there during the build and all
  that were there throughout (`BuildReads`), and so does what the collectors
  before it have reported (`BuildMerged`). One lemma per collector says that
  what it makes of such reads has evidence and misses none (`PCIReports`, ...,
  collected in `CollectorsReport`; `SEVReports` for the three generations of SEV,
  whose evidence depends on whether the kernel's parameter can be read);
  `ExpectedOfChosen` that what is expected of a build is reported by a collector
  chosen for it.

### The routines beneath

`ProbesProofs`
* `CommandsAreWhole`: with its types the property is inductive as it stands.
* `ModesAreOneAnswer`. `ModesInv`: a report is a whole `Report`; `PositionOfWord`
  is the arithmetic of three masks laid end to end.
* `ReadsAreWhole`. `ReadInv`: the loop has read no more than there is and keeps
  room for the NUL, and says so when it returns.
* `SteadyDevicesAreReported`. `ScanInv` says of the directory that a name is handed
  out once and what stays is handed out or still to come; of the entries that
  they are whole; of the one-loop scans that the count tells how many entries
  there are and, while there is room, that no steady device handed out is lost;
  of the block scan that names are distinct while listed, and after the sort
  entries, the device at hand and the names left stand in order. One lemma per
  action.
* `CpulistsReadAlike`. `CpuInv`: the bitmap has the CPUs of the elements up to the
  first that is refused, that one included if it was read as a range; and while
  none is refused, Go's count is the bitmap's size where the elements are disjoint.
* `TopologiesMultiply`. `TopologyInv` tells the four variables of the loop from the
  leaves up to the first that ends it.
* `WalksAreTables`. `WalkInv`: the structures counted are proper, none but the last
  of them is of type 127, and the cursor stands where the next is laid out unless
  the last one ended the walk. The search for two NULs is what could go wrong: a
  structure laid out whole has its first two at `Closing` (`StringSetCloses`), one
  that is cut has none or ends at the cut (`EndsOfSet`). So a structure is refused
  exactly when it is not proper (`RefusedOrProper`), and what is behind it is the
  next one (`StructurePassed`) or padding (`HereIsStructure`). Offsets are sums of
  the structures' lengths (`OffsetGrows`).

`ParserProofs`, for texts of any length
* `HintsAreTheOneSwitch`. `HintInv`: one name is a key of every chassis seen so far,
  and two names are keys of chassis seen. A switch that has a name shares it with
  no other chassis, named or not (`LldpAssumption`), so where one is named the
  verdict is about switches.
* `EthtoolReadAsPrinted`. `RingsInv` (section and settings), `StampsInv` (section,
  capabilities, clock).
* `SensorsAddUpAlways`. `SensorsInv` tells each field from the lines so far;
  `RememberedStep` carries the maps of temperatures and fans.
* `BlocksKeepLines`. `BondInv`: the n-th slave is told by the header with n-1
  headers before it, and each of its fields by the last such line above the next
  header. `IbvInv` says it of the blocks flushed and the one open; a block's
  device, transport and firmware are those of the stanza so far, and `cur` is
  empty exactly while no port line was read.
* `NumaNodesReported`. `TableInv`: every pointer of `nodesByID` is into some
  array at a place that holds a node of its id, nodes of the last array have ids
  of their own, which are those of the lines so far in order; and as long as the
  lines of each node stand together, the pointer of the last line's node is to
  the last place of the last array (`LastInTable`), so that what is written
  through it is not lost and nodes have the last value given (`HaveValues`). An
  append keeps what the old arrays hold (`NodeAppended`), a write changes one
  place (`NodeWritten`).
* `NeedAlwaysTells`, of the names the C probe joins in a buffer. `NamesInv`:
  `need` is the length of all names with their separators; all names are shown
  when `need` is below the capacity, or when as many are shown as there are; a
  buffer of size zero shows none. The sum over the names read is one more term
  with every name (`SumOneMore`), what went before is no longer changed by it
  (`SumOfLonger`).

These properties speak of positions in the whole text, the parser keeps only
what it needs. `OneMoreLine` is what they share: a text grows by a line, and
what was said of the lines before stays so (`GivenStays`, `LastStays`,
`LastMoves`). The lines at some positions in order (`InOrder`, of `Orders`) are
a sequence of any length, and would call for induction; `LeastNatural` stands in
for it: a set of natural numbers has a least element, so the least
counterexample can be looked at. `OneMorePlace` and `ToldGrows` follow: a
position behind all others comes last, and what is told grows by what it says.

`SumProofs` has the sums. The folds of the community modules are recursive
functions that take an arbitrary element out of the set (`CHOOSE`). `SumsExist`
shows that a function with their equations exists, so that the folds are one:
there is no least size up to which there is none. `SumsOfNaturals` shows in the
same way that the sum does not depend on which element is taken first, and from
it follows that a sum is at least each term (`SumAtLeast`) and the sum of any
part (`SumOfPart`). `SetsGrow` is induction over a finite set in the form these
provers can use: the property is given as the set of the subsets that have it.

## 5. What is only model-checked, and what is not modelled

Only by TLC:

* Liveness, which needs fairness and `ENABLED`: `RequestsNeverWaitForCollection`,
  `SignalEndsProcess`, `CancelStopsRefresher`, `TickAnswered`, `RecordCatchesUp`,
  `LoopsEnd`, `RunReturns`.
* `DecodedFromItsOwn`: the strings the decoder finds by position in the bytes of a
  structure, sorted, are compared with those it was laid out from. The walk beneath
  it is proved.

The five claims are refuted on an instance, and a counterexample needs no proof.

Not modelled:

* `linux_smbios` and `linux_nvme` (Go): each fills one `Raw` key from one source.
* The parsers without state: `lscpu`, `lsblk`, `ip`, `lspci` lines. Their results
  are members of small sets in `Collectors` and `Wave2`.
* String, path and number helpers of `util.c` and `rewsr_sysfs.c`, the modalias
  parser, the tables of names, the SMBIOS entry point, the difference of two MSR
  readings: stateless or data.
* Formatting and logging, the report `runScan` prints, HTTP routing, inline
  assembly and the ioctls themselves; SQLite below the statement (each statement
  is taken to be atomic and durable).

Nothing ever deletes rows, and nothing says what an interval of zero should do:
no property is stated about either, and all runs have `PositiveInterval = TRUE`
(the proofs hold for both values). block.c:177 passes one buffer to `snprintf`
as target and as source, which C leaves undefined; the scan is modelled with the
path it means.

Seen while reading, and not stated as properties of their own:

* runner.go:38 speaks of combined output; `Output` is stdout alone.
* `rewsr_read_first_line` refuses a line of exactly `cap - 1` characters, and a
  table of exactly `REWSR_DMI_MAX_TABLE` bytes is `EFBIG`: a buffer found full is
  taken for too small before the read that would show the end. `WholeOrRefused`
  states the refusals as they are.
* A block scan of a directory with more than `SCAN_MAX` names drops the rest, and
  its caller sees a count within its array. `SteadyDevicesReported` makes an
  exception of devices there was no room to list.
* A reading of "nan" keeps a server from being saved for as long as its sensor
  says so (ipmi.go:162). `SaveFails` may fail for it in every cycle; that the
  others are built is all `WholeBatchAttempted` says.
* A server whose power state nobody read counts as healthy when there are
  hardware facts (infer.go:81), though infer.go:62-64 calls everything short of
  "powered on" degraded or unknown. `HealthyHasEvidence` states what the code does:
  the first power state reported, if any is, is "on".
* The block scan takes the total of `rewsr_list_dir` for the number of names
  stored (block.c:225). The two differ once a name has more than 63 characters;
  the kernel's disk names have at most 31, so `DevScan` has no such name.
* A scan beyond the caller's array keeps the names `readdir` gave first, not the
  first by name.
* A string of names whose first did not fit starts with a separator.
* No collector sets `MemoryGB`, so every machine type reads "...-0gb..." in
  practice.
* The power state of Redfish's demo facts, being first in the pipeline, hides the
  one that `ipmitool` reads.

## 6. Plan

The modules planned are written, and all safety properties are proved but one,
`DecodedFromItsOwn`. On top of `WalkInv` it needs that the starts of strings
`String` sorts are, one by one, those of the string set that was laid out.
