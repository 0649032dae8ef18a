# IOC Hunter: TLA+ specifications

Specifications of the parts of IOC Hunter (`src/src/ioc_hunter`) whose
correctness depends on the order in which things happen, or on how an input is
cut up, laid out or encoded, the TLC instances that check them, and TLAPS proofs
of what matters most. Paths below are relative to
`src/src/ioc_hunter` unless they start with `src/`.

## 1. The system

IOC Hunter takes indicators of compromise (addresses, domains, URLs, hashes)
from a command line, a text, a watched log file or a web form, asks up to eight
threat-intelligence sources about each, and combines the answers into a verdict.
A second half, `analyze/`, reads binary files and reports what is suspicious in
them; it shares with the first half the IOC extraction and the commands.

| component | state it keeps | operations | interacts with |
| --- | --- | --- | --- |
| lookup engine (`engine.py`) | a semaphore of `max_concurrency` slots; one task per (source, IOC) | `lookup_one`, `lookup_many` | reads and writes the cache around each call of a source |
| TI cache (`cache/sqlite_cache.py`) | one SQLite row per (source, type, value), stamped in whole seconds | `get`, `set`, `purge_expired` | shared by every process on the file |
| sources (`sources/`) | none | `lookup`, `_interpret` | HTTP services; results or errors, or an exception |
| Tor exit list (`sources/tor_exit.py`) | the list and when it was loaded, shared by all lookups of a process | `lookup`, `_refresh` | fetched by whichever lookup finds it stale |
| scorer (`scorer.py`) | none | `score_results` | called by the engine on each IOC's results |
| correlator (`correlator.py`) | none | `correlate` | the scored results of a batch |
| log watcher (`watcher.py`) | open file, position, buffer; pending IOCs | `tail_file`, `_drain_batches`, `watch` | a file another program writes and rotates; the engine |
| web app (`web/app.py`) | the objects below, one event loop | `/api/check`, `/api/scan`, `/api/quota` | limiter, quota, the shared engine, or an engine of the request's own keys |
| rate limiter (`web/rate_limit.py`) | bounded table of buckets | `allow` | asked by the middleware |
| daily quota (`web/quota.py`) | bounded table of day counters | `status`, `consume` | asked and charged by the handlers |
| MISP publisher (`misp_publisher.py`, `_retry.py`) | none; effects on a MISP server | `push` | HTTP with retries |
| archive analysis and dispatch (`analyze/archive.py`, `dispatcher.py`) | depth, shared byte budget, report | `analyze`, `analyze_archive` | recurses into every other analyzer |
| pcap analyzer (`analyze/pcap*.py`) | interfaces of the section; flows, stream buffers, handshakes seen so far | `analyze_pcap` | dispatcher |
| EVTX analyzer (`analyze/evtx.py`) | position in the log, template cache of the chunk, events | `analyze_evtx` | dispatcher |
| OLE, OOXML, RTF, VBA analyzers | sector tables, directory, streams | `analyze_ole`, `analyze_ooxml`, `analyze_rtf`, `analyze_vba_project` | dispatcher; each other |
| PE, ELF and Mach-O analyzers, heuristics (`analyze/pe.py`, `resources.py`, `elf.py`, `macho.py`, `heuristics.py`) | section table, the tables found through it, a report under construction | one `analyze_*` each, `apply_heuristics` | dispatcher |
| PDF and LNK analyzers | a report under construction | one `analyze_*` each | dispatcher |
| IOC extraction (`core/parser.py`, `core/eml.py`) | the text with what was taken masked; the parts of a mail | `extract_iocs`, `parse_eml` | everything that reads text |
| command line (`cli.py`) | what a command has open; the `.env` file | the commands, `configure` | engine, analyzers, exporters, publisher |
| decoder, exporters, rule generators | none that outlives a call | | |
| web page (`web/static/script.js`) | the button, the results, remembered keys | `onScan` | the web app |

What is hard here:

* **Interleaving.** All lookups of a process share one semaphore and one cache
  connection, and a task suspends between reading the cache and calling its
  source, and between the call and the write. Handlers of the web app interleave
  at every `await`.
* **Several processes, one table.** The CLI and the server may use the same
  cache file; a process may end between any two steps.
* **Failure in the middle.** `gather` without `return_exceptions` abandons tasks
  that go on running; a cache write may raise after a good answer.
* **Time.** Truncated seconds, expiry boundaries, midnight, fixed windows,
  a debounce timer that cancels the read it waits for.
* **Files that change under a reader.** Append, rename, truncate.
* **Limits.** Tables that evict when full, slots, line and batch caps, and, in the
  analyzers, depth and byte budgets.
* **Layout.** The same connection cut into other segments and mixed with others;
  the same event in place, by a template or by a template in a template; the same
  stream in one chain of sectors or another; state of one section, chunk or
  connection still there when the next one is read.
* **Exits.** A command opens a cache and clients, writes a file, pushes an event;
  each of these may raise, Ctrl-C may come in between, and the exit code is all a
  calling script sees.

What makes each component correct:

* engine: slots are conserved and handed on; every request closes; an answer is
  for the key that was asked, no older than TTL plus its delivery, and bought
  with keys the request may use; no call is made for a row that was there.
* cache: no row outlives its TTL, none disappears before it, none comes back.
* watcher: nothing in the open file is skipped, no whole line is lost at a rotation,
  nothing collected is forgotten, and the tail goes on.
* web: the quota counts exactly the scans it lets through, limits hold at every
  boundary, tables stay within their capacity.
* publisher: an IOC reported as pushed is on the server, as a sighting or in an
  event, and a push that nothing disturbs adds it only once.
* archive walk: one budget bounds the work of all levels, nothing found or left out
  is lost on the way up, damage does not end the analysis, the walk ends.
* pcap: a frame is read with its own section's interface; the first request of a
  direction is reported whole and once; findings do not depend on how connections
  were interleaved.
* EVTX: every sound record that the walk stays in step with is read once, and says the
  same in every encoding; more events never improve the verdict.
* executables: libraries, symbols, resources, signatures and hardening read are those
  the image has, wherever its sections, slices and tables lie in the file.
* documents: the streams and macro sources that were written are those that are read.
* mail and text: what stands on its own is listed, once, and no part of a longer
  indicator is.
* scorer and correlator: a malicious answer is never outvoted into a clean verdict;
  relations depend neither on the order of the batch nor, but for being fewer, on
  sources that failed.
* Tor list: no address is judged by a list older than the refresh interval and one
  fetch.
* commands: the exit code tells what was done, and nothing stays open; the setup
  keeps every key it was not told to change.

`PROJECT.json` lists the components with their status and, under `hazards`, each
place in the code where these things bite, with the properties that cover it.

## 2. Modules

| module | models | correspondence |
| --- | --- | --- |
| `TICache` | the cache table | `rows[k]` is the row of key `k`; one SQL statement is one action; the clock has `TicksPerSecond` ticks per second so that `int(time.time())` is visible; `writtenAt` is history |
| `LookupService` | what the engine promises: each lookup gets at most one truthful, recent, permitted reply; a request returns when all have one, fails only when one broke | abstract, no cache, slots or queues |
| `Engine` | the engine over the cache (`Cache == INSTANCE TICache`) | a task `<<request, <<source, ioc>>>>` moves through `ready` (not started), `waiting` (a future in the semaphore's queue), `granted` (woken, not yet run), `calling`, `answered` (reply under way), `done`/`failed`/`lost`; code between two awaits is one action |
| `Watcher` | `tail_file`, `_drain_batches`, `watch`, and the writer of the log | a file is a sequence of IOCs and line ends; `gen` is the generator's life, `drain` the batcher's; `truncated` and `left`, the renamed files left for their successors and how far they were read, are history |
| `RateLimiter`, `DailyQuota` | the two tables of the web app | operators on a table, with the eviction as the set of tables it may leave |
| `WebApp` | the handlers over both tables | a request is `body` (middleware passed, body awaited), `charging` (between `status` and `consume`, which have no await between them), `lookup` |
| `MISPPublisher` | `push` and `retry_post` against a MISP server others use | `step` is the POST under way, `attempt` its number, `todo` the verdicts not yet searched for, `fresh` is `new_verdicts`; each attempt is one action with its answer and, for a POST with effects, whether the server carried it out (always after a 200, never after a 4xx, either way after a 5xx or a transport error); `events`, `created`, `sightings` count what the server holds and what this push added |
| `ArchiveWalk` | `analyze_archive`, its extractors and `analyze_bytes`, which call each other | `stack` is the stack of calls of `analyze_bytes`, a frame its buffer and report; a frame in phase `read` collects members (`ReadEntry` is one turn of an extractor), in phase `visit` it goes through them; `health` says which places of the input are damaged and how, `grade` what the other analyzers say of a leaf; `kept`, `short` and `met` are history |
| `PcapFrames` | `iter_packets` and the dissection of a frame (`pcap_parse.py`) | one record or block of the file per step; a frame is the headers the sniffer kept, and VLAN tags, extension headers and tunnels are taken off as in the code |
| `PcapCapture` | the loop of `analyze_pcap` with flows, streams, HTTP, TLS, DNS, SMB, NTLM, Kerberos and FTP | `input` is what the hosts sent on each connection; a step is the next packet of any of them, which the sniffer sees, misses or sees twice; `work` holds the local variables of the loop |
| `PcapDetect` | the detectors of `pcap_heur.py` and `pcap_auth.py` | operators on a finished capture |
| `EvtxLog` | the walk over chunks, words and records, BinXml with its template cache | one word or record per step, at places counted in bytes; a record is its size and its tokens, a template what its offset holds in that chunk; `says` is what was written |
| `EvtxDetect` | the rules of `_detect` | operators on a sequence of events |
| `OfficeFile` | `analyze_ooxml` and `analyze_rtf` as far as the compound file inside | what the rules look for in the members of the zip, or the classes, control words and objects of the RTF; which member or object is parsed as a compound file |
| `CompoundFile` | `parse_cfb` and `analyze_ole` | a step per phase (header, each table sector, FAT, directory, mini stream, each entry of the tree); a sector is a sequence of cells |
| `VbaProject` | `vba.py`: where a module's source starts, its decompression, the macro rules | operators; a copy token is its 16-bit number, its split computed as in the code |
| `ImageFile` | `Reader` of `common.py`, and the rules of `heuristics.py` about the symbols an image uses | operators; a file is a sequence of cells, each read as a number or a text; a field, a thunk, a string takes one |
| `PeImage` | `analyze_pe` with imports, delayed imports, exports, the resource tree, the debug record, and the findings about sections and entry point | a step per descriptor of an import table, per node of the resource tree (`stack` is the recursion of `_walk_directory`) and per other table; `work.ranges` is `section_raw_ranges` |
| `ElfImage` | `analyze_elf` with the dynamic section, its strings with or without `.dynstr`, symbols, hardening and notes | a step per table and per note |
| `MachImage` | `analyze_macho` for a file or the first slice of a universal binary: load commands, segments, signature blobs, entitlements, symbols | a step per load command; `work.base` is the start of the slice |
| `SourceAnswers` | `_interpret` of the eight sources | operators; scores in hundredths |
| `Enrichment` | asking the sources, warninglists, `score_results`, `correlate` | `Ask` and `Fail` per source and IOC; then the edges |
| `TorExitList` | `tor_exit.py` | `since` has the fetches under way, a list is the moment the server made it |
| `Extraction` | `parse_eml` and `extract_iocs` | one part of the message per step; the text is a sequence of words and spaces, and what a pattern matches in a word is given (`Scanned`) |
| `Commands` | every command that looks IOCs up | from the first check to the exit code; `held` is what is open; any step may raise and any wait be interrupted |
| `Configure` | `configure` | one prompt per step, then the file written anew |
| `Tools` | captures, event logs, enrichment, Tor list, commands and setup as one system, with their properties | `kind` says which part has the input |
| `Suite` | `Tools` with the readers of documents, executables and messages added, and the properties of these | the same variables, three more kinds of input |
| `MCTICache`, `MCEngine`, `MCWatcher`, `MCWebApp`, `MCMISPPublisher`, `MCArchiveWalk`, `MCTools` | instances for TLC | `MCImages` makes the executables of `MCTools` |
| `TICacheProofs`, `EngineProofs`, `ArchiveProofs`, `PublisherProofs`, `WatcherProofs`, `WebProofs`, `ToolsProofs` | theorems | each about the module it extends; `SetLemmas` has the lemmas that four of them share: least and greatest elements of sets, folds and sums, streams put together of parts |

Data is reduced to what the properties distinguish: a payload is the key it
answers, the moment the source evaluated it and the engine whose keys paid; an
IOC in a log is a model value; a request of the web app is what its handler does.

The asyncio semaphore is not in the repository. `Acquire`, `Woken`,
`MoveAndWake` and `Release` model it from CPython (3.11 and later, as required
by `src/pyproject.toml`): a release wakes one sleeper, a woken waiter keeps its
place in the queue until it runs and passes remaining slots on, and a newcomer
queues behind waiters even when a slot is free. They are mapped as external, as
are the wall clock, log rotation and the writer.

Things left out of the modules that are in the table: results' scores and tags
(they are the scorer's), the alert threshold of the watcher (it filters output),
body validation of the web app (a refusal is `AnswerAtOnce`), WAL and locking of
SQLite beyond "a statement is atomic and a write may raise"; directories inside
archives, the cut of a file at `MAX_FILE_BYTES` and the summaries in the metadata
of an archive's report.

In `ArchiveWalk` an entry has the size its content has and the sizes its
directory claims, which may differ; a content that was cut has lost its end: a
zip its directory, a tar its last entries, a stream an unknown part, a leaf what
the sweep would have found at its end. `zipfile`, `tarfile` and the decompressors
are outside the repository: the module has their outcomes as the extractors see
them (some bytes, none, an exception that is caught, one that is not).

`Tools` and `Suite`, which extends it, compose parts that the dispatcher or the command
line chooses between:
of one run exactly one has the input, so their state spaces add up instead of
multiplying. They share the variables `input` (what is read), `work` (the local
variables of the code) and `report` (what has come out), and each sets
`work.done` when the code returns; the Tor list, which never returns, does not. A
detector module is a constant of the module that collects (`Emit`, `Detect`), given
its value here. `Suite` is what the run checks; `Tools` alone has the parts there are
theorems about, because each obligation of a proof carries the definitions of every part
with it. The properties compare what came out with what the input was made
from, in terms of the input alone, or with the same part run on the same data in
another arrangement.

Five parts of the input of `Suite` carry what a writer meant beside how it was
laid out: the packets of a connection, the `says` of an event record, the
`written` and `sources` of a document, the `means` of an executable, the words of a
message. The code never
looks at these; the properties do.

Definitions introduced as "Mutant of ..." are faulty variants that no
specification uses. Each is the form a plausible bug would give to the definition
below it; substituting it must break the property `PROJECT.json` pairs it with.

## 3. Runs

| run | instance | shows |
| --- | --- | --- |
| `ticache` | 2 keys, 2 payloads, TTL 2 s, 2 ticks per second, clock to 4 s (twice the TTL, so that rows expire, are rewritten and expire again) | truncation never lets a row be served TTL seconds after its write; rows go only by expiry and return only by a write |
| `engine_slots` | 1 engine, 2 requests, 2 sources, 2 slots, any task may raise, any cache write may fail, one process exit | four tasks compete for two slots: queueing, waking, newcomers behind waiters, orphaned tasks; slots conserved, no lost wake-up, every request closes |
| `engine_cache` | 3 engines (server and another process share the cache, a visitor's does not), 1 pair, 1 slot each, TTL 2, delivery up to 1 s late, clock to 4, one exit | expiry, stale writes and double calls all occur; rows truthful, calls justified, `LookupService` implemented |
| `watcher` | 3 IOCs, batches of 2, lines of at most 3, 4 bytes written, one rename or truncation, lookups may raise | nothing of the open file skipped, the whole lines of a renamed file yielded before it is left, and everything extracted looked up, under every interleaving of writer, rotation, poll, timeout and lookup |
| `watcher_forever` | the same without rotation or failing lookups | **violation**, see below |
| `web` | 3 clients, 2 open requests, 2 requests per 2-tick window, 2 scans per 2-tick day, tables of 2 entries, clock over midnight, restarts at any time | exact counting; at most three admissions in any window, which the end of one bucket with all of the next reaches; tables within their capacity; both tables fill, so evictions happen |
| `web_budget` | 2 clients, 2 scans per 3-tick day | **violation**, see below |
| `misp` | a batch of two addresses and a CVE (which no MISP attribute can carry), 3 attempts, 2 pushes, one attribute added by someone else at any moment | an IOC of a push that reported success is on the server; without failed answers and company none is added twice; every push ends |
| `misp_duplicates` | the same without company | **violation**, see below |
| `archive` | a zip with a document, a tar, a compressed program, a supposed bomb, an encrypted entry and an archive that contains itself, or parts of it; depth 3, 5 members, 18 bytes of budget; any one place corrupt or raising, any grading of the leaves | the budget is exact, verdicts and IOCs from every depth reach the outermost report, a shortage of budget is said there, the walk ends |
| `archive_raises` | the same | **violation**, see below |
| `tools` | 174 thousand states over some thousand inputs, see below | one property or two per part, see below |

The inputs of `tools` are made by the operators of `MCTools`, each from small
pieces so that the cases are combined rather than listed:

* *captures as files*: pcap and pcapng of either byte order, up to six blocks in
  every arrangement of sections, interfaces and packets, frames with VLAN tags,
  extension headers and tunnels, cut and damaged ones (`FramesOfSections`).
* *captures as traffic*: four sets of two to four connections (HTTP heads in two
  to four segments, one that just fits the buffer and one that does not, two NTLM logons and a TLS handshake, DNS, Kerberos, FTP and old
  SMB, a scan with a beacon and pings) in every interleaving, with at most one
  packet missed or seen twice; the thresholds of the detectors are two or three,
  so that they are reached (`HeadsWhole`, `InterleavingIrrelevant`, which speak of
  captures without a fault; those with one must end).
* *event logs*: every pair of 33 events, most of which set off a rule, and some in
  three chunks of 192 bytes, with garbage, records that lie inside others, one of 61
  bytes that puts the walk out of step with the next, headers too short, too long or too
  near the end, templates at the same offset of different chunks, templates in templates,
  and events written in place in both forms: as the fixtures of the tests write them, and
  with end tags as real logs have them (`RecordsFound`,
  which also compares each event with its record decoded with an empty cache of
  templates, `EncodingIrrelevant`, `EvidenceAccumulates`).
* *documents*: 13 sectors, laid out with four strides, the sector list in the
  header or beyond it; macros in the mini stream or not, of texts on both sides of
  the power of two at which a copy token is split otherwise; wrapped in OOXML or
  RTF; damaged ones, whose chains end or close to a ring (`DocumentRead`).
* *executables*: a PE cut into two or three sections at three sets of places, so that
  tables lie on both sides of a boundary and name each other across it, its sections
  in every order in the file, with and without a section that has no data, its entry
  point in each kind of section or in none; an ELF whose six pieces lie in three
  orders, its string table found by name or by address; strings, section names and
  notes that are longer than the reader takes, with names before and after its caps; a PE
  resource that is too long to be looked at; a Mach-O alone or first in a
  universal binary, its commands and tables in two orders; each of them damaged,
  which must come to an end (`PeRead`, `UnixImageRead`).
* *batches*: one IOC with 216 combinations of four sources' answers around each
  threshold, one with 16, and two batches with relations; any source may fail
  (`BadNewsCounts`, `RelationsHold`).
* *Tor*: three lookups, an interval of three and fetches of up to two ticks, the
  list published empty at some moments (`TorListRecent`).
* *messages*: two parts of ten kinds, two sets of headers, hops; words in which one
  indicator lies in another, which are defanged, or are joined by HTML; a body
  limit of nine words (`MessageRead`).
* *commands*: every command with the flags that matter to it, interrupted or
  raising anywhere (`ExitCodeHonest`); *setup*: three `.env` files, three keys,
  three entries each, interrupted anywhere, dying while it writes (`KeysKept`).

`MessageRead` says nothing of a word at the edge of a body that is not padded, and
nothing of what stands alone in an HTML cell: see the notes under the findings.

Deadlock is not checked in the runs of systems that stop when their bounded
requests, writes or clock are used up, when a raised lookup ends the watcher, or
when a part of `Suite` has its report.
Bounds on clocks, crashes, writes and rotations are constants named `Max...`; the
histories of `WebApp` are kept only as far back as the properties look. The
specification with the unbounded range is the one the theorems are about, where
there are theorems.

The instances are small, but each is large enough for its hazard: two sleepers
behind two slots are enough to lose a wake-up, two engines on one row to overwrite
a newer answer with an older one, one line beside a pending one to forget it, two
clients to fill a table and evict each other.

### Fairness

* `Engine!FairSpec`: weak fairness for each task and each request. The event loop
  runs every ready callback; each HTTP client has a timeout, so a source answers,
  errs or raises. No fairness on new requests, process exits or the clock.
* `Watcher!FairSpec`: weak fairness for each step of the daemon, which one event
  loop runs; strong fairness for the timeout, whose timer keeps running while the
  tail polls and goes back to sleep. None for the writer or rotation.
* `MISPPublisher!FairSpec`: weak fairness for the POST under way, which is
  answered or times out (30 s). None for new pushes and other users.
* `ArchiveWalk!FairSpec`: weak fairness for the walk, a sequential program that
  waits for nothing.
* `Tools` and `Suite` state none: its parts are sequential programs too, every loop of which
  consumes its input or counts towards a limit, and its properties are about what
  has come out when one has ended.

### Findings

* `watcher_forever` / `TailsForever`. `asyncio.wait_for` (`watcher.py:139`) cancels
  the `__anext__` it waits for. The cancellation is raised in `tail_file`'s sleep
  and finishes the generator; from then on `StopAsyncIteration` is taken for a
  timeout, so the watcher keeps running without ever reading the file again.
  The docstrings say "Yield newly-appended lines from `path` forever" and "Stops
  only when the consumer breaks out". It takes one quiet period of
  `debounce_seconds` after a line with an IOC (2 s by default).
* `web_budget` / `BudgetHolds`. `DailyQuota.consume` evicts before it looks the
  caller up (`web/quota.py:79`). With `max_entries` clients of today in the table
  every call drops a least-used entry, even for a caller who has one, and even the
  caller's own; its count then starts again. `web/quota.py:3` says the quota limits
  what a single visitor can use in a day. Below capacity `ScansCounted` holds.
* `misp_duplicates` / `NoDuplicateEvents`. `POST /events` goes through
  `retry_post` (`misp_publisher.py:115`). When the server created the event and its
  answer is lost or a 5xx, the retry creates another one. The docstring
  (`misp_publisher.py:4`) and `src/README.md:828` promise that duplicate events are
  avoided. `SmartWhenReliable` holds: with no failed answer there are none.
* `archive_raises` / `NeverRaises`. `zipfile` raises `zlib.error` for damaged
  deflate data and `lzma.LZMAError` for damaged LZMA data, which
  `analyze/archive.py:195` does not catch, and `NotImplementedError` from `ZipFile()`
  for an unsupported version, which neither `analyze/archive.py:174` nor
  `analyze/dispatcher.py:118` does. The report about the whole file is then lost,
  although `analyze/archive.py:20` says a damaged archive "degrades the report, it
  never raises".

Met while modelling, without a run of their own; the modules behave like the code:

* `core/parser.py:40` takes the end of an IPv6 address that is written with `::`
  (`2001:db8::1` gives `::1`) and half of `::ffff:1.2.3.4`; IPv6 is not lower-cased.
* `core/eml.py:173` joins text bodies, and adjacent cells of an HTML table, without
  a space: the last word of one and the first of the other become one word. The hash
  of an attachment above the limit is that of its beginning.
* `analyze/ooxml.py:260` does not catch the `zlib.error` of damaged deflate data, so
  `analyze_ooxml` raises; of several well-known `vbaProject.bin` only the first is read.
* pcap: only the first head of a direction is read; a retransmitted segment is
  appended again; the initiator of a flow is the sender of the first packet seen; a
  section header of the other byte order ends the capture without a word.
* EVTX: a record's size is taken in bytes (`evtx.py:956`, `:965`) and only garbage is
  passed in words, so behind a record whose size is no multiple of four the walk is out of
  step with the words, and the next record is missed unless it follows at once.
  `RecordsFound` leaves out records that stand so (`OutOfStep`), and no others.
* EVTX: `evtx.py:88-92` says that in real logs 0x02 ends a start tag and 0x04 an element;
  the reader of records takes 0x02 for the end of the element (`:659`) and stops at 0x04
  (`:705`). A real record written in place keeps what precedes its first end tag and not
  the rest; templates have a reader of their own, which knows both tokens (`:474-477`).
  `EncodingIrrelevant` claims of a record with end tags only that what was read is true,
  and says so (`Tagged`).
* EVTX: a ticket encryption type of `HEX32` is written `0x00000017` and never matches
  the rule's `0x17`; the severity of several Defender events is that of the last; a
  `Data` element without a value leaves its name to the next one.
* PE: `pe.py:624` zips the sections with a list that leaves out those without data, so
  behind a `.bss` the entry point is judged by the flags of another section, or found
  outside of all; `PeRead` claims this only for images whose sections all have data.
* Mach-O: only the first slice is analysed; its format is set back to `macho_fat`
  (`dispatcher.py:284`), so the rules for POSIX images do not look at it; a slice that
  begins where the file ends makes the wording of a finding raise (`macho.py:175`).
* OLE: a sector past the end of the file is passed over, and what follows moves up;
  siblings count towards the depth limit of 32, so a long list of them loses its end.
* A further SUSPICIOUS answer can soften MALICIOUS to SUSPICIOUS (`scorer.py:60`).
* Archives: a member cut at `MAX_MEMBER_BYTES` (`archive.py:191`, `:211`, `:226`) or left
  out past `MAX_ARCHIVE_MEMBERS` (`:177`, `:206`) is not mentioned in the report; only an
  exhausted byte budget and the depth limit are.
* When the log was renamed or became shorter, the poll closes the file without reading it to its end
  and empties the buffer (`watcher.py:111-116`): what was written between the last read and the
  rename, and an unfinished line, are not looked up.
* `TICache.__init__` may raise after it connected (`sqlite_cache.py:71-74`), and `watch`
  prints its banner between opening the cache and its `try` (`cli.py:1285-1296`): in
  both cases nobody closes the connection. `ExitCodeHonest` excepts these two places.
* N lookups that find the Tor list stale fetch it N times, and a slow, older answer
  replaces a newer one; `TorRecent` bounds what this can do.
* `check --push-misp` without MISP keys exits with 2 even when nothing was to be
  pushed; `report --out` without IOCs exits with 0 and writes no file.
* `configure` empties `.env` before it writes it, and drops its comments.

## 4. Theorems

Every theorem is about `Spec` without fairness and holds for all constants the named
assumptions allow; no bound a run needs (`MaxClock`, `MaxTime`, ...) is used.

`TICacheProofs` (from `CacheAssumption`, `NoRowAssumption`):

* `CacheTyped`: `Spec => []TypeOK`.
* `NeverServedLate`: `Spec => []ServedWithinTTL`, for every TTL, negative ones
  included. The inductive invariant `CacheInv` says that both stamps of a row
  derive from its untruncated moment of writing, and that this moment has passed;
  the rest is arithmetic of truncation (`SecondsFacts`, `SecondsMonotone`).
* `FreshKept`, `ExpiredStaysExpired`: the two action properties, from the same
  invariant, one step per action.

`EngineProofs` (from `EngineAssumption`, `SentinelAssumption`: finitely many
requests, sources and IOCs, a positive concurrency, any integer TTL):

* `EngineTyped`: `Spec => []TypeOK`.
* `SlotsNeverLeak`: `Spec => []SlotsConserved`. The property is not inductive: a
  release wakes the first sleepers of a queue, and the count of slots is right only
  if the queue names each waiter once and only waiters of that engine. `SlotInv`
  adds that; `WokenBound` (no more tasks are woken than slots are free) and
  `WakeSlots` (a step that wakes n tasks turns n free slots into n held ones) carry
  the counting.
* `CacheTruthful`, `CallsJustified`: from `RowInv`, which adds that an answer under
  way is for its task's own key, names its own engine, and is at most `MaxFlight`
  old, and that no row or reading of the cache is from the future.
* `WakeupsArrive`: `Spec => []NoLostWakeup`. A slot may be free while tasks sleep, but
  then one of them was woken and has yet to run. `WaitInv` adds that a queue holds
  exactly the tasks that wait, each once (`QueuedOK`, `WaitersQueued`), and
  `WokenAll` that a step which wakes leaves no slot free unless it has woken every
  sleeper; whatever a woken task then does, it passes on what is free.
* `EngineImplementsService`: `Spec => Service!Spec`, the refinement. An engine state
  maps to the replies its callers have and to the requests that broke. The initial
  states map to initial states (`ServiceInit`); a step that ends a lookup is
  a `Reply` or a `Break` (`LookupReplies`, `LookupBreaks`), opening and closing
  a request are the service's, and every other step is a stutter
  (`RepliesMove`, `ServiceStep`). A reply is acceptable to the service because a
  row is truthful, recent and paid for by an engine whose keys may be used
  (`HitAcceptable`, `CallAcceptable`); for this `ServInv` joins `SlotInv` and
  `RowInv` with three facts about requests: only lookups of a request's own batch
  ever start, an open request has all of them started, no row is from the future.

`ArchiveProofs` (from `ArchiveAssumption`: any files whose archives list entries,
single streams at most one; any limits, zero included; any damage):

* `ArchiveTyped`: `Spec => []TypeOK`, with the bound on the depth of the calls.
* `BudgetNeverOverdrawn`: `Spec => []BudgetHeld`. Both follow from `WalkInv`, which
  adds that the stack consists of complete frames (`StackOK`) and is not empty
  while the walk runs. A read takes at most `Cap`, which is at most what is left
  (`ReadableBound`, `MinOfTwo`), and looks at an entry that exists (`ListedBound`);
  a member is entered only below the depth limit, so a push keeps the bound on
  the stack. `Pushed`, `Shortened`, `TopReplaced` and `Returned` say what the four
  changes of the stack do.
* `WorstReachesReport`: `Spec => []WorstSurfaces`. Between the moment a leaf is
  analysed and the final report its verdict is only in some frame of the stack;
  `WorstInv` says so (`Carried`), and that leaves and archives at the depth limit
  return before anything was put into their frames. `GradedFacts` is the reason it
  survives: grading is monotone, and grading twice is grading once.
* `ShortageReachesReport`: `Spec => []ShortageReported`, for members that the byte budget
  cut or left out; the caps on the number and the size of members cut without a word in the
  code, and the theorem says nothing of them. Nothing in the code tells an
  outer archive that a budget ran out further in; the reason that its report says so
  is that the budget is gone when the outermost archive closes. `ShortInv` is that
  argument: what was cut left nothing of the budget (`short => Exhausted`, by
  `MostReadable`), and while the walk runs after a cut, the outermost buffer is an
  archive below the depth limit, so its close is still to come. The proof
  found the history variable `short` wrong for cut streams that give less than the
  cap, which no instance had shown; it now says what the property means.
* `IocsReachReport`: `Spec => []IocsSurface`, for any nesting, members met twice, budgets
  and caps. `IocInv` holds for every frame what a leaf's list of IOCs holds for a leaf:
  each name once (`Held`), and every IOC of a leaf that was analysed in the frame
  that read it or one further out. The merge of a member's list into its
  archive's is a fold over a sequence, and `MergedFacts` says what it yields: a list without
  repetition that has what either of the two had (`AddedOnce`). It assumes of the
  files that a leaf's own list names nothing twice, as `extract_iocs` sees to.

`PublisherProofs` (from `PublisherAssumption`: any batch, any number of attempts):

* `NothingLostTheorem`: `Spec => []NothingLost`, and `SmartTheorem`:
  `Spec => []SmartWhenReliable`. `PushInv` follows each verdict through the push: it is
  still to be searched for, or known to the server, or among the new ones
  (`Accounted`), until the event with the new ones is created; and while every answer
  arrived and nobody else wrote, what this push will put into its event is on the server
  only once the event is created, which is its last step (`Unsent`). `RetriedNoticed` says that a retry implies trouble.

`WatcherProofs` (from `WatcherAssumption`: a positive batch size and line limit):

* `NoByteSkipped`: `Spec => []NothingSkipped`, for any number of rotations: no byte read of the
  open file is lost while that is not truncated, and a renamed file is left only when
  every line that was read whole has been yielded. `TailInv` says where the tail stands:
  `pos` is inside the file it has open unless that was truncated (`InFile`), for a write to
  the open file adds to what may have been skipped; the buffer is the end of what was
  read, and all before it was yielded (`ReadSplit`); `tail_file` sleeps only with no line in its
  buffer (`Asleep`), so that the poll, which empties it, drops an unfinished line at most; and
  a file that was left is not written to any more (`LeftBehind`). That the poll drops
  this line, and what it has not read of a renamed file, is the code's doing, and the
  theorem does not hide it: it claims neither.
* `BatchesComplete`: what a line gave is in the batch under way or was handed to the
  engine, whichever of a full batch, a quiet period and the end of the tail sends it.
  It is the safety half of `ExtractedIsLookedUp`.

`WebProofs` (from `WebAppAssumption`: any number of clients and requests, any capacity of
at least one, any window and limits):

* `TablesStayBounded`: `Spec => []TablesBounded`. Not by construction: the quota
  evicts only when a new client comes to a full table, the limiter drops expired
  buckets first and others only if that was not enough.
* `ScansAreCounted`: `Spec => []ScansCounted`. `QuotaInv` adds that no day of
  the table is in the future, that of the requests at most one is between check and
  charge, and that this one's client has scans left: the code has no `await` between
  the two, and with one the proof would fail at `ChargeDue`.
* `BurstsAreBounded`: `Spec => []BurstBounded`. `BurstInv` splits the admissions of the
  last window at the start of the client's bucket: those before it are at most
  `MaxRequests - 1` (`Live`, `Spent`), those since are counted by it. What a step
  makes of the window is the fold-free `InWindow`.

`ToolsProofs` (from `TorAssumption`, `CallsAssumption`, `EnvAssumption`, `BatchesAssumption`,
`EvtxAssumption`, `LogsAssumption`, `CapturesAssumption`, `TrafficAssumption`: a positive refresh interval and
any timeout; calls are of the commands the program has, with a push only where the
option exists; a file of settings is a list of keys and values; a batch is a list of
IOCs with answers of the eight sources, the numbers in them in the ranges of the
sources' APIs; thresholds, limits and sizes are numbers, a record header is not
empty; logs, chunks and captures are sequences, as are the packets of a connection and
their payloads; no two connections of a capture share a pair of ports, and what follows a
TLS hello is encrypted, so no part of it is an HTTP request):

* `TorRecent`: `Spec => []TorListRecent`, for any number of concurrent
  lookups. The code judges a list by when it was loaded, which alone says nothing
  about its age: `TorInv` adds that a fetch under way is no older than its timeout
  (`FetchesYoung`) and that a list was taken at most that long before it was loaded
  (`ListYoung`). A step of another part leaves `kind` alone and is none of Tor's.
* `ExitCodesHonest`: `Spec => []ExitCodeHonest`. `CommandInv` says for each stage of a
  command what is open, what has been done, and which exit code may already be
  decided (`CommandShape`, `Progress`, `Ending`). The clients are closed on every way
  out; the cache is, but for a raise while it is being set up or before the `try` of `watch`.
* `SetupKeeps`: `Spec => []KeysKept`. `SetupInv` says that the file stands as it was
  until it is written, and what is collected meanwhile (`Merged`) is the old
  values with the entered ones over them; `ReadBack` says that a file made of the
  lines of a function gives that function back when it is read, the last line
  of a key deciding (`LastLine`, `GreatestChosen`).
* `BadNewsTheorem`: `Spec => []BadNewsCounts`. `ScoreInv` says that the results of an IOC
  are always of known sources and with a score that is a number (one lemma for the reading
  of each source's answers). The rest is arithmetic on sums over the sources that answered
  (`TotalWithout`, `WeightedWithout`): a source that says malicious counts with at least half its
  weight, so taking it away takes at least fifty hundredths of its weight from the sum
  that must reach twenty-five of the total, and the verdict can only get milder;
  one that says neither malicious nor suspicious adds to the total alone (`OneSource`).
* `EvidenceTheorem`: `Spec => EvidenceAccumulates`, for any events that may be read
  next. A rule `Keeps` its findings when every finding that weighs is still there, or another
  that weighs as much, once events were added: all but two keep the very finding;
  `Processes` and `Defender` may change one for another of its weight (`ProcessesKeep`,
  `DefenderKeeps`). `GuessedKept` needs that groups only grow, in size and in number.
* `RecordsTheorem`: `Spec => []RecordsFound`, for any chunks, record sizes in bytes, garbage,
  templates and limits. `RecordsInv` holds at every step of the walk: every sound header before the
  place reached is found, that is, inside a record read or out of step (`FoundBefore`); the
  place reached is a number of whole words behind the end of the record read last or the
  start of the chunk (`Anchored`), so what a word passes over is out of step (`WordSteps`);
  and what was read in this chunk ends before that place (`PlacesOK`), which is why no two
  records overlap. A chunk may be left while the rest is shorter than a header, and a sound
  record has at least one (`SoundSizes`).
  `DecodedInv` is about what was read: the cache of templates holds only those of the
  chunk under way (`TemplatesOf`), so that a template looked up does not depend on what
  was decoded before (`TemplateKnown`), and two decodings that differ in their caches
  stay `Alike` over every value, embedded template and token (`ValueAlike`,
  `TemplateAlike`, `TokenAlike`, `DecodeAlike`): the event is that of the record alone.
* `FramesTheorem`: `Spec => []FramesOfSections`, for any blocks, sections and limits, whatever
  a frame dissects to. `FramesInv` relates the walk to the file by ranks: the number of
  frames passed is how many of the blocks so far hold one (`FramesCounted`), the
  n-th interface kept is the n-th the current section declared (`NthNext`,
  `InterfacesAdded`), and what was reported is the packets of the frames passed
  (`ReportYield`). The property itself is stated by ranks for the same reason.
* `HeadsReported`: `Spec => []HeadsWhole`, for any connections, any cut into segments, any
  interleaving, any capacity of the stream buffers and any limit of the list of requests. The
  property speaks of the end of the capture; on the way there `HeadsInv` follows each direction
  of each connection (`HeadOK`). Either nothing of it was parsed, then its buffer is a beginning of
  what has arrived, all of it or as much as the buffer takes (`Buffers`), and holds no whole
  request; or a TLS hello was parsed; or an HTTP head was, and the requests are as they have
  to be in the end. `RoundOutcome` says what one round of the loop can do to a direction:
  the other dissectors leave it alone (`OthersKeepHeads`), a whole head is reported once, and
  a segment never touches another direction (`OnlyFor`), which is what interleaving
  needs. `BufferFed` and `FirstEnd` carry it over the segments: the longer buffer is a beginning of
  the longer stream, so the first end in it is the first end there is. The property
  speaks of the stream of a direction, which is defined for any packets, and says as well
  what happens to a head that does not end within `_STITCH_CAP` and to a
  request that comes when the list is full.
* `RelationsTheorem`: `Spec => []RelationsHold`. `LinksAre` says what the edges of a batch
  are without mentioning its order; the links of a batch then are in any batch that
  `Includes` its IOCs, each at a place of its own with at least its tags. The
  reversed batch does, both ways, and so does the batch with the answers of all sources:
  `RelationsInv` says that a result has no tag that the source's answer does not give
  (`Truthful`), that the warninglist is asked only about an answer that speaks against its IOC
  (`Pending`), and that nothing arrives after the report (`Reported`).

`SetLemmas` holds what several of these need of sets and sequences: least and greatest elements of
sets of naturals, a smallest set among some subsets (from the library's well-founded
relations), and folds. The library defines a fold as `CHOOSE` of a recursive
function; `FoldExists` shows that there is one, for one size of set after another, and
from its equation come the facts about sums (`SumWithout`, `SumSame`) and merged
lists. A stream that grows by what each packet carries is such a function as well
(`JoinExists`), and what it is after some packets is a beginning of what it is after more
(`JoinBegins`); what a record is after some tokens, and a template instance after some values, is
one too (`DecodeRuns`, `TemplateRuns`), and two such runs are compared at the least place
where they part. The library's own theorems of this kind take operators as parameters, which the
provers cannot instantiate.

Model-checked only: `InterleavingIrrelevant` and `EncodingIrrelevant` of `Tools`,
`DocumentRead`, `PeRead`, `UnixImageRead` and `MessageRead` of `Suite`. They compare the
result of a fold or of a walk over a sequence with that of another that goes differently,
step for step, and not merely from another start: the findings of two orders of the packets, the fields a
record gives by a template within a template and those written in place (that they do not
depend on other records is part of `RecordsTheorem`), what the
bytes of a document or an image give and what their writer meant. Several speak through
`SelectSeq`, `FlattenSeq` and `@@`, of which the prover knows nothing and which it does not
expand. Liveness (`EveryRequestCloses`, `ExtractedIsLookedUp`, `PushEnds`,
`WalkEnds`) stays with TLC: the prover handles neither fairness with `ENABLED` nor
induction over an unbounded future here.

## 5. Plan

Done: `TICache`, `LookupService`, `Engine`, `Watcher`, `RateLimiter`, `DailyQuota`,
`WebApp`, `MISPPublisher`, `ArchiveWalk`, each with the proofs of all its safety
properties; `Tools` and the modules it composes, with the proofs about Tor lists, exit
codes, the setup, scores, relations, capture files, HTTP heads and event logs; `Suite`.

Next, proving more:

1. That the loop over a capture keeps to its limits (`StitchCap`, `MaxFlows`, `MaxNames`,
   `MaxKept`), and that the analysis of a document and of an image reads nothing twice.
2. That an authentication is paired with the challenge of its own connection, by an
   invariant like `HeadsInv`: a step towards `InterleavingIrrelevant`.

## 6. Not modelled

* Of executables: the import hash, the Rich header, version information, the names in an
  Authenticode signature, what only goes to the metadata, and the scan for embedded
  payloads (a list of patterns). Fields are cells: their widths, byte orders and
  alignment, on which tests with real files say more, are not in the model; the
  entropy of a section is given with it. Of ELF notes only build ids are read. The limits
  on what is read of a table of strings, of notes and of a section are in the model, in
  cells: that a limit cuts a string in its middle, so that half of its name is read, is not.
* Of documents: compiled code of a macro that looks like the beginning of its compressed
  source (`vba.py:258` takes the first place that does) is in no input.
* Of HTTP: the blank line that ends a head is one token, in whichever of its two spellings.
* PDF and LNK: regular expressions over a file and a fixed layout, no state.
* The string heuristics, the table of ATT&CK techniques, the patterns of the
  scanners, defanging and the table of TLDs: data. What they match is given.
* The decoder, exporters and rule generators: formatting of values that come in, one
  pass. Which types `to_misp` keeps is in `MISPPublisher`.
* The web page: a scan started with Ctrl+Enter while another is under way, and the
  later answer of the earlier one, only change what is shown.
* Settings, beyond the numbers the modules take as constants: a concurrency of zero
  (`config.py:90`) is assumed away, and which keys a visitor's settings carry
  (`web/app.py:172`) is not followed.
* In what is modelled: summaries in the metadata of reports, wording and evidence of
  findings, dates and references; records of an event log whose decoding raises;
  answers of sources that are JSON of another shape than expected; byte layouts
  below the fields that rules look at.
