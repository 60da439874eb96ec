# A verification of icecc-mon

icecc-mon is a terminal monitor for an icecream compile farm. It logs in to the
scheduler as a monitor, receives a stream of messages about hosts and jobs,
keeps a picture of the farm from them and shows it as a table. This directory
holds TLA+ models of its parts, TLC configurations that check them, and proofs
that TLAPS checks. Paths are those of the repository; `monitor.rs`, `main.rs`,
`model.rs` and `ui.rs` are in `src/src/`, the rest in
`src/crates/icecc-protocol/src/`.

## The system

```
 scheduler ==TCP==> run_monitor --monitor_tx--> forwarder --event_tx--> UI loop
 (external)         (monitor.rs)                (main.rs)    ^           (main.rs)
                                                             |           App, SchedulerState
                                          input thread ------+           (ui.rs, model.rs)
```

| Part | State | Operations | What makes it correct |
|---|---|---|---|
| Picture of the farm, `SchedulerState` (model.rs) | hosts, jobs, totals, connected, next colour | `apply_event` with seven kinds of events | the counters of hosts, the totals and the jobs shown agree whatever order events come in; a known host keeps its history |
| Monitor task (monitor.rs) | where it is: discover, connect, receive, sleep | connect, receive, end or fail, send `Disconnected`, retry | sessions never mix; an end is shown; it always tries again |
| Channels and forwarder (main.rs:56-71) | two queues | forward, apply | together one FIFO |
| UI loop (main.rs:98-165) | `last_redraw`, `redraw_pending`, the sleep, the log | one arm per kind of event and the timer | nothing stays undrawn, no more draws than allowed, q is heard |
| Table (ui.rs) | sort column and order, selection, expanded hosts, view, query | keys, draw | the highlighted row is the selected host and keys act on it |
| Discovery (discovery.rs) | none | one broadcast, one reply | what is too old or names another network is refused; no reply stops the task |
| Handshake and framing (connection.rs) | the stream, the agreed version | connect, `recv_message` | both sides agree on the version and never wait for one another; messages come whole and in order |
| Codec (codec.rs, messages.rs) | none | encode, decode | decode returns what was meant, or an error |
| Attributes of a host (`parse_stats`, `update_attrs`) | the attribute list and the fields made from it | parse, update | columns, details and log agree on the host's latest word |
| Header, log view, status bar | none | counts, formatting | the counts agree with the totals |
| Start-up and terminal | raw mode, alternate screen | set up, restore | restored when the user quits |

The monitor task, the forwarder and the UI loop are tasks on one
`current_thread` tokio runtime; the input thread is an operating-system thread.
They share nothing but the two channels. What is hard about the system:

- the scheduler dies, restarts and reuses ids, or its connection is reset with
  messages unread, while older events are still queued;
- messages tell of jobs whose request came before the login, of hosts that go
  while jobs run on them and of ids that are announced again;
- the redraw timer, keys and monitor events race, and each restarts the timer;
- the table is sorted and filtered once for the screen and once for a key, and
  hosts come and go between the two;
- whoever replies to the broadcast need not be the one who takes the connection,
  both ends read and write twice before the first message, and the stream may
  end within an integer;
- a report may leave out, repeat or garble what a row of the table shows.

`PROJECT.json` lists these hazards one by one, each at its line, with the
properties that cover it or the reason why none does.

## The modules

| Module | Models | Notes |
|---|---|---|
| `SchedulerState` | model.rs:7-223 | pure operators: `ApplyEvent` with one operator per arm |
| `SchedulerModel` | `apply_event` under any sequence of events | one action per kind of event |
| `IcecreamScheduler` | external: the scheduler and the connection | what it announces and how connections end |
| `Monitor` | monitor.rs, main.rs:56-71, 112-118 | composes `IcecreamScheduler`, the task, the forwarder and `SchedulerState` |
| `Wire` | codec.rs, messages.rs, lib.rs | pure operators over sequences of bytes |
| `SchedulerConnection` | discovery.rs, connection.rs, monitor.rs:25-60 | the task against an external peer, byte by byte |
| `MessageChannel` | the abstract specification of a connection | messages whole and in order |
| `HostAttributes` | monitor.rs:13-22; model.rs:54-90, 156-168; main.rs:185-191 | reports, rows, details and the log line |
| `Program` | main.rs:33-170 | composes `Monitor` and `RedrawLoop` in the one event channel, with the screen and the terminal |
| `EventFeed` | the abstract specification of the pipeline | one FIFO on which sessions follow one another |
| `RedrawLoop` | main.rs:98-165 | time in ticks |
| `AppUI` | ui.rs:50-166, 178-197, 291-478; model.rs:265-337 | keys, sorting, filter, draw |
| `MC...` | instances for TLC | with the `.cfg` files |
| `DataProofs` | nothing of the code | lemmas on sums, folds and sequences that the proofs share |
| `...Proofs` | theorems | one module per proved module; `ProgramProofs` instantiates `MonitorProofs` and `RedrawLoopProofs` |

**SchedulerState.** A `HashMap` is a function into records or `Absent`. Every
arm of the match is an operator: `ApplyHostStats` removes a host without `Name`,
renews a known one and gives a new one the next colour; `ApplyJobBegin` drops
unknown ids and raises the counters of the host, then of the client, then the
total. Integers wrap at `U8`, `U32` and `U64`, constants so that runs can choose
small widths. File names and start times are left out: no property tells them
apart. The attributes other than `Name` are in `HostAttributes`.

**SchedulerModel** adds three history variables: how many hosts were ever
registered, the number each shown host got, and the set `counted` of running
jobs whose start the host now shown saw. The header's lines are its operators
`active_job_count`, `local_job_count`, `pending_job_count` and `active_servers`.

**Wire.** A buffer is a sequence of bytes and a message a kind with its fields by
name. The order in which `encode` writes the fields (`Fields`) and the order in
which `decode` reads them (`FieldsRead`) are two definitions, as they are two
pieces of code. For each type of field there is what it takes to fit at the
cursor, what is read there and where the cursor goes. `IsMessage` says what a
`Message` can be: the fields of its kind and no others, each a u32, a language or
a text whose length with its NUL is a u32.

**SchedulerConnection.** `pc` is the await that `connect_and_monitor` stands at: the
datagram, the connection, the first or the second integer of the handshake, the
length or the payload of a frame, the sleep. `read_exact(n)` is enabled when `n`
bytes are there (`Has`), and fails when the stream is closed before (`ReadFails`).
`Leave` drops socket and streams, which is why nothing survives an attempt. A
datagram is given by what the code looks at: its length, first byte, version,
netname and where the first NUL is. It is refused for its length or its version
before the netname is sliced out and for the netname after; a slice that left the
buffer would end the task (`panicked`). The type invariant has what the task
returns, too: whatever `recv_message` gave back is a message with fields of its
kind (`received`). The peer is external: it need not be the one that replied, it
speaks first or second, may confirm another version, may send what is not a
message (`Speech`), and may go at any byte.

**MessageChannel** says what `connect_and_monitor` may rely on: on a connection the
messages are delivered as they were meant, in order, none skipped, and nothing
after one that is none. `SchedulerConnection` implements it with `meant <- said`,
where `said` records what the peer meant by its bytes.

**HostAttributes.** A report is a sequence of lines, a line the sequence of its parts
between colons. A host is the fields of its row (`Fields`) and the list `attrs` that
is shown under it. `update_attrs` folds over the pairs and replaces the list; `last`
is history: what each key said last since the host came.

**Program.** `rx` is `event_rx`, with what was typed and what the forwarder sent in
one queue. `Monitor` is instantiated with the monitor events in it as its queue
(`Fed(rx)`), `RedrawLoop` with the kinds of all its events (`Kinds(rx)`); an event
taken is a step of both (`TakeEvent`), and a draw copies the picture to `screen`. Its
assumptions are those of the two instances. What it adds to their properties is
about the screen: a screen that is not the picture has its redraw due
(`UndrawnIsDue`), it is exact when nothing is under way and no redraw pending
(`ScreenIsExact`), and it shows no host and no job under the header Disconnected
(`ScreenNeedsConnection`). `modes` is what `SetUp`
and `TearDown` did to the terminal; a start-up that fails leaves it as it was, or,
if the first draw fails, in raw mode and on the alternate screen. The other tasks
are spawned before `SetUp` and end with `main`, and keys and events wait in the
channel while the program starts. The runtime's one thread lets the spawned tasks
run only once `main` awaits; the model lets them run from the start, which are more
behaviours than the program has.

**Monitor.** `pc` is where `run_monitor` stands: `Discover` (monitor.rs:47),
`Connect` (51-56), `Receive` (60-100), `ReceiveLast` (an `End`, an error of the
stream, a frame that does not decode: the task returns to `run_monitor`, which
sends `Disconnected`), `AttemptFails`, `WakeUp` (37). An await is a point where
other tasks run, and the code between two awaits is one action. `wire` is
what the scheduler sent and the task has not read, `monq` and `eventq` are the
two channels. `HandshakeStalls` and `GoesSilent` are peers that stop answering.
`Send` never fails: the receivers live as long as the program.

**EventFeed** says what monitor and UI promise each other: `Connected` opens a
session only when none is open, hosts and jobs are told within one,
`Disconnected` closes it and may be repeated, and every event is applied once,
in order. `Monitor` implements it with
`feed <- eventq \o monq` and `session <- pc = "receive"`; `Forward` is a stutter.

**RedrawLoop.** `since` is the time since `last_redraw`, `timer` what is left of
the sleep. Each turn of the loop makes the sleep anew for what remains of the
interval (`LoopTop`). `select!` polls its branches in random order, so the timer
and an event that are both ready come in either order. A draw succeeds or fails;
a failure leaves `main`. Drawing and applying take no time, and the runtime
wakes a sleep when it is over (`Tick`): what is proved is the loop's
own delay, without that of a slow terminal. `stale`, `lag` and `quiet` are history.

**AppUI.** A key goes through `process_event` and `handle_key` and is followed
by a draw (main.rs:135-142). A monitor event changes the hosts under a screen
that still shows the old ones (`screen = Stale`) until the redraw. The order the
hash map iterates in is part of `state`, may become any order when a host is inserted,
and decides ties, as the sort is stable. The other part is what each host is like
(`HostLook`): how many jobs and attributes it has, its values in the columns, and
the text that search looks at. A report (`HostAppears`, `HostChanges`) changes all of
it but the jobs, and a job its number and the column that shows it. The rows
under an expanded host are counted by `DetailRows`, as `host_to_table_row` counts
them, and laid out by `HostRows`, as `draw_table` does; that the two agree is
`HighlightIsSelectedHost`.

## What the runs show

| Run | Instance | Shows |
|---|---|---|
| `picture` (MCSchedulerModel) | 2 hosts, 2 job ids, 3 starts of each kind, 3 registrations | `BooksBalance`, `RunningIsCounted`, `JobShape`, `HostKeepsHistory`, `HeaderAddsUp` |
| `colours` (MCHostColours) | 3 hosts, palette of 2, u8 with 4 values, 7 registrations | `NeighboursDiffer` |
| `monitor` (MCMonitor) | 2 hosts, 1 job id, 3 messages or events in flight, half-open peers | `PictureIsExact`, `OneSessionAtATime`, `NothingWithoutConnection`, `ImplementsEventFeed` |
| `monitor_live` (MCMonitorLive) | 1 host, 1 job id, 2 in flight | `EndIsShown`, `Reconnects` |
| `monitor_silence` (MCMonitorSilence) | the same with half-open peers | `SilenceIsNoticed` is violated |
| `redraw` (MCRedrawLoop) | interval of 3 ticks, log of 2 lines, 3 events queued | the throttle neither starves nor floods the screen; q ends the program |
| `table` (MCAppUI) | 3 hosts, 3 columns, one search character; reports change a host, a job comes and goes | highlight, Space and moves agree |
| `table_filter` (MCAppFilter) | the same | `SpaceExpandsWhatIsHighlighted` is violated |
| `table_search` (MCAppSearch) | the same | `SearchTakesEveryCharacter` is violated |
| `session` (MCSchedulerConnection) | peers of version 20, 21 and 45; 6 datagrams; 9 messages; 2 messages said on a connection | `VersionsAgree`, `ImplementsMessageChannel`, `EveryAttemptEnds` |
| `attributes` (MCHostAttributes) | 1 host; reports of up to 3 lines, out of 12 | `RowIsLatestWord`, `DetailsExplainRow`, `LogTellsWhoIsGone` |
| `program` (MCProgram) | 1 host, no job, 2 in flight, 1 key waiting, interval of 1 tick | `UndrawnIsDue`, `ScreenIsExact`, `ScreenNeedsConnection`, `ImplementsMonitor`, `ScreenSettles`, `QuitGivesTerminalBack` |

Why the bounds are enough. In `picture`, two hosts are a host and a client or a
host that is both; two job ids let one id be reused while another runs; three
starts let a job begin twice and once more on a host that came back. `colours`
takes 7 registrations with 4 values of a u8 and two colours, so the index wraps
and hosts of two rounds meet. In `monitor`, three in flight let an old event, a
`Disconnected` and a `Connected` be under way at once, on any of the three
queues. In `redraw`, an interval of three ticks has a beginning, a middle and an
end. In `table`, three hosts give the filter something to leave out before and
after the selection, and 3 columns are one sorted by name, one that jobs change
and one where all hosts tie until one reports another value; that report also
changes its name, what search finds and how many attributes it has. In `session`, the versions lie below and at the
minimum and above our own, there is a message of every kind, and two are enough
for one to be read at the place the other left; `MaxSaid` bounds them, and
integers stay below 2^31. Every datagram is wrong in one respect or in none. In
`attributes`, three lines are a name and a key that is said twice. In `program`,
one host is enough for the picture to differ from the screen, as the parts have
their own larger runs; one key may wait at any place among the events. The
bounds are `MaxStarts`, `MaxRegistrations`, `MaxInFlight`, `MaxQueue`, `MaxQuery`,
`Look`, `MaxSaid` and `MaxTyped`. Hosts and jobs are
interchangeable in the first two models, so `picture`, `colours` and `monitor`
use symmetry; the runs with liveness do not.

`redraw`, `table` and `program` do not check for deadlock: the program may be left, and
then nothing more happens.

**Fairness.** `FairSpec` of `Monitor` assumes that the monitor task, the forwarder and
the UI loop each run when they can: the runtime is cooperative and each of the
three awaits in every turn of its loop. It assumes nothing of scheduler and
network. `Reconnects` therefore has the condition that attempts can succeed from some time on.
`FairSpec` of `RedrawLoop` assumes that time goes on, that the timer's branch
is taken if it stays ready (`select!` chooses at random), and that the loop goes
on taking events. `FairSpec` of `Program` assumes what these two do, of the same
tasks, and that `main` goes on through its set-up and its end, where it awaits
nothing. `FairSpec` of `SchedulerConnection` assumes, besides the monitor task,
that a peer that stays does its part of the handshake: that is not the program's
doing, and without it an attempt may hang (see `SilenceIsNoticed`);
`EveryAttemptEnds` says that nothing else makes it hang.

`ScreenSettles` has the condition that scheduler and network are quiet from some
time on, and is checked without half-open peers (`HalfOpen` is `FALSE`): one that goes
silent is never found out, which is the disagreement `SilenceIsNoticed` below. And `QuitGivesTerminalBack` excepts a failure of the terminal itself:
every `?` in `main` leaves without restoring anything.

### Disagreements

- `SpaceExpandsWhatIsHighlighted`: Space takes the selected index into the whole
  sorted list (ui.rs:110), the screen into the filtered one (ui.rs:309-327). With
  two hosts of which the search finds the second, Space expands the first, which is
  not on the screen. Without a filter they agree (`SpaceTogglesHighlighted`).
- `SearchTakesEveryCharacter`: `q` is looked for before the view is asked
  (main.rs:107), so it cannot be typed into the search line and leaves the program.
- `SilenceIsNoticed`: nothing that `connect_and_monitor` awaits after discovery has
  a timeout (connection.rs:28-46, 79-87), and nothing is written after the login. A
  peer that loses power leaves the last picture on the screen as Connected.

## What is proved

Every safety property of the passing runs, and each of the three refinements, is a
theorem, for every value of the constants, from the named assumptions of the modules. The
assumptions say that sets of hosts are finite where they are counted, that an
absent host is none, that integers have the width of their type, and what the
bounds must be for it to be meaningful (`MaxStarts` below 2^32, a palette that
divides the colour index).

- *Data* (`DataProofs`). The provers cannot use an induction theorem whose
  parameter is an operator, so induction is stated with sets: a set of numbers
  that has zero and every next number has them all (`NumberInduction`, from the
  well-foundedness of finite subsets), and likewise for sequences
  (`AppendInduction`) and finite sets (`SubsetInduction`). On these rest the laws
  of the folds of the community modules: a fold over a longer sequence is one
  step more (`FoldAppend`, `FoldPrepend`), a sum over a set changes by what a member
  changes (`SumOfSet`, `SumBound`), pieces are joined one after another from either
  end (`FlattenLaws`), so what the elements of a queue become is computed element by
  element (`FlatMapLaws`, `FlatMapHead`), and counting the members before each in a total order gives every
  place once (`EveryRankIsTaken`).
- *The operators* (`MonitorProofs`). `ApplyEventType`: `ApplyEvent` maps
  `State` to `State` for every event, so no counter leaves its width. It needs
  `StateAssumption` only; the feed, the pipeline and the program rest on it.
  `SchedulerModelProofs` has it again (`EventType`) from its own lemmas about each arm.
- *The picture under any events* (`SchedulerModelProofs`): `PictureTyped`,
  `JobsAreWhole`, `CurIsCovered`, `HostsKeepHistory`. `RunningIsCounted` is not
  inductive: a counter at its maximum would wrap below the number of running
  jobs. `IInv` adds that every counter of a host is at most the header's total
  (`BelowTotals`) and that counted jobs run on hosts that are shown
  (`CountedRun`). The totals are at most `MaxStarts`, which `ModelAssumption`
  has below 2^32, so every increment is a plain one (`IncPlain`). An event is
  shown to be one of three: it leaves jobs alone, it leaves hosts and running
  jobs alone, or it begins a job and raises the counter that covers it.
- *Its columns and header*, in the same module: `ColumnsBalance` and
  `HeaderAgrees`. An event raises at most one counter of a column, by one, and the
  header's total with it; a host that is new adds nothing and one that goes takes
  its part away (`StepIsBooked`), so the sum stays within the total
  (`BookedStaysBelow`). Of
  `HeaderAddsUp` two conjuncts are
  inductive together with `IInv` (`RunningBelowTotals`): an event that adds a job
  of a kind adds one and raises the total of that kind by one (`NextCounts`),
  where `IncPlain` excludes the wrap. The other two hold in every well-typed state:
  jobs are split by their state (`KindsOfJobs`), and the map from busy jobs to
  active servers is a surjection (`ServersHaveJobs`).
- *Its colours*, in the same module: `NeighboursDifferInColour`. The invariant
  `ColourInv` says that `next_color` is the number of registrations modulo the
  width of a u8 and that each host has its own number modulo that width. As the
  palette divides the width (`ModelAssumption`; 256 and the length of
  `HOST_COLORS`), the wrap does not disturb residues (`PaletteOfWrapped`), and
  two numbers less than a palette apart have different ones (`Apart`).
- *The pipeline* (`MonitorProofs`): `TypeCorrect`, then `Refinement`, action by
  action: the task's steps send at most one event to the feed, the UI applies
  its head, `Forward` and the rest stutter. Of the feed itself, `Sessions` and
  `SessionsFollow`; their invariant `FeedInv` is about every two neighbours in the
  queue (a `Connected` only after a `Disconnected`, hosts and jobs never right
  after one) and about its two ends: it starts in the session that is shown and
  ends in the one the task is in. `TableNeedsConnection` and `SessionsNeverMix`
  carry the two over by the refinement.
- *The picture is exact*, in the same module: `PictureCorrect`. `PictureIsExact`
  speaks of the moment when everything under way has arrived; `PictureInv` says at
  every moment that the picture in which all that is under way will end
  (`Final`, a fold of `ApplyEvent` over both queues and what the wire will
  become) is the one the scheduler announced, or an empty one. Events that are
  forwarded, read or applied leave `Final` alone, and what the scheduler
  announces is one more event at its end (`AnnouncedIsApplied`).
- *The codec* (`SchedulerConnectionProofs`): `RoundTrip`. A field is read back where
  it was written (`Reads`: it fits, it has its value, and the cursor ends behind it), and a
  message by induction over its fields, each found where the last one left the
  cursor. It holds of every text and every u32, and whatever follows the last
  field, as a newer protocol may say more than this one reads.
- *The handshake*, in the same module: `VersionsAlwaysAgree`,
  for any sets of datagrams, versions and messages.
  `VersionsAgree` is about states after the handshake and says nothing of the
  bytes under way; `IInv` adds that at each of its two reads the four
  bytes due are all there is in the stream, or the stream was cut within them
  (`Arrives`), so one integer cannot be taken for the other.
- *The channel of messages*, in the same module: `ConnectionIsChannel` and
  `ConnectionTyped`. The invariant `ChannelInv` says what the bytes that wait
  are: the frames of a sequence of things said (`Carries`), possibly cut
  somewhere by a peer that has gone, that begin at a frame (`Between`), or,
  after a length was read, with the payload of that length (`Within`);
  and that what was received and that sequence together are what was said.
  Reading a length or a payload keeps it, `RoundTrip` makes the payload the
  message that was meant, and a payload that is no message ends the connection.
  `ConnectionTyped` needs it for `received`: only on a channel of whole messages is
  what `recv_message` returns a message that was said. It holds of a peer that says
  what is in `Speech`, any set of messages and of frames that are none.
- *Attributes* (`HostAttributesProofs`): `RowsTyped`, `RowsAreCurrent`,
  `DetailsAgree` and `LogAgrees`. What a report tells of a row is shown to be what
  its text says last of each key (`Tells`), by induction over its lines, for `parse_stats`
  and `update_attrs` together; `IInv` adds that nothing is remembered of a host
  that is gone, and that the list under a row explains it (`Explains`).
  `LogAgrees` has the condition that no report names its host "?", as this is
  what the log says of a host without a name: such a host would be logged like
  one that leaves. The run's reports name none.
- *The table* (`AppUIProofs`): `FieldsTyped`, `HighlightRight`, `SpaceRight`,
  `MovesRight`. `sorted_host_ids` is characterised first (`SortedHostIds`): every
  host once, in the order of the column, ties in the order of the map. The
  rows are then counted in two ways, as the draw counts them to find the
  highlight and as it lays them out, and the counts agree
  (`CountedRowIsHostRow`). The invariant `ScreenShowsState` says that an up-to-date
  screen is a drawing of the fields as they are, and that drawing again would
  not move the selection.
- *The loop* (`RedrawLoopProofs`): `LoopTyped`, `StaleHasRedraw`, `ScreenIsFresh` and
  `Throttled`. The bound on staleness needs the clocks in the invariant: a
  change has not waited longer than the time since the last draw, and however
  often an event makes the sleep anew, it ends when that time reaches the interval.

- *The program* (`ProgramProofs`): `TypeCorrect`, `Refinement`, `ScreenFollows`,
  `EndToEnd`, `DisconnectedShowsNothing` and `LoopCarriesOver`. Neither part is proved
  again: the lemmas of `MonitorProofs` and `RedrawLoopProofs` are instantiated with
  `Fed(rx)` and `Kinds(rx)` for their queues, and the two instances of each module
  are shown to be the same (`MonitorSteps`, `LoopOperators`). What is left is how
  `rx` looks to either side: what is typed adds nothing to the monitor's part, what
  the forwarder sends comes to its end, and what the loop takes is its head or was
  typed (`FedLaws`, `KindsLaws`). So every step is a step of the monitor or a stutter
  (`NextRefines`). `UndrawnIsDue` is not inductive; `IInv` adds the clocks of the
  loop, of which `redraw_pending = stale`, and that while the loop runs with nothing
  stale the screen is the picture (`Drawn`). `EndToEnd` then joins `PictureInv` of
  the monitor, in a state with nothing under way, to that.

Model-checked but not proved: the liveness properties
`EndIsShown`, `Reconnects`, `ChangeIsDrawn`, `QuitIsHeard`, `EveryAttemptEnds`,
`ScreenSettles` and `QuitGivesTerminalBack`, which depend on fairness and are out
of the prover's reach.

## What is not modelled

- The wrap of a host's u32 counters: the runs stay below 2^32 jobs. A debug build
  panics there, a release build wraps.
- Layout: column widths, bars, colours other than a host's, how many of its last
  lines the log view shows, the status bar. Anonymised names: `anonymize_str` is a pure function of a
  name, used for the host column and the file names of jobs (ui.rs:374, 411); the
  attributes under a row and the log are not passed through it, and no property is
  about that.
- What the selection means when hosts come and go under it: it is an index, and
  the code promises nothing about the host it then is.
- Growth of the unbounded channels: the code sets no bound.
- UTF-8 beyond "a byte that is no text". Integers of 2^31 and more are in no run, as
  TLC has none; the theorems about the codec are of every u32.
- That the scheduler shown is one of the network asked for: no property says so, as
  the code does not see to it. A reply with an empty netname or one that is not
  UTF-8, and a configured address, are taken without a check and shown under the
  netname asked for (discovery.rs:27-33, 67-71, 83).
- That a begin of an unknown job is not counted, and that a host which keeps its id
  in `expanded` and comes back appears as it was: the models have both as the code
  does, and no property is about them.
- The comment at discovery.rs:54 says that from version 38 the first byte of a
  reply is the version plus 3; the code asks only that it be at least 3, and takes
  the version from the next four bytes. No run is about the comment.
- The input thread's own loop, which ignores errors of the terminal and keeps no
  state; argument parsing, whose result is `configured` and `Netname`; packaging.

## Plan

Done, in this order: `SchedulerState` and `SchedulerModel`; `EventFeed`,
`IcecreamScheduler` and `Monitor` with the refinement; `RedrawLoop`; `AppUI`;
`Wire` and `SchedulerConnection` with the refinement; `HostAttributes`; `Program`;
the proofs of each, and those of `Program` from the proofs of its parts. Nothing of
the plan is left but what the provers cannot do, the liveness properties.
