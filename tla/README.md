# Formal models of the Endpoint Security System

TLA+ modules, TLC configurations and TLAPS proofs for the two halves of this
repository: the **monitoring agent** (an eBPF program and a C daemon that trace
system calls and post them in batches) and the **management server** (a Flask
backend on MySQL and a Next.js dashboard).  Every definition is translated from
the source; `PROJECT.json` maps each one to the lines it stands for.

    tlc -workers 2 -config agent_safety.cfg MCMonitoringAgent   # a model-checking run
    tlapm MonitoringAgent_proofs.tla                            # a proof module

Paths below are relative to `src/`; `agent.c` and `bpf.c` are short for
`MonitoringAgent/src/monitoringAgent.c` and `monitoringAgent.bpf.c`, and `api.py`
is `ManagementServer/backend/api.py`.

## 1. The system

    tasks --syscalls--> handlers (kernel) --ring buffer--> agent daemon --POST--> submit_logs
                                                                                     |
    browser --fetch--> Next.js routes --HTTP--> Flask threads --transactions--> MySQL tables
                                                                                     |
    generated configuration file  <---- create_endpoint                   (analysis service)

| Component | State | Operations | Talks to |
|---|---|---|---|
| Kernel hooks (`bpf.c`) | the BPF ring buffer, one record per running handler | four tracepoint handlers: reserve, fill, submit or discard | the daemon, by the ring |
| Daemon (`agent.c`) | `event_buffer`, `event_count`, `exit_flag`, where `main` is | `main`, poll loop, `handle_event`, `submit_events`, signal handler | ring, log ingress, systemd |
| Agent configuration (`agent.c:34-160`) | `config` | `load_config`, `trim`, `validate_config` | the file `create_endpoint` writes |
| Accounts (`api.py:37-146`) | table `users` | `register`, `login`, `change_credentials` | login page |
| Endpoints (`api.py:175-237`) | table `endpoints` | `create_endpoint`, `get_endpoints_count` | endpoints page, overview |
| Log ingress (`api.py:148-173`) | table `events` | `submit_logs` | agent |
| Login page and its routes | form shown, `isLoading`, `error` | log in, change credentials, answers, leave, reload | accounts |
| Endpoints page, overview, routes | form, number shown, saved files | create and save, fetch the number, navigate, reload | endpoints |
| Event stream (`EventDash.js`), route and `dbtest` (`api.py:22-35`) | `events`, `loading`, `error`, filters | fetch when mounted and on every change | table `alerts` |
| Shell (`Navbar.js`, `ThemeToggleButton.js`, ...) | `isLoggedIn`, `isDark` of each bar | navigate, toggle, reload | event stream, which mounts a second bar |
| Analysis service | none | sleeps in a loop; its functions are empty | - |

What is hard about it, and what makes each component correct:

* **Hooks and ring.**  Handlers on all CPUs reserve and finish in different
  orders, the consumer stops at the first busy record, a full ring drops events
  silently, and `handle_open` reserves only to discard.  Correct means: every
  record has exactly one handler that will give it back, the order of the system
  calls survives, and no event is unaccounted for.
* **Record memory.**  The ring does not clear what it hands out, handlers leave
  fields unset, `handle_execve` counts `argc` up from what is there, and a record
  does not divide the ring, so that fields come to lie on other fields.  Correct
  means: the daemon copies what that event's handler wrote, and only that.
* **Daemon.**  One thread, blocked during a POST; the POST itself makes traced
  system calls; each step of the start, the POST and the loop can fail; signals
  and kills come at any point.  Correct means: batches have the right size, the
  buffer stays in its array, an event is delivered at most once and in order,
  the process stops when told, and leaves nothing in the kernel.  (Two of these it
  misses: see `agent_overflow` and `agent_self_feeding`.)
* **Accounts.**  Requests are transactions of several statements in concurrent
  threads, with snapshot reads, row and gap locks, deadlock victims, commits
  whose confirmation is lost, and exceptions answered with status 200.  Correct
  means: each request amounts to one atomic step on the table, and what it
  answers was true at some moment of the request.
* **Endpoints.**  The same, with a number that is read in one statement and
  used in another.  Correct means: numbers and keys are unique, and a
  configuration file that a user has names a row of the table.
* **Log ingress.**  Returns in the middle of a loop, on every path through a
  `finally`.  Correct means: what was acknowledged is stored, and no connection
  is left open.
* **Pages.**  Answers come late, to forms that are gone, or not at all.  Correct
  means: loading ends, and what is shown was answered to what is asked.
* **Agent and server together.**  Each batch goes out on a new connection, and
  the agent may give a request up (an error of curl, its own death) that still
  arrives.  Correct means: the server is given an event at most once, and
  batches overtake each other only where the agent gave one up.
* **Event stream, shell.**  Answers of overlapping fetches in any order; copies
  of state taken once when a component is mounted.  Correct means: the page loads
  only while it waits, and shows the last answer if its fetches did not overlap.

The full list of hazards, each with its line and the properties that cover it,
is `hazards` in `PROJECT.json`.

## 2. The modules

| Module | What it is |
|---|---|
| `EventFeed` | abstract: a best-effort feed; an event is delivered at most once, never after a later one, never after it was lost |
| `KernelHooks` | the four handlers and the ring (`bpf.c`, `common_data.h`) |
| `MonitoringAgent` | extends it by the process: `main`, `handle_event`, `submit_events`, signals, systemd |
| `EventRecord` | extends `KernelHooks` by the memory of the ring, the fields that each handler sets, the clock, and what `handle_event` copies |
| `AgentConfig` | `load_config`, `validate_config`, the generated file |
| `UserStore` | abstract: a table that gains one user with a new name, or is replaced by one user |
| `Accounts` | `register`, `login`, `change_credentials`, statement by statement |
| `LoginPage` | extends it by browsers, the login page and its two routes |
| `EndpointRegistry` | abstract: endpoints numbered without a gap, keys never shared |
| `Endpoints` | `create_endpoint`, `get_endpoints_count`, their pages and routes |
| `LogIngress` | `submit_logs` |
| `EndpointSecuritySystem` | composes `MonitoringAgent` and an instance of `LogIngress` through the network |
| `AppShell` | navigation, the two bars, the theme |
| `EventDash` | extends it by the event stream: the page, its fetches, `dbtest` |
| `KernelHooks_proofs`, `MonitoringAgent_proofs`, `EventRecord_proofs`, `AgentConfig_proofs`, `LoginPage_proofs`, `Endpoints_proofs`, `EndpointSecuritySystem_proofs`, `EventDash_proofs` | proofs about the module of that name and what it extends |
| `MC*` | instances for TLC: constants that a `.cfg` cannot write, symmetry |

Definitions marked *Mutant* in a comment are plausible bugs of the definition
that follows; each property is known to be violated when the mutant takes its
place (`mutants` in `PROJECT.json`).

### KernelHooks and MonitoringAgent

A handler is two steps that others can see, reserve and submit or discard; what
it writes in between is private.  `ring` is the sequence of records between
consumer and producer, each with its task, its event and whether it is busy,
ready or discarded.  Events are numbered by system call (`issued`) with their
reserves, so that "in order" means the order of the reserves, which is that of the
ring; what a handler does before it (`bpf.c:181-197`) is not part of that order.
The agent's own calls, and those of the tasks in `Endless`, which never stop making
them, carry the number `Uncounted = 0`: they take up room and trigger batches like
any other event but are not tracked one by one.  `lost` collects
the events that can no longer arrive: no room in the ring, discarded, dropped by
the buffer's guard, in a failed POST, or in a process that ended.

`pc` of `MonitoringAgent` is the line `main` has come to.  Each return path of
the start is an action (`ConfigureFails`, `OpenAndLoadFails`, `AttachFails`,
`NewRingFails`).  The handlers are attached one by one (`AttachHook`), and each runs
from then on: an attach that breaks off finds handlers in progress and records in the
ring, and the `destroy` at `agent.c:312` has to release them.  SIGTERM ends the process
before `signal()` at `agent.c:300-301`, and sets `exit_flag` from there on, which the
rest of the start does not look at.
`ring_buffer__poll` is `Wake`, then one action per record until `DrainEnds`,
which is libbpf's loop (external, modelled from its use: it reads on until the
ring is empty or a busy record comes, and frees a record only after the callback
returned).  `handle_event` is `Collect` when the batch is not complete,
`SubmitFails` when `curl_easy_init` fails, and otherwise `Submit`, `PerformCall`
for each traced call that the POST makes (`SelfCalls`), and `PostReceived` or
`PostFails`; both empty the buffer, because `submit_events` returns 0 either way.
`Crash` is SIGKILL at any point, `Restart` is `Restart=on-failure`.  What a
record carries and time are in `EventRecord`; the JSON text is left out.

### EventRecord

The same ring and handlers, with the consumer reduced to `handle_event` and
`Skip`.  `memory` is a circle of words, one for each field that matters;
`Address` is the position modulo the size, as in the kernel.  Between its reserve
(`Begin`) and its submit (`End`) a handler writes in one step what it writes at
all (`FillSocket`, `FillOpen`, `FillExecve`), which nobody else can read before.
`FillExecve` adds the arguments to the `argc` that is there.  `written` is
history: what the handler of each event wrote, and how many arguments it had.

The geometry is that of the code. A record has 3488 bytes (`struct event` and the 8
bytes of the kernel's header), which leaves 3424 of the 16 MB after 4809 records, so
that each lap shifts the fields by 64 bytes, half of an argument (`ARG_LEN` is 128):
on the second lap `argc` lies on bytes 60 to 63 of `argv[0]` of a record of the
first. The model's records have 9 words and its ring 26, two records and all but one
word of a third: the second lap lies one word later, and `argc` falls on a word of
text there as well.

### AgentConfig

A file is a sequence of lines, a line sets one option or is skipped, and a text
is an identity with a length, cut at the size of its field.  Numbers go through
`Wrap`, what an `int` keeps of them.  `Finish` is everything after the last
line: the buffer is enlarged to two batches and the configuration validated.
On a blank line `trim` reads the byte in front of the buffer (`agent.c:46-50`), which
is undefined; in the build that byte is the highest of the size `malloc` keeps
there, which is zero, so that the line ends up empty and is skipped: that is how
`Line` has it.  `Generated` is the file of `create_endpoint` for a name without a
line break, blank names included.

### Accounts and LoginPage

`at[r]` is the statement request `r` comes to.  A SELECT reads the committed
table of the request's first SELECT (`view` for a login; the other two read
once); DELETE and INSERT wait for the locks of other transactions (`Inserted`,
`Swept`), which is InnoDB's behaviour (external), with `Victim` for the request
it rolls back when two wait for each other.  `StatementFails` and
`CommitUnconfirmed` are the exceptions.  `Collate` maps each word to what the
database's comparison makes of it; Python compares exactly.  `during` and
`effect` are history: the tables there were while a request was made, and the
requests that took effect.  `Status` has the HTTP status of each answer, 200 for
an exception: that is what the routes of `LoginPage` look at (`Ok`).

A page awaits one request; it can be reloaded, which forgets it, or left and
opened again, after which the old handler still runs and may open the dashboard
(`LateDashboard`).

### Endpoints

The same kind of transactions on `endpoints`, and a browser that moves between
the form and the overview: `waiting` are the requests whose handlers still run,
`form` the one the mounted page awaits (its `isLoading`), `downloads` the files
users have.

### LogIngress and EndpointSecuritySystem

`connection` is the Python variable, "unbound" until `pymysql.connect` returned.
`Return` answers 200 and closes the connection, which rolls the INSERT back.

`EndpointSecuritySystem` splits the POST of `MonitoringAgent`: `Send` puts the
batch on `wire`, `Arrive` is `Receive` of `LogIngress`, and the agent goes on when
the request is `Answered`.  `GiveUp` is an error of curl and `Killed` the death of
the process, each at any time of the POST; the request then stays where it is, on
the wire or in a thread, and what becomes of it no longer concerns the agent.
Other clients make requests of their own (`ArriveOther`), and `MaxConnections`
limits them all.  `MonitoringAgent` counts a request that was given up on the wire
as lost, although it may still arrive: the order of `EventFeed` holds for the
table up to such requests, which is what `OnlyGivenUpOvertaken` says.

### AppShell and EventDash

The root layout has a bar for the life of the document, the events page mounts a
second one; each copies the login state (from the path) and the theme (from the
`html` element) when it is mounted.  `odd` is history, on which bars the theme was
changed an odd number of times with the other one.

A fetch knows its page by `mount`; `Refetch` is the effect that runs when
category, search text or page number changed, and it cancels nothing.  `dbtest`
and `Fails` answer a fetch in any order, `Handle` is the rest of `fetchEvents`,
without effect when its page is gone.  A failure inside `dbtest` has status 200 and
no array, which the page shows as an empty list.

## 3. What the runs check

| Run | Question and result |
|---|---|
| `agent_safety` | With every fault and two tasks racing: records have exactly one holder, events are accounted for and in order of their reserves, a process that is down left nothing in the kernel, also after an attach that broke off, the whole implements `EventFeed`, and a signal stops the agent unless other tasks make traced calls without end. Holds. |
| `agent_self_feeding` | Does the signal stop an agent with `batch_size=2`? **Violated**: its own POSTs keep one drain going for ever. |
| `agent_overflow` | Does `event_buffer` hold what `handle_event` stores, with a configuration that is accepted? **Violated**: the guard lets one entry too many pass when `curl_easy_init` fails again and again. |
| `record` | `handle_event` gets what the handler of that event wrote; `argc` is right except for a program execution in memory used before; stamps disagree with the order of records only between handlers that ran together. Holds. |
| `record_clock` | Is the stamp that is sent the time of the event? **Violated**: `convert_ns_to_unix` subtracts it from the present time, which gives the time of boot plus the age of the event. |
| `config` | An accepted configuration follows its file, sets every option but `buffer_size`, and has room for two batches unless doubling the batch size overflows; a generated file is accepted exactly if the name in it is not blank. Holds. |
| `login_page` | Answers are truthful, the transactions implement `UserStore`, every request is answered; a login that opens the dashboard was accepted, *or a statement of it failed* (that is answered 200 and taken for a success); loading ends. Holds, with that exception. |
| `login_deadlock` | Was a change of credentials that opened the dashboard made? **Violated**: the victim of a deadlock is answered 200, as every exception is, those of `login` included. |
| `endpoints` | Numbers without gaps, keys not shared, saved files name rows, the overview never shows an older visit's number, loading ends. Holds. |
| `ingress_lost` | Is an event that was acknowledged in the table? **Violated**: `submit_logs` never commits. |
| `system` | The server is given an event at most once, requests overtake only those given up, what the agent counts as posted is what the server received, up to requests given up, an answered request holds neither connection nor uncommitted row, batches are exactly `batch_size` as long as `curl_easy_init` works, and every record leaves the ring, although a POST takes as long as the server does. Holds, for traffic that ends: `MaxSyscalls` bounds it. |
| `dash` | The page loads only while a fetch of its own runs, shows the last answer unless its fetches overlapped, and loading ends; a theme button is wrong exactly after an odd number of clicks on the other one. Holds. |

The violated statements are those of comments and documents of the repository;
`findings` in `PROJECT.json` quotes them.  Other things that the models made plain:

* A steady stream of traced calls keeps the agent from noticing a signal whatever its
  batch size is: libbpf's drain returns only when it finds no record to read, and
  `exit_flag` is tested between two polls.  `StopsWhenQuiet` has this exception,
  `Endless` in `agent_safety` makes the calls.
* `login` answers an exception with 200 (`api.py:108-110`), the route looks at the
  status only, and `login/page.js:53` opens the dashboard: with a statement that fails
  anybody logs in.  `LoginEarnedOrFailed` has this exception; the finding of
  `login_deadlock` reports it with that of `change_credentials`.
* `README.md:48` and `:73` say that six options are required, and `:67` that
  `buffer_size` is not implemented and should be left at 100.  The code accepts a file
  without `buffer_size`, uses the option when it is there, and `create_endpoint` writes
  65: `FollowsFile` says what the code does.
* `create_endpoint` refuses an empty name only (`api.py:180`).  A name of blanks is
  written to the file, `trim` leaves `name=`, and `validate_config` refuses the file
  that was generated (`GeneratedWorks`).
* A batch size above `INT_MAX / 2` is accepted with a buffer that is too small for it
  (`agent.c:150` says otherwise): `AcceptedFits` is stated below that.
* `argc` of a program execution in memory that held a record before is wrong, and may
  lead `submit_events` behind the record; `ArgcRight` excepts exactly these.
* `MAX(endpoint_id) + 1` is read without a lock, and two creations may work out the
  same number; the primary key refuses the second, which is answered 500.
* After overlapping fetches the event stream may show the list of a success beside
  the error of an earlier failure: only the start of a fetch clears the error.
  A database that is down looks like one without events.
* After a login without a reload the bar of the root layout still shows Login.

### Bounds, and why they are enough

* `agent_safety`: 2 tasks and the agent, a ring of 2 records, 3 numbered system calls
  and any number of others (`Endless` has one task, which makes them without end),
  batches of 3 in a buffer of 6.  Two slots and three producers make the ring full with
  records in all combinations of states, while handlers are attached one by one;
  three numbered events, with others between them, are enough for two to be in order
  and one to be lost at each place.  Batches of 3 are more than the two events of a
  POST, so that only other tasks can keep a drain going.
* `agent_overflow`: a buffer and a batch size that `validate_config` accepts, a ring of
  one record, one task.
* `agent_self_feeding`: batches of 2, which the two events of a POST complete by
  themselves; no fault is needed.
* `record`, `record_clock`: 2 tasks, 4 records and room for 2, so that records of
  the second lap are written while others are read, and the fourth lies across
  words of the first; texts that read as a number larger than `MAX_ARGS` when
  they are taken for `argc`; one tick of the clock, which is enough to give two
  handlers different stamps.
* `system`: 1 task, 4 system calls, batches of 3 (which the events of a POST do not
  complete by themselves), 2 requests of the agent and one of another client on 2
  connections: one request can be given up and overtaken, and the third client
  finds no connection.  The four calls end: what traffic without end does is the
  business of `agent_safety` (`SystemAssumption` has `Endless = {}`).
* `config`: an `int` of 8 bits, so that overflow is among the numbers tried, and
  some 20 000 files: options missing, repeated, in several orders, texts at and
  around the ends of their fields, each pair of sizes in both orders.
* `login_page`: one browser and a client without a page, 3 requests of any kind, so
  that two can deadlock while a third observes, or one be left behind by its form
  while the next runs; two words that are one name to the database.
* `login_deadlock`: 2 browsers and 4 requests (two logins and two changes are what the
  deadlock takes), without faults, so that nothing but the deadlock goes wrong.
* `endpoints`: one browser and an API client with 3 requests: two creations race
  and one count observes them.
* `ingress_lost`: one request suffices.
* `dash`: 3 fetches, of which two overlap and one belongs to a page that was left;
  3 paths, the table changed once.

Each request is made once and each signal sent once; these are bounds, not
behaviour of the code.  Runs without fairness and without liveness properties use
symmetry in tasks, pages or requests where the constants allow it.

### Fairness

* Agent (`Fairness`): the process runs when it can, started handlers finish
  (they cannot be stopped: tracepoint programs do not sleep), a POST returns, and
  systemd restarts a failed service.  The POST is an assumption on the network:
  no time limit is set at `agent.c:233`.  No system call, fault or signal is
  forced.
* Agent and server (`SystemFairness`): the assumption on the POST is gone.  It
  returns because the threads of the server run to their answer, or, if the request
  or its answer can no longer come, because TCP reports the broken connection.
  What is on the wire arrives or vanishes.
* Backend (`FairSpec` of `LoginPage` and `Endpoints`): the thread of a request runs, and
  InnoDB grants a lock that is free; faults are never forced, nor users.
* Pages: an answer that has come is handled; in `EventDash` every fetch is answered
  or fails, since `dbtest` runs one statement and the `fetch` of the route gives up
  by itself (Node's default limits; the code sets none).

## 4. What is proved

TLAPS proves the following for all values of the constants that satisfy the
named assumptions (`HooksAssumption`, `AgentAssumption`, `RecordAssumption`, `ConfigAssumption`,
`AccountsAssumption`, `EndpointsAssumption`, `SystemAssumption`, `PathsAssumption`,
`DashAssumption` and those of the modules they use); `theorems` in
`PROJECT.json` lists the results.

**KernelHooks_proofs** holds the lemmas that the next two share: each hook operation
and each step of the consumer keeps `HooksInv`, which is the types, one holder for
each busy record, and that numbers in the ring were issued.

**MonitoringAgent_proofs**: `TypeCorrect`, `OneHolderAlways`, `BufferBounded`,
`PostsExactBatches`, `StoreInArray`, `NothingLeftBehind`.  They
follow from one inductive invariant, `Inv`.  Its parts: `HooksInv` (a record must
have been issued to be added to `lost` when it leaves); the buffer's bounds
`BufferInv`, where the bound alone is not inductive: that a POST finds at least a
batch and that, without `curl_easy_init` failures, a buffer outside of a POST has
*less* than a batch; and what `pc` says of the rest: during a POST the record at the
head is ready and stays, because handlers only append and mark busy records.  There
is one lemma per group of actions of the process; `NextInv` combines them.
`StoreInArray` supposes that `curl_easy_init` does not fail: `agent_overflow` reaches the
entry behind the array when it does, and `BufferBounded` says that it is one entry and
no more.  `NothingLeftBehind` covers an attach that broke off: a process that has not
come to the attaching, or does not run, has no handler in place, and only `Release`
leads there once one was attached.

The second half has `EventsAccounted`, `EventsInOrder` and `AgentImplementsFeed`.
The invariant is `Inv /\ FlowInv`, where `FlowInv` is `Accounting /\ InOrder`:
inductive together, and not one without the other (that an event is in one place
only after `handle_event` copied it follows from its being older than the rest of
the ring).  The proof goes through three sets: the events in the buffer, those
unread in the ring, those posted.  `HeadEvent`, `HeadFirst`, `LastEvent` and
`MarkedEvent` say what the first record, an appended one and a changed one do to
the set in the ring; `IssueStep` and `MoveStep` say, of any step that adds the
next number or moves events one place on, that `FlowInv` survives and that the
step is one of `EventFeed` or a stutter.  Each action is then one of the two.

**EventRecord_proofs**: `RecordTypeCorrect`, `EventsCopiedIntact`, `ArgcIsRight`,
`ArgcIsRightAtFirst`, `DisorderOnlyByOverlap`, for every size of ring, in particular
one that records do not divide, and every number of arguments.  What they rest on is
arithmetic: the records between consumer and producer are fewer words than the ring
has, and remainders tell numbers apart that are closer than the divisor
(`ModDistinct`), so that no two of their words share an address (`AddressDistinct`)
and a write changes one word of one record (`SetWord`).  The invariant:

* `LayoutInv`.  Records lie in the order of their numbers, a record is filled exactly
  if the history has an entry for it, and its memory then has the words of that entry
  (`Kept`), which is what `WordsOwned` says after the copy.  `WordsOwned` alone says
  nothing before it.
* `ArgcInv`.  On the first lap the memory from the producer's position to the end is
  zero (`ZeroAhead`), so that a record reserved there finds `argc` zero (`Blank`), and
  its handler counts right (`RingCounted`).  After a lap nothing is known of `argc`
  but what the handlers that set it write.  `ArgcIsRightAtFirst` draws the conclusion
  for the user: the count is right until the ring was filled once, 4809 events in
  the agent's.
* `StampInv`.  A record that is not filled yet was there when each later one came
  (`Together`), so that an older event with a later stamp overlaps the younger.

**EndpointSecuritySystem_proofs**: `EventsReceivedOnce`, `OvertakenOnlyIfGivenUp`,
`IngressTypeCorrect`, `ConnectionsReturned`, `SystemPostsExactBatches`, `RequestsInOrder`,
`PostedWasReceived`.  Every step
of the composition is a step of the agent, of the log ingress, of both or of the
network, so that `Inv` and `FlowInv` of the agent carry over.  What is added relates
the two sides: the bodies that were sent are disjoint and no event that was sent is
still in the agent except in the running POST; a request that is neither the running
one nor answered was given up.
For the order, `SentOrdered` says that a body comes before those of later requests
and before all that the agent holds besides it: what comes into the agent later has
a higher number, and the next body is taken from what it holds.
`PostedWasReceived` ties the agent's `posted` to the server: it is a history of the
agent alone, in which a request that was given up counts as lost, so that it says
something of the table only together with what the server was given.

**AgentConfig_proofs**: `ConfigTypeCorrect`, `AcceptedConfigFits`,
`ConfigFollowsFile`, `GeneratedFileWorks`, for files of any length and any size of
`int`.  The invariant `Read` says that each option has the value of the last line
before the present one that sets it.  `AcceptedConfigFits` is what `AgentAssumption`
takes for granted of the sizes, under the condition that the double of the batch
size is an `int`.  `FollowsFile` demands the batch size of the file only when it is
an `int`: below `INT_MIN` it wraps to a positive number, as it does above `INT_MAX`.
`GeneratedFileWorks` has both directions: accepted if the name is not blank, refused
if it is.

**LoginPage_proofs**, about the accounts: `AccountsTypeCorrect`,
`AccountsImplementStore`, `AccountsAnswerTruthfully`, `UsersNamedOnce`,
`UsersNeverGone`.  The invariant `IInv` says what the locks achieve:
only a change in progress has deleted rows to hide; while a request holds all
rows and gaps with rows deleted, the table is what it deleted; and a row that is
inserted and not committed collides with no committed row that stays and with no
other such row.  A commit is then an `Add` or a `Replace` of `UserStore`, and
every other step leaves the table alone (`StoreStep`); that
names stay unique and that the table is never emptied again are then matters of
`UserStore`.  For the answers, `HistoryInv` adds that
the present table is always among those a request in progress has seen, and that
a request has no answer and no effect before its last step.

About the pages: `PageTypeCorrect`, `LoginsEarned`.  Each step of the pages is
one of `Accounts` or leaves the accounts alone; `CameInv` keeps the request that led
a page to the dashboard, and `LoginAnswers` says which answers a login can have.
`LoginsEarned` holds with failing statements too, because it names the one other way
to the dashboard: a login of which a statement failed.

**Endpoints_proofs**: `EndpointsTypeCorrect`, `ConfigsAreRegistered`,
`TotalIsRight`, `EndpointsImplementRegistry`, `EndpointsIdentified`,
`EndpointsStay`.  The committed numbers are 1 to their
count.  A creation between SELECT and INSERT may have any number up to the next one;
between INSERT and commit it has exactly the next one, and it is alone there, since
its number was free and nobody else held it (`NumberInv`, `SoleInsert`).  So a commit
adds the next number, with a key of its own, and no step takes a row away.  For the pages, `Fresh` says that the count a page awaits was
not taken before the page was opened.

**EventDash_proofs**: `DashTypeCorrect`, `CopiesExplained`, `LoadingIsFounded`,
`LastAnswerShown`.  The mount of a page is the number of its first fetch, so that no
fetch of an earlier page can be taken for one of this page (`FetchesInv`); and as long
as its fetches did not overlap, a page has at most one (`SoleInv`).

Only model-checked: the liveness properties (`StopsWhenQuiet`, `RecordsConsumed`,
`EveryRequestAnswered`, `LoadingEnds`), which are beyond the prover.  Every invariant
and every refinement that a passing run checks has its theorem.

## 5. What is not modelled

* The text of a POST and of the stamps in it, `cJSON` (vendored).  `vmlinux.h` is
  generated and has 154988 of the 159059 lines of the implementation: it declares
  the kernel's types and has no behaviour.
* The analysis service and the old add-endpoint page, which do nothing yet; `/test`
  and the test page, which show a constant.  `alerts` and `alert_rules` have no
  writer in the code that runs (`WriteAlerts` of `EventDash` stands for one).
* Build, installation and container files: sequences that run once.  Their effect
  on the running system is the database that is not up yet, which is a failing
  statement, and the unit file, which is `Restart`.
* Memory: `submit_events` frees neither its JSON nor its headers; nothing in the
  models grows with that.  A `malloc` that fails.

## 6. Plan

The order was that of importance: the path of an event first, what decides about
access and registration next, what is shown last.

1. `KernelHooks`, `MonitoringAgent` with `EventFeed`; `Accounts` with `UserStore`;
   `LoginPage`; `Endpoints` with `EndpointRegistry`; `AgentConfig`; `LogIngress`.
   Done, with the proofs of section 4.
2. `EventRecord`, with the clock; `EndpointSecuritySystem`; `AppShell` and
   `EventDash`.  Done, with their proofs.
3. Left: several agents at one server; an abstract specification of the path to
   the table, once `submit_logs` commits.
