# nulltrace in TLA+

nulltrace keeps an encrypted vault of one person's identity, maps it onto a
list of data brokers, queues deletion demands, mails them, follows the brokers'
answers and asks from time to time whether a listing is really gone. The code is
under `src/source/`; paths below are relative to `src/source/internal/` unless
they say otherwise.

This directory models the parts of it that keep state: those that work concurrently on the
vault, the daemon and its clients, the screens, the browser and the look-ups. TLC checks
them on small instances, and TLAPS proves the most important facts for every instance.

## The system

| component | state | operations | talks to |
|---|---|---|---|
| vault storage (`storage/`) | SQLite tables, one connection per process; the data key in memory | one statement per method; a transaction only in `InitVault` and `Migrate` | everybody |
| mail dispatch (`app/mail.go`, `engine/mailer`) | the row of an action, the mail on the wire | `DispatchSMTP`, `SendQueuedSMTP`, `dispatchSMTP`, `HandleIMAP` | vault, SMTP server |
| daemon (`daemon/`) | token file, listener, channel of 64 jobs, two workers, scheduler, IMAP goroutine, one context | start, tick (30 s), watchdog (1 h), IPC commands, shutdown | vault, clients, dispatch |
| commands (`app/cli.go`, `pkg/ipc`) | the token they read, one connection at a time | ping, call, or the same work in their own process | daemon, vault |
| listings (`app/scrub.go`, `app/scan.go`) | `exposed_records.status`, `last_verified_at`, `erasure_actions` | `Scan`, `Scrub`, `VerifyRemoved`, `CompleteAction`, `Watchdog` | vault |
| inbox (`engine/imap`) | IMAP connection, updates channel, backoff | `Run`, `drainUnseen`, confirmation click | dispatch (`HandleIMAP`) |
| terminal session (`app/interactive.go`, `app/listings.go`, `app/prompt.go`) | its own runtime or an IPC client, a flag `goHome`, the page of the listings | the 14 menu entries and their dialogs | all of the above |
| linking and configuration (`app/mail_link.go`, `app/wizards.go`, `config/`) | `config.yaml`, its temporary file, three secrets, `rt.Cfg` | link, unlink, watch inbox, settings | vault, daemon (which read the file once) |
| vault and keys (`crypto/`, `app/setup.go`, `app/runtime.go`) | envelope in `vault_meta`, data key | init, unlock, lock, close | storage |
| full-screen programs (`tui/`) | the model of a Bubble Tea program | boot, login, dashboard | setup, snapshots |
| browser automation (`app/automate.go`, `engine/automate`, `engine/browser`, `engine/captcha`) | a profile directory, a browser, one deadline | launch, detect, solve, fill, submit, close | broker's page, CapSolver |
| look-ups (`engine/footprint`, `engine/recon`) | a list of results under a mutex, slots | one goroutine an item | web sites |
| registry, scoring, exposure, playbooks, exif, snapshots | pure functions | see PROJECT.json | - |

What is hard: several processes write the same rows with statements that compare
nothing; a mail is handed over before its outcome is stored; contexts are
cancelled between the two; lists are read once and walked later; a bounded channel
is filled by the goroutine that also runs the watchdog; a daemon may go, and another
one come, between the ping and the call of a client; a configuration is saved whole
from a copy in memory; thirty nested dialogs share one reader and one flag; messages
reach a full-screen program in any order. `PROJECT.json` lists each hazard at its line
with the property that watches it.

What makes the parts correct: a demand's history is never miscounted or shown
wrongly, and it is repeated only for reasons one can name; the queue drains; a
scrub misses nothing and leaves verified listings alone; the watchdog asks when,
and only when, a window is over; a command is carried out once, by one side, and ends;
no setting is lost half-way; what a goroutine seals the vault's key opens; screens lead
home and show rows that are there; a form gives everything back; no look-up loses an
item.

## Modules

| module | models | source |
|---|---|---|
| `Dispatch` | queued actions, the daemon's start, scheduler, channel, workers and exits, what its inbox writes, terminal sessions sending, cancellations, kills and failing statements | `app/mail.go`, `daemon/run.go`, `daemon/scheduler.go`, `daemon/worker_pool.go`, `engine/mailer/dispatcher.go`, `storage/repository.go` |
| `Demand` | what `Dispatch` and `Inbox` promise about one demand, abstractly | the same |
| `DispatchProofs` | the theorems about `Dispatch` | |
| `Review` | listings: scans, concurrent scrubs, verifications, completions, the watchdog, days | `app/scrub.go`, `app/scan.go`, `storage/repository.go` |
| `Inbox` | the goroutine that watches the mailbox: connection, search, fetch, IDLE, backoff, `HandleIMAP`, confirmation links; composed with `Demand`, which stands for everybody else who writes the rows | `daemon/run.go`, `engine/imap/listener.go`, `engine/imap/clicker.go`, `app/mail.go`, `storage/repository.go` |
| `InboxProofs` | the theorems about `Inbox` | |
| `Vault` | processes that make, unlock, wipe and close the vault, and goroutines that save findings in it | `storage/repository.go`, `crypto/cipher.go`, `app/runtime.go`, `app/setup.go`, `app/scan.go`, `app/footprint.go` |
| `VaultProofs` | the theorems about `Vault` | |
| `ReviewProofs` | the theorems about `Review` | |
| `Daemon` | starts and ends of the daemon with its token and its port, the handlers of connections, and the commands of the CLI that ping, call, or work alone | `daemon/run.go`, `daemon/server.go`, `pkg/ipc/protocol.go`, `app/cli.go` |
| `DaemonProofs` | the theorem about `Daemon` | |
| `Linking` | the wizards that save the configuration and the passwords of mailboxes, statement by statement, in several processes | `app/mail_link.go`, `app/wizards.go`, `app/interactive.go`, `config/config.go`, `storage/repository.go` |
| `LinkingProofs` | the theorems about `Linking` | |
| `Terminal` | the screens and dialogs of a session, line by line, and the listings with their pages | `app/interactive.go`, `app/listings.go`, `app/prompt.go`, `app/wizards.go`, `app/leaks.go`, `app/identity_check.go`, `app/setup.go` |
| `TerminalProofs` | the theorems about `Terminal` | |
| `Console` | boot, login and dashboard as loops over messages | `tui/boot.go`, `tui/login.go`, `tui/app.go`, `app/cli.go` |
| `Automate` | an opt-out form filled in a browser | `app/automate.go`, `engine/automate/automate.go`, `engine/browser/browser.go`, `engine/captcha/capsolver.go` |
| `Probes` | goroutines that look items up and append to one list | `engine/footprint/footprint.go`, `engine/recon/coordinator.go`, `app/footprint.go` |
| `MCDispatch`, `MCReview`, `MCInbox`, `MCVault` | instances for TLC | |
| `MCStorage` | `Vault` and `Linking` together: what a machine keeps | |
| `MCSession` | `Daemon`, `Terminal`, `Console`, `Automate`, `Probes` together: what a user starts | |
| `SessionProofs` | the theorems about `Console`, `Automate` and `Probes`, and about the types of `MCSession` | |

`MCStorage` and `MCSession` put modules that share no state into one specification: `about`
says which of them a behaviour is about, and the others stay as they are. The programs run as
processes of their own; where two of them do meet, at the vault's rows, the meeting is in the
module of the rows (`Dispatch`, `Review`, `Inbox`, `Vault`).

### Dispatch

A row has a state and a number of attempts. `at[s]` is where sender `s` (a worker or a
session) is in `dispatchSMTP`: `load` before its reads, `dial` before the hand-over,
`sent` or `failed` before the UPDATE. Each database statement is one step, as is the
hand-over; the reads of `dispatchSMTP` are one step because nothing they read is
compared with a later state (`Broken` rows never change, the configuration is the
process's own). `StatementFails(s)` is a statement that fails: under a cancelled
context every one does (`Cancelled(s)`), and under any other one may (a busy database, a full
disk), of which `errors` counts and `MaxErrors` bounds how many. The UPDATE of the outcome is such
a statement. Its error is dropped or only returned, so the row stays as it is (`RecordFails`), and a
demand that was mailed is mailed again by the next tick. `Vanish` is what a kill,
or a return of `Run` without `pool.Wait`, does to the senders. `linked` is the
configuration the daemon loaded: what is linked later does not reach it. A session holds
the vault itself only if no daemon answered when it was opened (`Reopen`); a window
opened before the daemon was started goes on sending beside it.

The daemon has a second writer of the same rows, the goroutine of the inbox. `Answer(a)` is what
`HandleIMAP` may do to a row, mailed or not; which mail it is and which row it is taken to be
about is in `Inbox`. `replied` remembers those rows, and a row may claim to be sent because it
was mailed or because it is in `replied` (`SentMeansMailed`). Both facts are in `Demand` too, which
has an action `Answer` of its own.

`mails`, `tries`, `lost` and `replied` are history: nothing in the system reads them.

Inserting and completing actions are open to everybody, at any time (`InsertAction`,
`CompleteAction`); the flow behind the inserts is `Review`'s. `Start` needs a daemon that is down; a second one
beside it, which fails at the port, is in `Daemon`.

### Review

`left[p]` is the part of the list scrub `p` has still to walk, each listing with the
status it had in the list; `task[p]` is the listing it is at, `at[p]` the statement:
`check` (HasOpenAction), `insert` (InsertAction), `approve` (SetExposedStatus). `dog` and
`due` are the watchdog's two passes. A day is the unit of time; `today` is read where the
code calls `time.Now`, and a query and the marking that follows it may see different
days. `IGNORED` and `REJECTED` are in the code's types and no code sets them, so they
have no place in the model. The Have-I-Been-Pwned record is a record whose broker has
neither mail nor form. An action is open or completed here; `Dispatch` tells the open
states apart. A broker's row that cannot be read makes the scrub skip the listing and go on
(`BrokerUnread`), and it still returns success; any other error ends it (`ScrubFails`). `fresh`,
`owed`, `missed` (the skipped listings), `touched` and `late` are history.

### Inbox

`pc` is where the one goroutine of `runIMAP` is: `backoff` (waiting before `Run`), `drain`
(before SEARCH), `fetch` (ranging over the channel of messages), `lookup`, `write` and
`click` (the three kinds of statement of `HandleIMAP`), `idle`, `ending` and `leaving`
(waiting for IDLE to complete, with and without reading the updates channel), `off`
(returned). `wire` is the stream from the server, which ends in `eof` when the connection
is lost; the client's own reader goroutine takes it response by response and blocks while
the channel a response is for is full. SEARCH and FETCH are one request: nothing happens
between them that the properties tell apart. The server sets `\Seen` when it sends the
body, because `drainUnseen` asks for `BODY[]` and not `BODY.PEEK[]`. The server and the
client library are not in the repository; they are modelled from how `listener.go` uses
them and marked external.

`HandleIMAP` drops the errors of both look-ups (no action is found then) and of its UPDATEs. What
it writes counts as an answer of the row (`replied`), so `Inbox` and `Dispatch` promise the same.

A row that `Demand` lets others write can change between the look-up and the write, and
between two links of one message; `since` and `handled` are history for exactly that. What
is left out: the length of the backoff, the wording of mails (a message is told apart by
the broker it names, the token it carries, whether it has a URL and how many of its URLs look
like a confirmation), and the audit log.

### Vault

`envelope` names the process whose data key the stored envelope wraps; `key[p]` is
`Store.dek`: nothing, a key, or `Wiped` once `Zeroize` has overwritten the bytes in place.
`stage[p]` goes through `Open`, `InitVault` (its check, which is outside its transaction, and the
transaction) or `Unlock`, and the three steps of closing: bytes overwritten, slice
forgotten, process gone (after closing the database, or killed at any moment). A worker
is one call of `SaveFinding`: its look-up of the row's id, the encryption, `UpsertExposed`'s own
look-up, and the UPDATE or INSERT; `Abort` is a failure of any of them. `blob` is a sealed
value: the key it was sealed with and the id it is bound to. That a seal reads the key
while another goroutine overwrites it is a data race; everything that is not the
key is `Wiped`. `Daemons` are the processes whose `Run` can return with goroutines at work. Only
what a seal depends on is here; the status a scan writes is `Review`'s. `job[w].alone` is history.

### Daemon

`life[r]` is how far a start is in `Run`: the vault unlocked, the token file truncated, written,
serving or back from `Listen` with an error, closing, over. `conn[c].phase` is how far the handler
of client `c`'s last connection is; nobody waits for handlers. What the kernel has queued for a
listener that closes is reset (`Unheard`), and so is what a process that ends has accepted
(`Unanswered`). `bye` are the runs that carried out `daemon stop`: fifty milliseconds later they
send themselves an interrupt. Commands are told apart by what they do when the daemon is not
there: some fall back to this process, some cannot, a playbook is in the binary as well, some
are refused before anything is asked. `ran` is history. Left out: the framing of a message, and
`os.Process.Signal` on a system where a process cannot interrupt itself (there `daemon stop`
does nothing, and `Stops` says nothing of it).

### Linking

`wizard[s].step` is the next statement: `create` (O_TRUNC on the temporary file), `write`,
`rename`, `put` (PutSecret), `put solver` (the API key, which is stored before the save),
`delete`, `probe` (the sign-in), `report`. `wizard[s].on` is the file its descriptor is open on,
which a rename by another process changes from the temporary file to the configuration, or to
a file without a name. `mem[s]` is `rt.Cfg`. A process can be closed or killed at any step
(`Quit`). The configuration has the four fields the wizards tell apart. `mixed`, `alone` and
`sole` are history.

### Terminal

A dialog is the sequence of reads and works it has before it; `Verdicts` says where a line
leads from a kind of read, and `Rest` what is left then. The kinds stand for the prompt
functions of `prompt.go` and `wizards.go`: which of them repeat, take an empty line, fail at
the end of the input, or know `m` (`Navs`). The menus of the laws and of the mail hosts offer numbers as
a screen does, and do not know it (`Menus`). `jumped` is history: where the last `m` was typed that
`DrawHome` has not answered yet, at a screen or pause, or at such a menu. The listings are kept as numbers in the order they are
sorted in; `shown` are the rows on the screen, which `stored` may have outrun. `marked` and
`meant` are history. What the works do is in the other modules.

### Console

`program` is the Bubble Tea program that has the screen. Every key and every message is an
action; the message to quit is sent (`quitting`) and arrives later (`BootQuit`, `LoginQuit`), and
between the two keys still reach the model. A snapshot is the number of rows of its lists.

### Automate

`stp` is the statement `Automate` is before; what Go defers is in `Close` and in the error
branches of `Launch`. `RemoveProfile` is `os.RemoveAll`, tried once and its error dropped: it may
fail, above all while a browser still runs on the directory; `stuck` is history of that. The audit
event may be refused without anybody being told (`audited`), and a challenge counts as solved when the
page has no field for the token (`InjectToken`). All calls into the page share one deadline, which may pass at any moment
(`Deadline`). rod waits for an absent selector until that deadline; the model lets the call end
either way at once.

### Probes

`routine[i]` goes through request, lock, append and the deferred release of the slot. An append is
two steps, `LockResults` reads the list into `slice[i]` and `AppendResult` writes the longer one, so
without the mutex a result of another goroutine would be lost between them. The same
shape serves the footprint (`max_concurrent` slots) and the breach look-up (two). `persist` is
`--persist`, which does nothing while the store is locked, and fails without an identity and, on
the foreign key, as soon as something was found (`Report`).

## Runs

| run | instance | shows |
|---|---|---|
| `dispatch` | 1 demand, 2 workers, a channel of 1, 1 session, 2 starts, 1 send, 1 failing statement | `TypeOK`, `NoAttemptForgotten`, `RequeuedOnlyByLoss`, `SentMeansMailed`, `BoundedDuplicates` |
| `dispatch_drain` | the daemon alone: 2 demands (one broken, one to be confirmed), 1 worker, a channel of 1, 1 start, 1 failing statement | `QueueDrains`, `SchedulerReturns`, `KeepsPromise` (Dispatch implements Demand) |
| `dispatch_scrub` | violation | "Nothing is sent until [3] Send." is not so: the daemon sends |
| `dispatch_ctrlc` | violation | "Ctrl+C stops between messages." is not so: it can leave a mailed demand queued |
| `review_scrub` | 1 listing with mail and form, 2 scrubs, 3 actions, 1 error, 1 late outcome | `TypeOK`, `BoundedOpen`, `ScrubCovers`, `VerifiedNotScrubbed` |
| `review_watch` | 1 listing, 1 scrub, days 0-3, windows of 1 and 2 days, 1 error | `PendingOnlyDue`, `AskedAgain` |
| `review_45days` | violation | "After ~45 days the watchdog asks you to check again." is not so once an action was completed |
| `inbox` | 1 demand, 2 messages (one cannot be parsed, one has two links), channels of 1, 1 lost connection, 1 restart | `TypeOK`, `HandledOnce`, `NothingOverlooked`, `ReopenedOnlyInFlight`, `MailIsRead` |
| `inbox_queued` | violation | "Next: [3] Send to deliver the queued mail." is not so: an old answer of the broker takes a queued demand out of the queue unmailed |
| `vault` | `Vault`: a daemon and a terminal session, a goroutine each, 3 listings (one of a broker no registry has), 3 ids; `Linking`: 2 mailboxes (one with a provider), a session with the vault and one without, 3 operations, 1 failing write | `TypeOK`, `OneKey`, `SavedAlone`, `RowsStay`, `ConfigWhole`, `MemoryOfFile`, `LinkedAlone` |
| `vault_row` | violation | "SaveFinding encrypts details under the stable exposed-record id" is not so when another scan inserts the listing between its two look-ups |
| `session` | `Daemon`: 2 starts, 1 command of 5 kinds; `Terminal`: 3 listings, 2 rows a page; `Console`: lists of 0 to 2 rows; `Automate` has no bound; `Probes`: 3 items, 2 slots | `TypesOK`, `DoneOnce`, `Stops`, `NotKept`, `JumpsHome`, `RowsOnScreen`, `InputEnds`, `CursorInside`, `TypedTwice`, `CleanedUp`, `SentByHand`, `EndsOrPolls`, `EveryItemOnce`, `ProbeReturns` |

Why the bounds are enough. What `dispatch` counts, it counts for each demand alone, and demands
meet only in the channel, where another one takes a place away; so one demand is enough, with two
workers that can both hold it, a place in the channel, a tick that lists it meanwhile, a session as
the third writer, and a second start, which gives every mix of what was lost before with what is
sent again. One failing statement falls at every statement in turn; `BoundedDuplicates` has it as a
term, and the proof has any number. Two demands over a channel of one place and one worker make the
channel full with one demand waiting in the scheduler, which is what `dispatch_drain` is about; one of
them is `Broken`, so the retried-for-ever row is there beside a good one. In `Review` listings do not interact, so one
listing with both strategies and two scrubs has every race between scrubs; three days
cover "before", "at" and "after" both windows; one error falls at every statement in turn.
In `Inbox` one demand is enough for every race on its row; with channels of one place the
second notice meets a full channel, which is what eight places and nine notices do.
In `Vault` two savers give every race between the look-ups of one and the write of the
other, in one process or two (all that matters of the process is its key); two listings
that can be stored and three ids let an id of one be mistaken for another's. In `Linking` the
second session saves over the first one's file and under its temporary name; three operations
are a link, an unlink and a link again, with a third save between any two.

In `Daemon` commands do not see each other, so one is enough; two starts are the daemon whose
token a client read and the one that has the port when it calls. Three listings over pages
of two rows give a full page, a page of one row, and pages that are no longer there; the
filters let the first and the last through, or nothing. Lists of at most two rows let a cursor
stand beyond a shorter one. Three items over two slots make the caller wait for a slot.

Deadlock is checked in every run but `session`: somebody can always act (the user completes an
action, opens a window or scans, a process is opened again, IDLE ends). The programs of `session`
end, and a behaviour with them.

## Fairness

`Dispatch`: weak fairness of the scheduler's listing and submitting, of each worker's
receive and of each step of a worker's `dispatchSMTP`: the Go runtime runs every goroutine
that can run, the select in a worker has no other ready branch while the daemon is up, and the SMTP
client and SQLite return within their timeouts, with an error if they must. Sessions, users, signals and kills are not
fair; the liveness properties ask only about a daemon that stays up. `Review`: weak fairness of
the watchdog's own statements, errors being bounded by `MaxErrors` (a database that fails
for ever is never reviewed). `Inbox`: weak fairness of the goroutine, of the client's
reader, of the IDLE timeout (ten minutes pass), and of the server sending what was asked
and completing commands. New mail, lost connections, stops, restarts and everybody else
are not fair; connecting is part of the goroutine, so the server accepts connections
sooner or later. `Daemon`: weak fairness of the goroutines of `Run` that wait for a context, of
the message a worker is at (it has a timeout), of the closing process, of the interrupt a
shutdown sends after its pause, and of each step of a client, which has a deadline of 800 ms or
two minutes on every connection. Handlers are not fair: what they do may take for ever, and
`Stops` and `NotKept` hold nevertheless. `Terminal`: fair only once the input has ended, when
every read returns at once; a user owes no line. `Automate`: what was begun goes on, since every
call into the page ends by the deadline and every other request by its HTTP client's timeout. Two things
are not fair: the solver may be polled for ever, and the browser is started before the deadline is
set and without the caller's context, so one that never says where it listens is waited for for
ever; `EndsOrPolls` names both.
`Probes`: the caller and the goroutines, whose requests have a timeout.

## Proofs

`DispatchProofs` proves, for every set of demands, workers and sessions, every capacity
and any number of starts and sends:

- `TypeCorrect`: `Spec => []TypeOK`
- `AttemptsCounted`: `Spec => []NoAttemptForgotten`
- `RequeuedByLoss`: `Spec => []RequeuedOnlyByLoss`
- `ShownMeansMailed`: `Spec => []SentMeansMailed`
- `PromiseKept`: `Spec => KeepsPromise`, the refinement of `Demand`
- `DuplicatesBounded`: `Spec => []BoundedDuplicates`

They rest on `DispatchAssumption` (finite sets of workers and sessions that are disjoint,
a positive capacity) and on one inductive invariant, `IInv`. None of the properties is
inductive alone: that an outcome is written to an existing row needs `HoldsDemand`, which
needs `ListsDemands` (what waits in the backlog, the channel or a session's list exists),
and that a row shown as sent was mailed, or is in `replied`, needs `MailedFirst`. `NoAttemptForgotten` is a
count over the set of senders that carry an outcome; `PendingMoves` and `PendingVanishes`
say what one sender's move and the loss of several do to it. `RowSteps`, `MailSteps`,
`RepliedSteps`, `AtSteps` and `LossSteps` name the steps that write a row, mail, answer, hand a demand
to a sender and drop an outcome, so that each later proof looks at those alone.

`BoundedDuplicates` speaks of all the ticks of all the daemons there were, and no state
remembers them. `Rationed` is what makes it inductive. It counts for one demand what was `Spent` (the
mails, and the sessions that have it in their hands or on their lists) and what is still
`Coming` from the daemon (workers that hold it, places in the channel, the backlog). The two
together stay within `PerStart` for each start and what was `Paid`, one for each send and one for
each failed statement: a hand-over turns one into the other. Only a tick adds to what is coming, and it finds the demand only while it is
`QUEUED`; then what this daemon has spent is at most the mails of workers that have not recorded
them yet, because recording one ends `QUEUED` for good, and the mails whose UPDATE the database
failed, each of which is paid for. So the places of one life are enough for whatever that life does, and a start adds
one more life.

`InboxProofs` proves, for every set of messages and demands, every capacity and any number
of lost connections and restarts:

- `TypeCorrect`: `Spec => []TypeOK`
- `MailHandledOnce`: `Spec => []HandledOnce`
- `FinishedStays`: `Spec => ReopenedOnlyInFlight`
- `FlaggedIsHandled`: `Spec => []NothingOverlooked`
- `InboxKeepsPromise`: `Spec => Others!Spec`, the refinement of `Demand`

`HandledOnce` is far from inductive: a second body of the same message on the wire, in the
channel or at the handler would be handled a second time. `Once` therefore says of each
of the places a message can be that it is there once, that it is in none of the later
ones, and that what the server was asked for is not yet flagged. `KnownDone` says
that a demand the handler has looked up and that is done is in `since` or was named by its
token, which is what `FinishedStays` needs at the write.

`FlaggedIsHandled` needs to know that FETCH is not over while one of its messages is still under
way. `Orderly` says so: the completion owed comes after every message on the wire, nothing is asked for
without a completion owed, and no completion of IDLE is on the wire that could be taken for it.
`Steady` says what a connection that holds does not have. Both are false once a connection was
lost, and then the property claims nothing; `Watched` is the implication.

`InboxKeepsPromise` and `PromiseKept` are the two halves of one statement: the daemon's senders and
its inbox, each beside an environment that does what `Demand` allows, do no more than `Demand` allows.
The inbox needs `Found` for it, that a row it has looked up exists when it comes to write it.

`VaultProofs` proves, for every set of processes, goroutines, listings and ids:

- `TypeCorrect`: `Spec => []TypeOK`
- `KeysAgree`: `Spec => []OneKey`
- `QuietSavesOpen`: `Spec => SavedAlone`
- `IdsKept`: `Spec => RowsStay`

`Alone` says what a save without a rival relies on between its steps: nobody else has the
listing, its process still has the key, the id it took is the row's if there is a
row, and what it sealed is sealed with the envelope's key for that id. `OneListing` says that an
id belongs to one listing wherever it is held, which `IdsKept` needs. The assumptions are
that ids are new when drawn (UUIDs) and that "none" is no key, id or blob.

`ReviewProofs` proves, for every set of listings, any number of scrubs, every window and every
bound:

- `TypeCorrect`: `Spec => []TypeOK`
- `OpenBounded`: `Spec => []BoundedOpen`
- `NothingLeftOut`: `Spec => []ScrubCovers`
- `VerifiedLeftAlone`: `Spec => VerifiedNotScrubbed`
- `AsksOnlyDue`: `Spec => PendingOnlyDue`

`BoundedOpen` is not inductive: what bounds the open actions is that the scrubs about to insert
count as well (`RoomLeft`). A scrub gets to its insert only while nothing is open, and then the two
together are at most the number of scrubs; its insert turns one into the other. `StillOwed` says
that a demand of a scrub's list is there, still ahead of the scrub, or of a listing in `missed`, each
of which cost a failed statement (`Paid`); `ReadBefore` that what it
has to do with a verified listing is older than the verification, `StillDue` that what the
watchdog has in hand is due or was written since. `Marked`, `Appended`, `Moved` and `RowSet` say what
the statements do, `ScrubSteps`, `ActsSteps` and `QuietSteps` what a step leaves alone.

`DaemonProofs`, for every number of starts, clients and commands: `CarriedOutOnce`,
`DSpec => []DoneOnce`. The invariant `Good` ties the client's side to its connection: before the call
nothing was carried out (`OneSide`), how far the handler is tells whether it was (`AsFar`), and an
"ok" was earned (`Earned`). A client that gave up on a call has nothing left to fall back to, which
is why a late handler cannot make it twice.

`LinkingProofs`, for every set of sessions, mailboxes, passwords, operations and failures:

- `ConfigStaysWhole`: `LSpec => []ConfigWhole`
- `MemoryAgrees`: `LSpec => []MemoryOfFile`
- `OneAccount`: `LSpec => []LinkedAlone`

A file is whole because whoever renames the temporary one has written it whole and nobody else is in
the middle of a save, or the saves were `mixed` (`OneSaver`). `SoleSaver` says the same of the session
nobody saved beside, and that its memory is the file between its saves. `Undisturbed` follows one wizard
through its statements: at each of them file, memory and passwords are what it has made of them so far
(`InOrder`), because nobody else is in a wizard (`Alone`).

`TerminalProofs`, for every number of listings and rows a page:

- `HomeAtOnce`: `TSpec => []JumpsHome`
- `PageIsThere`: `TSpec => []RowsOnScreen`
- `TerminalTypes`: `TSpec => []TerminalOK`

`JumpsHome` is about what is asked after an "m", at a screen or a pause and at the menus that do not
know it. `Flow` says which screens can be open at once
(`Shape`), how a dialog goes on after a pause (`Fine`), which questions belong to which screen
(`Placed`, `Closed`), and that after an "m" the flag is up until the home screen and only the offer of
the browser is still open (`Homeward`). `NotHeard` says how far an "m" at a menu leads: to settings or
inbox, the only screens with a dialog that has one (`Placed`), until the home screen. `Rows` ties the page on the screen to the listings it was drawn from. The order of the
listings is a CHOOSE (`Sorted`), as the code's is any sort; `SortedExists` proves that there is one,
so nothing rests on a choice from an empty set. `PagesBounds` and `ChunkOfPage` are the
arithmetic of pages.

`SessionProofs`, for every number of rows, every list of items and every number of slots:

- `CursorStays` (`CSpec => []CursorInside`) and `PasswordChecked` (`CSpec => []TypedTwice`). The second
  needs to know what is in the fields between Enter and the message that ends the program.
- `AlwaysCleanedUp` (`ASpec => []CleanedUp`) and `LeftToAPerson` (`ASpec => []SentByHand`). The invariant
  says for each statement how far the browser is, that a profile is left only after a removal that
  failed (`GivenBack`), what was decided about the page, and what the ledger was asked.
- `EveryItem` (`PSpec => []EveryItemOnce`). Who holds the mutex has read the list as it is
  (`Exclusive`), so nothing is lost when it is written. The list has one result for each goroutine that has
  appended, so that when all are done the indices, the items and the results are equally many.
- `SessionTypes` (`SessionSpec => []TypesOK`), of the composition: whichever program `about` is about,
  its variables keep their types and those of the others stay as they are.

`Rationed`, `Watched` and `Found` were checked by TLC as well, on the instances of the runs
`dispatch` and `inbox`.

All safety properties that the passing runs check are proved. Model-checked only are the liveness
properties (`QueueDrains`, `SchedulerReturns`, `AskedAgain`, `MailIsRead`, `Stops`, `NotKept`,
`InputEnds`, `EndsOrPolls`, `ProbeReturns`), because fairness and ENABLED are outside the proof system,
and the properties of the five violation runs, which are false.

## What the models showed besides the findings

These came out while modelling; each is as the code is, and the properties are stated so
that they hold of it. PROJECT.json has those that are hazards.

- Two processes that save the configuration at once share one temporary file: one of them can
  install a torn file, after which no session starts (`ConfigWhole` excepts `mixed`), and a save
  from an old copy takes back what the other saved (`MemoryOfFile` speaks of a session alone).
- A custom relink with a blank password keeps the old password (`config.smtp` changes, the secret
  does not), so the account signs in with another account's password.
- A second daemon overwrites the token file before it finds the port taken. Clients of the first
  are then refused at the ping and work alone, beside it.
- A client whose call times out reports an error while the daemon goes on with the command.
- Between Enter and the end of the login program further keys change the password that was
  checked (`late` in `TypedTwice`).
- The result of the look for a vault, if it comes after Ctrl+C, overwrites the cancellation
  (`BootResult`).
- "m jumps to the main menu from any nested screen" (`app/interactive.go:729`; `README.md:64` of the
  repository offers it too) is not so in three places: the offer of the browser after a playbook is
  still made, and the menus of the laws (`app/wizards.go:289`) and of the mail hosts
  (`app/wizards.go:132`) take "m" for the way back to the screen they belong to. `JumpsHome` says what
  happens there instead. Enter, and the end of the input, count as "yes" at scrub
  and send. A required field is asked for for ever at the end of the input (`InputEnds`).
- An UPDATE of an outcome that fails is not repeated: the demand is mailed again every 30 seconds for as
  long as the database refuses (`BoundedDuplicates` counts `errors`), and the user is told nothing.
- Any mail that names the broker makes the newest demand look sent, also one that never was
  (`SentMeansMailed` excepts `replied`; the run `inbox_queued` has the trace).
- A scrub whose broker rows cannot be read skips the listings and reports success (`ScrubCovers`
  excepts `missed`).
- The error of removing a browser's profile is dropped, so the user's data can stay on the disk, with
  or without a browser on it (`CleanedUp` excepts `stuck`). The start of the browser has no
  deadline (`EndsOrPolls`). An audit event that is not written is reported to nobody (`SentByHand`).
- `footprint --persist` always fails once something was found (`Report`).
- `per_minute` limits nothing in the daemon, which makes a limiter per job; the backoff of the
  IMAP loop is never reset; a snapshot shows the oldest action's state of a record.

## Not modelled

- The ciphers, SQLite, SMTP and IMAP servers, the browser and CapSolver are used as the code uses
  them; wording and layout are left out.
- Migrations: one transaction, one version. `SplitStatements`, `stripJPEG` and `stripPNG`, password
  strength, scoring, registry merging, playbook texts: pure functions of one text each, whose
  properties are about formats and characters; nothing concurrent or persistent depends on them.
- Snapshots and exports: reads only. What the screens do with a snapshot that is late or
  shorter is in `Console` and `Terminal`.
- The limiter of `per_minute`, the length of the backoff and the text of timestamps: the models have
  no clock finer than a day.
- `tui.RunMenu` (`tui/menu.go`) and `Screenshot`: nothing calls them.
- Three things stay with TLC because they are out of the prover's reach: liveness and ENABLED,
  induction over data, and recursive operators.

## Plan

All modules of the plan are written, and the safety properties of the runs are proved. What would come
next: the rows of `Dispatch`, `Review` and `Inbox` in one specification with the identity's attributes,
if scans begin to read them, and a timed variant of `Dispatch` for the limiter, should the limiter ever
be shared between jobs.
