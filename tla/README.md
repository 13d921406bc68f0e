# TLA+ models of coq.nvim

coq.nvim is a completion plugin for neovim: a Python server (`coq/`), started by and talking to a Lua
half in nvim (`lua/`), that on every keystroke asks a dozen sources for completions, ranks them, shows
them, and applies the one that is chosen. This directory holds TLA+ modules that model the parts where
it is concurrent or incremental, TLC configurations that check them on small instances, and proofs that
TLAPS checks for every instance.

`PROJECT.json` maps every definition to the lines that it models, and lists the runs, the hazards, the
theorems and what was found. Paths below are relative to the repository.

## Inventory

Three kinds of threads run the program. nvim's main thread runs Lua, and serves one RPC or one client
callback at a time. The server's main loop (asyncio) handles notifications and requests from nvim. Each
source has a worker with a loop and a thread of its own (`coq/shared/executor.py`), to which the main
loop hands coroutines with `run_coroutine_threadsafe`.

| part | state | operations | what is hard | what makes it correct |
|---|---|---|---|---|
| **LSP session** `coq/lsp/requests/request.py`, `lua/coq/lsp-request.lua` | `_STATE`, `_events`, `_locks`, `_uids` by name; in Lua `cids`, `accs`, `current_sessions`, `cancels`, `n_clients` | `async_request`, `_lsp_pull`, `_lsp_notify`; `req`, `on_resp`, `lsp_notify`, `lsp_pull` | several generators and notifications share one event; late answers of clients that ignore cancellation | a request yields its own answers only, none stale, and all if undisturbed; nobody sleeps through an answer |
| **Supervisor** `coq/shared/runtime.py`, `coq/server/reviewer.py` | `_work_task`, `_lock`; per worker `_work_fut`, `_work_lock`, `_interrupt_fut`; rows of the statistics | `collect`, `interrupt`, `supervised`, `_with_interrupt` | a cancellation is asked for in one step and raised in another; hard and soft timeouts | what is outdated is stopped, always_wait sources are heard, nothing waits for ever |
| **Completion flow** `coq/server/registrants/{omnifunc,attachment}.py`, `coq/server/{completions,state}.py`, `lua/coq/completion.lua` | `state()` (change id, commit id, nonce, inserted position), metrics of the menu | `_lines_event`, `omnifunc`, `_comp_done`, `complete` | each step awaits nvim several times while changes go on | the menu at rest is of the newest change; a completion is applied once |
| **Buffer words** `coq/clients/buffers` | the tables of lines and words | `set_lines`, poll, `vacuum`, `buf_update` | differences, whole windows and interrupts in any order, in autocommit mode | lines are where nvim has them, or come back with the next poll |
| **Tags** `coq/clients/tags`, `coq/tags` | files with mtimes, tags by file; the database of the current directory | `_poll`, `swap`, `reconciliate` | interrupted between statements; directory swapped while a poll runs | an indexed file has its tags |
| **Tree-sitter** `coq/treesitter/request.py`, `lua/coq/ts-request.lua` | `_STATE`, condition, uids | `async_request`, `_ts_notify`, poll | late replies, several waiters | the reply is the request's own |
| **Registers** `coq/clients/registers` | registers to read, their words | `_poll`, `post_yank` | yanks between reading and storing | every yank is stored in the end |
| **Tmux** `coq/clients/tmux` | text of panes already stored, words by pane | `periodical` | interrupted while inserting | stored text has its words |
| **Snippet store** `coq/server/registrants/{snippets,user_snippets}.py`, `coq/clients/snippet` | compiled files and their mtimes, rows by source | compile, slurp, `populate`, `clean` | crash between two files | what is loaded is what was compiled last |
| **TabNine** `coq/clients/t9` | a process, its lock, its directory | `_comm`, poll, `_proc` | a shielded request outlives its caller | answers are paired with requests |
| **LSP source and cache** `coq/clients/{lsp,cache,inline}` | iterators over replies by client, a cache of items | `_work`, `_poll`, `apply_cache`, `set_cache` | work and poll share iterators that outlive a keystroke | no item of another context |
| **Edits** `coq/server/edit.py`, `coq/shared/{trans,repeat}.py` | the edits of one completion | `edit`, `_consolidate`, `_shift`, `apply` | several edits in one line or with many lines | the same text as applying them at once |
| **Marks** `coq/server/{mark,registrants/marks}.py` | extmarks of a snippet | `mark`, `nav_mark` | marks move with edits | each mark keeps to its text and is visited |
| **Preview** `coq/server/registrants/preview.py`, `coq/shared/lru.py` | the window, the ghost text, an LRU of resolved items | `_resolve_comp`, `_kill_win`, `_virt_text` | handlers cross at every await; eviction | what is on the screen is of the selection |
| **Ranking** `coq/server/trans.py`, `coq/shared/{fuzzy,parse}.py`, `coq/databases/insertions` | metrics, a global distance table | `metrics`, `trans`, `dl_distance`, `quick_ratio` | shared table, boundaries | symmetric, bounded, orders by score |
| **Snippet parsers** `coq/snippets` | a token stream with lookahead | `lex`, `parse` | nesting | tabstops and ranges fit the text |
| **Paths** `coq/clients/paths` | - | directory walk | I/O | - |
| **Launcher** `lua/coq.lua`, `coq/__main__.py`, `coq/client.py` | `job_id`, `err_exit`, the polling | `start`, `on_exit`, `set_coq_call` | one `on_exit` for several jobs | one server |
| **Settings, help, statistics, CI** | - | - | configuration and presentation | - |

The parts meet as follows. A change of the buffer is a `nvim_buf_lines_event` notification: its handler
interrupts the supervisor and all workers, takes a new change id and calls `comp_func`, which calls
`Supervisor.collect`; that hands the context to every worker; the LSP worker iterates over a request of
the session layer. What has been collected is ranked by the reviewer and sent to the menu by Lua when the
change is still the newest. Idle, focus and yank events start background work of the sources (`idle`), which
the next change interrupts. Choosing an item ends in `CompleteDone`, which resolves, edits and sets marks.

## Modules and how they are composed

| module | models | extends or refines | checked by | proved |
|---|---|---|---|---|
| `LspSession` | request layer between Lua and Python | refines `LspRequest` | `lsp_session`, `fair`, `lsp_current_served` | `LspSession_proofs` |
| `Supervisor` | collects, tasks, locks, timeouts | | `supervisor`, `fair`, `supervisor_timeout` | `Supervisor_proofs` |
| `BufferLines` | table of lines of the buffer words | | `buffer_lines` | `BufferLines_proofs` |
| `CompletionFlow` | handlers of the main loop with nvim and the channel | takes from `Supervisor` that a collect ends or is cancelled | `flow` | `CompletionFlow_proofs` |
| `Launcher` | commands, servers, the installer | | `flow`, `commands_served` | `CompletionFlow_proofs` |
| `TagsIndex`, `TmuxPanes`, `Treesitter`, `SnippetStore` | sources that keep a database | | `parts` | `Sources_proofs` |
| `Registers`, `TabNine`, `LspCache` | sources that keep a database, a process, a cache | `LspCache` takes from `LspSession` that only the newest request of a name is answered | `parts` | `Sources_proofs` |
| `Fuzzy`, `Ranking` | how alike two words are, and which items are shown | | `parts`, `shared_rows` | `Fuzzy_proofs`, `Parts_proofs` |
| `Preview` | what is shown of an item, and its cache | | `parts`, `imports` | `Parts_proofs` |
| `EditPlan`, `Marks`, `SnippetText` | what an item does to the buffer | `Marks` extends `EditPlan`, whose `Shift` it uses, as marks.py uses edit.py | `parts`, `linked_marks` | `Parts_proofs` |

The modules with `MC` in front give instances to TLC. `MCSources` and `MCItems` put components side by side that
share neither state nor steps: the variable `source`, or `part`, is the one whose steps a behaviour takes, and the
others stay in one initial state. `MCParts` is either. That makes the union of their state spaces, not the product,
with every invariant checked on all of it. `MCFlow` does the same for the flow and the launcher, and `MCFair` for the session and the supervisor; as nothing that has to go on is enabled in a component that stays
as it begins, the fairness of one asks nothing of a behaviour of the other.

Names of each component's own have a prefix (`tag`, `reg`, `tm`, `ts`, `sn`, `t9`, `lc`, `pv`, `ep`, `mk`, `lx`, `fz`,
`rk`, `ln`), so that modules can be extended together. Some variables are history: nothing in the code keeps them, no
guard reads them, and they only serve to say what a property exempts or compares (`tagTorn`, `regLost`,
`tmTorn`, `tsStill`, `snTorn`, `snOlder`, `lcBegan`, `lcOffered`, `pvLate`, `mkLast`, `fate`, `used`, `alone`,
`torn`, `fresh`, `held`).

Deadlock is not checked in any run: every instance is bounded by a number of events, after which nothing has to happen.

## LspSession, LspRequest

`LspSession` is one request name of the layer that both halves share. Every table of either side is indexed
by the name, so that one name is enough. A generator (one run of `async_request`) is named by its uid;
`pc[g]` says where it is suspended, and an action is the code from one suspension to the next:
`Start`/`LuaReq`/`Called` are the request, `Deliver`/`LuaPull`/`Pulled`/`Resume` the rounds of `while state.acc`, `Drained`,
`Wait`, `Woken`, `Clear` the rest of its loop, `Cancel` what `with_timeout` and a consumer that stops iterating do to
it. `Notified` is `_lsp_notify` up to its lock; `Granted` hands the lock on. `ClientReply` is `on_resp` with
`lsp_notify`. `held[g].shared` says that the session object that a generator holds is the one of `_STATE`: its list is
the same object until something replaces the entry.

Items are the session that they belong to and how many full chunks they fill; a reply is its client. Clients have
distinct names and call back at most once in a session, and notifications arrive in their order, as they
do on one channel. A client may ignore its cancellation, and then answers a session that is over.

`LspRequest` is what a consumer relies on: a request that is open yields answers that were given to it, until it
is closed for good. `RequestsSpec` is that the detailed module implements it.

`lsp_session` has two clients, two sessions of a multipart name and the replies of one chunk. Two sessions are the least
for an answer that is late, and two clients for one that is not the last. In `fair` the name is without multipart.

Fairness: both event loops and nvim run what is ready; a consumer that is not cancelled iterates on; the clients
of the current session answer (docs/CUSTOM_SOURCES.md asks sources to call back). Nobody has to make or cancel a
request, and a client of an old session need not answer. Then a request that overlaps no other ends (`NewestEnds`).

## Supervisor

`collect`, `interrupt` and `Worker.supervised`. `cpc[r]` and `tpc[<<r, w>>]` say where collect `r` and its task for
worker `w` are suspended; `stop` and `tstop` hold those whose cancellation has been asked for and not yet been
raised. `order` is the order in which the workers got their tasks, which `run_coroutine_threadsafe` keeps.
`cancel(wrap_future(prev))` returns as soon as the future is cancelled, whatever the task behind it still does. The
first step of a task precedes its own cancellation, because both are queued on the worker's loop. The soft timeout is a choice
of `FirstReturns`: it may come at any time. `as_completed` yields wrappers, so that `waiting` stays as it is in the
second phase. `HandOut`, `NewInstance` and `NewStat` may fail, as what they write to the database may: the first ends the collect, the second
the task before it has an `s_end` to run, and the error of the third is logged, and swallows a cancellation that it is raised in.
`Work` is the lock that the `_work` of every source begins with. std2's `cancel` is modelled by what it does: it cancels and waits until the future is over. `_with_interrupt`
and `idle` are part of the sources whose polls they stop.

`supervisor` has two workers, one of them with always_wait, and two collects. A third worker would repeat the second, since
workers share nothing but the collect; `MaxItems` 1 tells "something" from "nothing", which is all that the code asks
of the deque. In it the database fails for one task at most that then ends, not of the last collect (`CONSTRAINT OneFails`): such a failure is of the task alone. `supervisor_timeout` needs a third: one to answer in time, one that must be waited for, one that is slow.
The theorems hold for any number of workers and collects.

Fairness in `fair`: the loops run what is ready. A source may take for ever, so that `Finish` and `Yield` have none.
An interrupt that comes before the newest collect has taken its first step cancels it with what it would have cancelled
(runtime.py:123): the collect before is left to gather, and the next one, which has nobody to cancel, waits for it.
`TurnsCome` is what holds all the same: in the end every task is with its source or over, and a collect that waits does so for one that
was left like that, and for nothing else. It takes three collects: the one that gathers, the one that is forgotten, the one that waits.

## BufferLines

The table of lines of one buffer (rows are keyed by buffer). The actions of the database are single SQL
statements, because the connection is opened with `isolation_level=None`: `with self._conn` opens no transaction, each
statement commits, and `Worker.interrupt` (`sqlite3_interrupt`) aborts the one that runs, which ends the operation by
`suppress(OperationalError)`. `Delete`, `LinesShift1`, `LinesShift2`, `InsertLine` (in any order, as `shuffle`
leaves them), `InsertWords`, `EnsureLine` are `_setlines`; `Vacuum` is the deletion past the end of the buffer before a poll's
lines. `Execute` is what an UPDATE does on a table with `UNIQUE(buffer_id, line_num)`; an `IntegrityError` ends the
operation without effect.

The inputs are those of the program: `LinesEvent` is the change event, which interrupts, and hands an update to the worker
only in insert mode; `BufEnter` sets the lines around the cursor while nvim waits (handlers are blocking requests by default, so
nvim does not edit meanwhile); `Idle`, `InfoCount`, `InfoLines`, `PollSets` are the poll, with the two awaits of `_info` between which
the buffer changes, and `PollStopped` its interruption. A task waits for the main loop before it comes to the database, and a
poll that its interrupt has stopped is over by then.

`buffer_lines` has buffers of up to two lines, of two kinds, one of them the blank line that an empty buffer is given, a window of
one line, and two changes: the least for an update that is applied after another was lost. It stops at states in which a shift was
aborted between its halves (`CONSTRAINT Whole`), of which the properties say nothing: lines stay at negative numbers
then, and a later update can fail on them (database.py:105).

## CompletionFlow

From a key to the menu and from the menu to an edit. nvim's loop, the channel and the server's loop are apart: `Type`,
`LeaveInsert`, `OtherMenu`, `AskManual` and `Accept` are the user; `Serve` is nvim answering the oldest call, which it does even
while a request of its own keeps it blocked; `ShowComp` is `COQ.send_comp`, which `vim.schedule` has put off and which a
blocked nvim does not run. `LinesEvent` and `Omnifunc` start a task; `Status`, `Cursor`, `Text`, `Closed` are the awaits of
`comp_func`, each of which is a call to nvim and its reply, with the state written in between, as the code has it (the
context takes the cursor in one call and the lines in another). `CollectEnds` and `CollectCancelled` are what
`Supervisor` promises of a collect. `DoneStarts`, `DoneEdits`, `DoneEnds` are CompleteDone, whose edit is a change of its own.

A change is a number, and a context the change, the cursor position and the text that its calls happened to see. Two
changes and a manual completion are what `flow` has: a change, one while its task is between two awaits, and a task beside
them that does not take a change id.

- `ContextIsNotOlder`: an item is applied in a context that is not older than the one it was found for.
- `QuietMenuIsCurrent`: when nothing is under way, a menu that is open is of the buffer as it is.
- `NewestIsServed`: the newest change is shown or refused (`fate`).

Fairness: the loops of nvim and of the server go on and every collect ends or is cancelled. The user does what they like.

## Launcher

`lua/coq.lua` starts the server at the first command, and repeats the command every 10 ms until the server has put its methods into
`COQ`. One `on_exit` serves the server and the installer, and clears `job_id` for either; `err_exit` is true from an exit with
an error until one without. `ServerBegins` is what `__main__.py` finds (no runtime, wrong options, or nothing
amiss), `DepsClears` and `DepsEnds` the installer, which empties the directory of the runtime before it fills it.

- `OneServer`: the job that is thought to run is one, or its end is still to be heard; and it is the only one, until the end of an
  installer has been taken for that of the server, which is when the code does start a second one.
- `CallsEnd`: no command polls for ever. Fairness: the timer fires, nvim hears of what has ended, and a process that was started gets on.
- The type invariant also bounds the number of servers: one that cannot run is not started again every 10 ms (`LauncherTypes`, for any number of commands).

Two commands are needed for one to find what the other has left; two ends of servers, for one with and one without an error.

## The sources

Each has a poll that a keystroke cancels where it awaits, and statements, in autocommit mode, that a keystroke aborts after some of
their rows. The actions are the awaits and the statements; the question is what the source believes afterwards.

| module | what an action is | property | exempt, because the code does not promise it |
|---|---|---|---|
| `TagsIndex` | listing, `stat` of a file, the run of ctags, `DELETE`, rows, tags; `TagsSwap` to another directory; saves, closes, removals | `TagsAreOfTheRow`: a row has all the tags of its file, of a version that is not older than its mtime | a row whose tags were interrupted (`tagTorn`) |
| `Registers` | a yank, its event, the poll taking the marks, one call for the texts, three statements | `YanksAreKept`: a yank is stored, or still to be read | what a keystroke interrupts in between, and a text that cannot be encoded (`regLost`) |
| `TmuxPanes` | list, screenshots, statements; the poll, and FocusGained which is not cancelled | `RememberedIsStored`: a pane has the words of the text that it is remembered by | a pane whose row was replaced and whose words were interrupted (`tmTorn`) |
| `Treesitter` | request, reply, populate, vacuum, count of lines beside them | `NoGhosts`: after a whole poll, while nvim is as it was (`tsStill`), no word of a closed buffer or past the end of one | |
| `SnippetStore` | two instances: see, load, row, snippets, parse, dump of snippets and then of mtimes; death at any point | `NotNewerIsDone`: what is not newer than meta.json, or than its row, has been compiled, or stored, as it is, but for snippets that the bundled source has as well | a source whose instance died in between (`snTorn`); a newer compilation overwritten by an older one (`snOlder`) |
| `TabNine` | installation step by step, process, the shielded `_comm.cont`, keystrokes that cancel its caller, changes of directory that kill the process | `RepliesAreOwn`: a reply is read by the request that it is for, of a process in its directory; no process is left behind | |
| `LspCache` | `supervised`, work, poll, answers of clients, failures in the middle of an answer, for the worker with a database and the inline one | `OffersAreOfTheRow`: what is offered from the cache, and from the iterators that older works have left, was asked for in the same row | an item that the poll has asked for in a context whose work never began (`lcBegan`) |

A file is its version, which is also its mtime; a text is the words that it has. Bounds in `parts`: one tag file with two names and
two versions (the two directories are part of the module); a register of words and one of lines, three yanks (the third comes after the
first was read and the second marked); two panes and two texts; two buffers, two words, two requests (a cancelled and a current one);
two instances, one snippet file with two versions, two dumps, a bundled snippet that a version of the file has as well; two directories, two processes and four
requests of TabNine; two rows and three contexts (away, and back).

## What happens to an item

`Fuzzy`: `dl_distance` cell by cell, with `_DA` shared by the threads, `metrics` and `quick_ratio`. `DistanceIsRight`
compares it with the least number of edits, defined by recursion over the two words without a table.
`RatiosAreNormalised`: what is made of it is between 0 and 1, and 1 just in the cases where it should be. Its first part,
`EditIsNotNegative`, is the lower bound of what the ranking takes, which holds whatever the threads do to each other's rows. In `parts` one thread makes two calls
of all pairs of words of up to three of two characters, and some with a third, and a look-ahead of 2, so that words are
cut off. `shared_rows` has two threads.

`LspCache` keeps `_local_cached.pre` as the items that are left in its iterators (`lcPre`). A work goes through an answer in one turn of
its loop, so that something is left only where what is done with an item fails (`LcBreaks`); the next work of the same row begins with it (`Stored`),
or the poll goes on with it before it asks (`LcPollContinues`), and `apply_cache` of another row clears it.

`Ranking`: `_prune`, over all lists of up to four items of three texts, with a maximum of two. `LeftOutForCause`: what is not shown is
hidden by a better word of its text, or comes after as many texts as are wanted. It does not say how many are shown, which are more than README.md:444 says (`trans.py:68`, below).

`Preview`: every event starts a handler, a task that runs across its awaits with those before it: `PvKill`, `PvClear`, `PvList`, `PvClose` are `_kill_win`,
`PvGhost` the ghost text, `PvChoose` the choice between what an item says of itself, a path and a language server, `PvOpen` and `PvMark` the two halves of showing
a window, which is found again by the mark only. `PvStart` is the task that resolves, which the next one cancels at any of its awaits; `PvAnswer`, `PvTimeout` and `PvSecondary`
are what comes of it, and `Store` puts it into the LRU. `PreviewIsOfSelection`: once the handlers are done, what
is on the screen is of the selected item, or of an event that was overtaken by another between its
awaits (`pvLate`), which the code does not prevent. Three items and a cache of two make it evict; three events cross.

`EditPlan`: an item becomes instructions; `Consolidate` drops those that overlap; `Shift` moves the rest; `EpApply` sets the
text. A line is a sequence of characters of one or two bytes. An insertion of several words that is the
primary edit, and not of a snippet, is not made where it says but in place of the text around the cursor (`Primary`, `Adjusted`); how much of it `trans_adjusted` takes is a datum of the item. `ReplayIsSimultaneous` compares the outcome with all edits done at
once and what was typed put after the primary one; it asks for what `ProvidedFor` says (for instance, of two edits
on one line, that the first leaves it one line), since the code gets others wrong without saying that they do not come.
Six primary and ten secondary edits, of which up to two come with an item: empty, touching, overlapping, over lines, reversed, out of the buffer,
on both sides of the cursor. Its first part is `PlanIsDisjoint`, which holds without `ProvidedFor`: what is applied does not overlap, the primary
edit is in it, and what is left out overlaps something.

`Marks`: a snippet's marks on one line. `MkAnswer` replaces all that are linked by one answer; `MkSingle` empties one, `MkTransformed` puts what a transformation makes of an
answer under it, `MkChosen` a choice, with the cursor behind it; `MkNoMore` is a key that finds no mark but the one the cursor is on. nvim moves the others: `Pushed`
is where a mark begins, which has right gravity, `Stayed` where it ends, which has left gravity. `MarksKeepTheirText`: a mark
that was not visited is on its text. `parts` has up to two linked marks; `linked_marks` has three. An empty mark right behind the text that is chosen ends before it begins, and is then not listed; it keeps its text.

`SnippetText`: both grammars as one pass over the characters, with the pushback of the parsers; regions; consolidation; rows and columns. A variable has a value, an empty one (in snu
that is `VISUAL`), or none; a format of a transformation is a group, with the cases of letters, a text if it matched and one if it did not. Not in it: escapes in choices, in
regular expressions and in formats, several formats of one transformation, the `lang` of snu, and the transformations that tabstops hand to the marks, of which `Marks` has the outcome.
Sentences are built together with what they stand for, by the grammar that is quoted in lsp.py. `ParsedAsWritten`: a plain sentence comes to the text and tabstops it says; every mark is
where its region is, none contains another, and the innermost stay. Not plain are the sentences that the code is known not to read as the grammar says: a format
with a text for a group that matched, one with a text for a group that did not, a default for a variable that has a value, and a name that ends with the text (in snu a tabstop, too). The run has them, and asks of them
only what it asks of the marks; what they come to is listed below. A mark at the beginning of the second row is off by the text before the snippet (parse.py:62).

## Runs

| run | what it shows |
|---|---|
| `lsp_session` | overlapping requests never mix, none sleeps through an answer, an undisturbed one that is done has all, and the layer implements `LspRequest` |
| `supervisor` | who is let in to a source finds all earlier tasks of its worker stopped; a collect returns when it may; rows of the statistics refer to rows |
| `buffer_lines` | the statements come to a splice; none fails on uniqueness though updates are lost or applied twice; a quiet poll repairs what it reads |
| `fair` | `NewestEnds`: a request that overlaps no other ends; `TurnsCome`: collects and tasks get past their locks though a source never answers |
| `flow` | the menu at rest is of the newest change, an item is applied in a context that is not older, changes are served; one server, and commands come to an end |
| `parts` | the sources and the items, as above |
| `lsp_current_served` | `CurrentIsServed` is violated: a late answer moves `cids` back and the current session is refused |
| `supervisor_timeout` | `TimeoutIsKept` is violated: an always_wait source that misses the timeout makes the collect wait for all |
| `imports` | `ImportsAreApplied` is violated: an item whose resolve was late is cached as if it were resolved |
| `linked_marks` | `LinkedAreReplaced` is violated: of three linked marks the third is replaced at the wrong column |
| `shared_rows` | `DistanceIsRight` is violated: two threads share `_DA` |
| `commands_served` | `CommandsAreServed` is violated: after an error, commands are dropped though a server is up |

## Proofs

All are safety properties, for every value of the constants.

- `LspSession_proofs`: `TypeCorrect`. The invariant is `TypeOK` with `Counted`: `n_clients` is the number of clients that may still call back,
  without which the counter could be decremented below zero. `OnlyOwnReplies` from `OwnInv` (the list in `_STATE` is of its own uid, and the list that a
  generator holds of the generator's); `NeverStaleItems` from `FreshInv` (what `accs` holds is not older than `cids`, and
  what a generator has pulled not older than itself).
  `SessionsOnlyAdvance` from `OrderInv`: all that is in flight is of sessions that have begun, and
  sessions begin in their order, so that a new one is the newest. `Implements` from `RequestInv`, that adds `QueueInv` (who queues for the
  lock is there once), `CallInv` (calls reach Lua in the order of their sessions) and `GivenInv` (whatever answer waits anywhere has been given by
  its client): each step is then one of `LspRequest`, or a stutter.
  `WakeupsAreKept` from `WakeInv`: `Synced` (a session object that is shared is the entry of
  `_STATE`), `Quiet` (nobody sleeps on an event that is set) and `Told` (whenever the session of a generator has something it has not read,
  the event is set and nobody will clear it, or a notification is last in the queue of the lock). `DoneMeansComplete` from `CompleteInv`:
  the last answer is sent last, and every answer for a generator that nothing disturbed is on its way, in `_STATE`, in its hand, or yielded.
- `BufferLines_proofs`: `TypeCorrect`, `StatementsNeverClash`, `UpdatesAreSpliced`, `OthersStay`, `PollsRepair`. `TableInv` says at each
  statement what the table is in terms of the one that the operation has found: the rows out of the range, their half-shifted images,
  or the rows above, those moved and those already put. The lemmas `HalfShift`, `FullShiftPasses`, `InsertFits` are the
  arithmetic: rows below the range land below what is inserted, and their negatives meet nothing. `PollsRepair` adds `PollInv`
  (what a poll has read is still what the buffer is) and `HeldInv` (nothing has touched the table since).
- `Supervisor_proofs`: `TypeCorrect`, `PreviousAreInterrupted`, `HeardEnoughCorrect`, `RowsRefer`. `IInv` is `TypeOK` with `GivenInv`
  (`order` has each collect once, and just those that have given out tasks), `ChainInv`, `IdbInv`, `GatherInv` and
  `HeardInv`. A task only stops its immediate predecessor; `ChainInv` carries that along `order` to all the earlier ones. `GatherInv`: who has the lock
  is last in `order`, so that nobody but an interrupt cancels its tasks while it counts them. `HeardInv`: `waiting` is 0 only when all with always_wait
  have been heard.
- `Sources_proofs`: `YanksAreKeptCorrect` (`RegIInv`: what is stored of a register is one text at most, and what the poll has read is that of the registers it has
  taken), `RepliesAreOwnCorrect` (`T9IInv`: one request at most is in a process's pipes, and it is the one that has the lock), `OffersAreOfTheRowCorrect`
  (`LcIInv`: the order of the contexts of work, poll and cache, and that all that is cached, or left in an iterator, is of the row of `_cache_ctx`), `TagsAreOfTheRowCorrect`
  (`TagIInv`: what ctags has found is all the tags of a version not older than the mtime read before, and between the statements of a write
  its files have no tags), `RememberedIsStoredCorrect` (`TmuxIInv`: while statements run, what is remembered is of panes that are there, so that no
  statement deletes it), `NoGhostsCorrect` (`TsIInv`: what was counted is so while nvim stays as it is), `NotNewerIsDoneCorrect` (`SnLIInv`: what an
  instance has loaded is the file if the file still has the mtime it saw, and the row it fills has that mtime; `SnCIInv`: no version compiled is older
  than the mtimes of any instance that is about to write them; `SnOwn`: every snippet is one that its source can have, so that only what both can have is ever ignored).
- `CompletionFlow_proofs`: `ContextIsNotOlderCorrect`, `QuietMenuIsCurrentCorrect`, `FlowTypes`, from one invariant, `FlowInv`. Its heart is the line in
  which the calls of the server are answered: the replies in `inbox`, then the calls in `calls`. `InLine`: a task that is not collecting waits in
  it once. `Numbers`, `OneAuto`, `OneRequest`: tasks are numbered as they are asked for, one at most is of a change, and nvim waits for one thing.
  `Changes` and `Positions`: along the line neither the `change_id` that a task has seen nor the position that it has read gets less, and the state's
  are at its end. So contexts reach the state in the order of their changes and positions, which is `Ordered`, with `ContextIsNotOlder` as its last part.
  `Contexts`: a context that has been read has a position and a text that are not older than its change. `Newest`: the newest change is skipped, or on its way, or
  asked about, or served, that is, a collect for it runs that nobody has stopped, or what will be shown once all that is on its way to nvim has come is of it
  or closes the menu. When nothing is under way, that is the menu; and its position and its text, neither older than the newest change nor newer, are current.
  The lemmas `PutEvent`, `ServeKeepsPlace`, `TakeHead`, `PutCall` are what the four steps on the line do to it.
  The launcher: `OneServerRuns` (`LnIInv`: every server but that of `job_id` has been reported, so that none is left that
  could clear it while another runs) and `LauncherTypes` (`LnBound`, with `FewStarted`: each server is charged to the command that started it or to an end
  without an error of a server or an installer, and what may still be started has been paid for).
  `TypesCorrect` and `BothAreSafe` are of `MCFlow`, the specification that the run checks: its behaviours are behaviours of both.
- `Parts_proofs`: `PreviewIsOfSelectionCorrect` and `PreviewTypes` from `PvShownInv`: a handler is for the item that is selected, or was overtaken (`TaskOK`); a window that cannot be found yet is about
  to get its mark, or the showing of it was overtaken or cancelled (`BareOK`); and the windows, and the ghost text, that are to go are what the newest handler has yet to close, and can be found
  (`StaleOK`, `GhostOK`). `LeftOutForCauseCorrect` (`RkInv`: what has been looked at is shown just if no word of its text has been looked at before, and of the words of each
  text one is shown); `PlanIsDisjointCorrect` and `MarksKeepTheirTextCorrect`. `FoldsExist` says that a fold over a finite set that picks one after
  the other is a function of the parts of that set, by induction over their size; the loops of `_consolidate`, `_shift` and `apply` are such folds. In what order they go
  through a list is given by ranks, each of which is taken by one instruction (`PlacesAreTaken`) or mark (`RanksAreTaken`). `TakenOK` holds after each step of `_consolidate`: the stack is
  disjoint, its end is the pivot, and every instruction so far is on it, or overlaps one that is, or one that the primary one has put out. The rest is
  that each instruction ends where it begins or after that, whatever the columns of the client are (`InstructionsAreInsts`), since `ByteCol` grows with the column
  and the two positions are sorted. `MkIInv`, for the marks: each is on its text, none is inside of another that is not empty, two at most have one number, and the cursor is on the line. An edit of
  the part between two characters leaves the characters before and behind it, and what nvim makes of the columns of a mark apart from it is where its characters have gone (`MarkMoves`).
  That the marks which are not replaced are apart, also of the second edit in its shifted place (`MovedAreApart`), is what the disjointness of the marks gives.
  `InnermostAreMarkedCorrect` is of the snippets of any length: no mark contains another, a tabstop that contains none keeps its mark, and the row and column of a mark are where
  its text is in the buffer, with the one exception that the property states. `LxIInv`: what is left to read are characters, and the regions are in the text. `TokensAreReading` takes the fold of
  `token_parser` over the tokens step by step, with what is open ending no later than the text (`ReadIsReading`); `ByLengthSorts` that the loop of `_consolidate` meets each region once, a shorter one first; `AllAreKept`
  that after each of its steps what is kept is disjoint and what is not kept contains or is in something kept that came before it; `MarkIsPlaced` that as many lines have ended before an offset in the buffer as in the snippet
  (`AsManyHaveEnded`), so that `_marks` finds the row.
- `Fuzzy_proofs`: `EditIsNotNegativeCorrect` from `FzInv` (a cell of the table is at most its row or its column, by the changes, insertions and
  deletions alone, so that it does not matter which row another thread has put into `_DA`), and `SimilarityIsNormalisedCorrect`, which asks nothing of the
  threads either. `DistanceIsRightCorrect` from `FzExact`, as long as `OneAtATime`: no two threads are in the table at once. What is filled of the table is the reference; `_DA` and
  `db` have where a character was last seen (`LastSeen`). The reference takes the least over all swaps of a cell, the code looks at one:
  `CellIsApart` shows that what was seen last costs no more than any other, since a row or a column more changes a distance by one at most (`DistancesAreClose`),
  and that a swap with what was not seen is never the least. `EditIsAtMostOneCorrect`: a distance is at least the difference of the lengths,
  and just that if one word is in the other (`DistanceIsLeast`). The three parts are `RatiosAreNormalisedCorrect`. `OneAtATime` cannot be left out, `shared_rows` shows
  that. `Distances` is a recursive function and the letters in
  common are a fold. What these are for every word is proved by `SetInduction`, which has a set as its parameter and not an operator, from the least element that a set of naturals has.

- `MCParts_proofs`: `PartsTypesCorrect` is of `MCParts`, the specification of the run `parts`: its behaviours are behaviours of every source and of every part
  (`EachIsServed`), whose types are proved in `Sources_proofs` and `Parts_proofs` (`TagTypes`, `RegTypes`, ..., `RkTypes`) from the invariants above and what bounds them:
  every request for LSP items is charged to a work, two to each, its own and that of the poll that its end wakes (`LcAsked`); a file has a tag of a name once, in what ctags
  has found as in what is stored (`TagTyped`); as many scopes are open as tokens have been read (`LxTyping`); and the cursor is on the line whatever is put there (`NewIsOnLine`).

They rest on the named assumptions of the modules only: the sets that are said to be finite are, bounds are natural numbers, the
blank line is a line, `"none"` is not a register, the cache holds something, the words that are compared are sequences, texts are sequences of lines of characters, an edit has positions or the text around the
cursor and a new text of at least one line, the versions of files and of compiled snippets begin with 1, what a snippet leaves are marks between characters, each on its text and none inside of another, a snippet is a sequence of characters and an indent a natural number. `MarksKeepTheirTextCorrect`, and with it `PartsTypesCorrect`, also asks that no more than two
marks have one number, since with three it is false (`linked_marks`).

Only model-checked: liveness (`NewestEnds`, `TurnsCome`, `NewestIsServed`, `CallsEnd`), which is out of this prover's reach, as is ENABLED; that
the edits of a plan do one after the other what they do at once (`ReplayIsSimultaneous` but for its first part) and the text and tabstops that a plain snippet parses to (`PlainIsUnderstood`, the first part of `ParsedAsWritten`, of which the second is proved). In the first the
columns of an edit in a row move with every edit before it and rows are joined and broken; the second is an induction over the grammar that the sentences are built with, which is not a
part of the specification but of the run that gives them.

## What was found

Each is a run that ends in a violation.

1. `lsp-request.lua:91`: the late answer of an older session moves `cids` back, and items of the current one are lost.
2. `runtime.py:162`: `tasks.get(fut)` never finds a key, so that an always_wait source that misses the timeout makes a collect wait for every source.
3. `preview.py:261`: an item that was not resolved in time is cached in the place of the resolved one; accepted later, it comes without its imports.
4. `edit.py:415`: the shift of a row is set, not added to: the third of three linked marks on a line is replaced at the wrong column.
5. `fuzzy.py:75`: `_DA` is shared by threads, so that the distance of a pair of words is not always theirs.
6. `coq.lua:148`: once a server has left with an error, commands are dropped though the server that they start comes up.

Others came up while modelling, are in the models as the code has them, and have no run of their own:

- `runtime.py:123`: an interrupt of a collect that has not begun leaves the one before gathering, and the next one waits for it. docs/PERF.md:143 says: "If
  something is outdated, we cancel it." It is the exception of `TurnsCome` (`LeftGathering`).
- `preview.py:354`: the handler of an item that is no longer selected puts its ghost text after that of the newest event has cleared what there was. docs/DISPLAY.md:31 calls it
  "The virtual text previewing selected completion". It is the exception of `PreviewIsOfSelection` (`pvLate`).
- `trans.py:68`: one text more than `max_results` is shown, and snippets are not counted. README.md:444 says: "On keystroke only a max of `coq_settings.match.max_results` are shown."
- `marks.py:38`: an empty mark right behind a placeholder for which a text is chosen ends before it begins, and is never gone to: the last position of `${1|a,b|}$0` is lost.
- `lsp.py:384`: a format with a text for a group that matched has the text for one that did not, against the grammar of lsp.py:58.
- `lsp.py:394`: a format with a text for a group that did not match is read past its brace, and refused, against lsp.py:60.
- `lsp.py:583`, `snu.py:145`: a variable that has a value and a default in the snippet makes the parse fail, against lsp.py:54.
- `lsp.py:287`: a variable without braces at the end of a snippet is dropped, against lsp.py:53.
- `request.py:161`: "wake up previous generators" only reaches those that are asleep.
- `buffers/db/database.py:105`: lines at negative numbers after an aborted shift.
- `omnifunc.py:100`: a manual completion right after a change may be dropped when its collect ends, if the task of that change has taken its change id by then.
- `coq/shared/trans.py:77`: a letter that casefolds to two makes the replaced prefix a character too long.
- `autocmds.py:103`: the notice of a slow tree-sitter buffer is never started.
- `t9/install.py:76`: a directory that an interrupted installation leaves passes for an executable.
- `preview.py:189`: a handler that is cancelled between opening its window and marking it leaves a window that is not found again.
- `load.py:25`: a snippet that two sources have goes with the one that was loaded first, and the other is not loaded again.
- `snu.py`: a tabstop without braces at the end of the text is dropped; `parse.py:62`: a mark at the beginning of the second row.
- `edit.py`: columns in UTF-32 are taken for UTF-8; `edit.py:361`: an edit is dropped for overlapping one that the primary edit then puts out, so that neither is applied.
- `coq.lua:29`: the end of the installer clears `job_id`, so that a second server can be started; `coq.lua:141`: every repeated command opens another listening address.

## Not modelled

- Paths (a walk of the file system), settings, help, the statistics window, localisation, CI, snippet artifacts, the parse of LSP answers: I/O,
  decoding and presentation, without state of their own.
- The order of the ranking: weights are sums of floating point numbers, scaled by their totals and sorted. Tokenisation, and the selects of the
  databases.
- In the parts that are modelled: text of items, timing and logging; the words of the buffer table, which follow their lines; the rename
  of buffers; signature help; `repeat` and text transformations of items; where the preview is placed; the order in which language servers
  are asked (`mul_bandit.py`); the editing commands of user snippets.
- Error handling of nvim itself, of msgpack and of SQLite is taken as documented.
