# A verification of ibus-daemon

TLA+ modules of the daemon of IBus (`bus/` of the repository, and the parts of
`src/` it is built on), TLC configurations that check them on small instances,
and theorems about them proved with TLAPS. Lines are cited as `file.c:line`;
files of the daemon are in `src/bus/`, those of the library in `src/src/`.

## 1. The system

ibus-daemon is one process with one main loop and one GDBus worker thread per
connection. Clients (applications), engines, panels and tools are other
processes. The daemon is their message bus: it does not use dbus-daemon.

| Component | State | Operations | Interacts with |
|---|---|---|---|
| **Message router** `dbusimpl.c`, `connection.c` | `forward_queue`, `dispatch_queue`, each with a lock and an idle source; the DISPATCHED mark of messages | filter of GDBus's threads, two enqueueing functions, two idle callbacks, signals of the daemon | every component: all messages pass here |
| **Bus names** `dbusimpl.c` | `names` with the queue of owners of each, `connection->names`, pending StartServiceByName calls | Hello, RequestName, ReleaseName, StartServiceByName, its timeout, closing of a connection | components (started), IBus service (NameOwnerChanged) |
| **Match rules** `matchrule.c` | rules with recipients and their counts | AddMatch, RemoveMatch, closing | router (recipients) |
| **IBus service** `ibusimpl.c` | focused context, global and previous engine names, registered components, panels, hot keys | CreateInputContext, SetGlobalEngine, RegisterComponent, callbacks of contexts, names and components | contexts, components, panels |
| **Input contexts** `inputcontext.c` | `has_focus`, capabilities, engine, `data` (request in flight), preedit, queue of post-processed updates | FocusIn/Out, ProcessKeyEvent, SetCapabilities, set_engine_by_desc, signals of the engine, destruction | IBus service (signals), engine proxies |
| **Engine proxies** `engineproxy.c` | focus told to the engine, properties, surrounding text | focus, keys, signals; the asynchronous `bus_engine_proxy_new` | factories, contexts |
| **Component processes** `component.c`, `factoryproxy.c` | `pid`, `factory`, `restart` | start, child watch, factory set and destroyed | names (owner of the component's name), engine requests |
| **Panel proxies** `panelproxy.c` | the focused context of a panel | updates, PanelExtension, signals of the panel | IBus service, contexts |
| **Server, main** `server.c`, `main.c` | server, address | new connection, start of components, quit | names |
| **Client library** `ibusbus.c`, `ibusinputcontext.c` | connection, capability and property caches | reconnection, sync and async calls, post-processing | daemon |
| **Engine library** `ibusengine.c`, `ibusfactory.c`, `ibusenginesimple.c`, `ibuscomposetable.c` | engines by path, compose state, surrounding text | CreateEngine, ProcessKeyEvent | daemon |
| **Data** `ibuslookuptable.c`, `ibusregistry.c`, `ibusobservedpath.c`, `ibushotkey.c`, `ibuskeymap.c`, `ibusserializable.c`, `ibusconfig*.c`, emoji, Unicode | values, tables, caches | sequential algorithms | all |
| **Portal, clients, user interface** `portal/`, `client/`, `ui/`, `setup/`, `tools/` | event loops of toolkits | calls of the client library | daemon |

What is hard in it:

- *threads*: GDBus's threads run the filter and append to the queues while the
  main loop drains them, and close connections at any time;
- *reordering*: FocusIn and FocusOut come from different clients, so they come in
  any order; a key can come before either;
- *asynchronous requests*: an engine is created by up to three asynchronous steps
  (start a process, wait for its name, call CreateEngine) while contexts move,
  die, or ask for another engine;
- *failure*: a process that ends is seen as a closed connection, as an exited
  child, and as an error of every call, in any order;
- *stale bookkeeping*: the same fact is kept twice (owner queues and private
  lists, engine and `global_engine_name`, `has_focus` and `focused_context`).

- *nested main loops*: in the hybrid mode the Wayland and X11 clients await the
  answer to a key inside its handler, so that handlers nest and end inside out;
- *caches and files*: registry caches outlive the daemons that wrote them and the
  files they describe.

What makes each part correct: a message is delivered in order to exactly its
recipients, once where it is addressed and else once for each rule that fits (router,
match rules); the queues, the lists and the signals of a
name agree (names); one engine has one context, and its process hears the truth
about the focus (contexts, IBus service); every request is answered once
(requests); a daemon never runs two processes of one component (components);
panels draw for the context in focus (panels); a cache that passes for current
is, and changes are announced (registry); a client gets connected, and what it
believes is true of one connection (client library); keys come back in order and
no update is lost (key events, XIM); a preedit text is committed once or cleared
(preedit); only keys held down are repeated, and only to
their text input (Wayland); a composition is that of the keys typed (simple
engine); the cursor is at a candidate, and the panel shows that one (lookup table).

## 2. The modules

| Module | Models | Abstract specification |
|---|---|---|
| `MessageRouter` | the queues of `dbusimpl.c`, their threads, sources and callbacks | `BusDelivery` |
| `NameService` | the bus names of `dbusimpl.c` | |
| `MatchRules` | the match rules (`matchrule.c`, `dbusimpl.c`) and the dispatch by rules | |
| `GlobalEngine` | contexts, focus, engines and the global engine (`ibusimpl.c`, `inputcontext.c`, the focus of `engineproxy.c`) | |
| `EngineRequest` | component processes, factories and `bus_engine_proxy_new` (`component.c`, `factoryproxy.c`, `engineproxy.c`, `ibusimpl.c`) | `AsyncRequest` |
| `Panels` | the panel, the emoji extension and their focus (`panelproxy.c`, `ibusimpl.c`) | |
| `Registry` | component files, caches and monitors (`ibusregistry.c`, `ibusobservedpath.c`, `ibusimpl.c`) | |
| `KeyEvents` | the key events of a synchronous client and the updates it fetches after each (`inputcontext.c`, `ibusinputcontext.c`) | |
| `ClientBus` | the connection of a client to daemons that come and go (`ibusbus.c`) | |
| `Preedit` | the preedit text of a context and who commits it (`inputcontext.c`, `ibusimpl.c`, `client/gtk2/ibusimcontext.c`) | |
| `WaylandIM` | contexts and key repetition of the Wayland input method (`client/wayland/ibuswaylandim.c`) | |
| `XimServer` | connections, contexts and keys of the XIM server (`client/x11/main.c`) | |
| `SimpleEngine` | the engine of the keyboard layouts (`ibusenginesimple.c`, `ibuscomposetable.c`) | `Composer` |
| `LookupTable` | candidates, cursor and pages (`ibuslookuptable.c`), and what is sent of them to the panel (`ibusengine.c`) | |
| `MessageRouter_proofs`, `GlobalEngine_proofs`, `Preedit_proofs` | theorems about the module of that name | |
| `DBusImpl_proofs` | theorems about `NameService` and `MatchRules` | |
| `Components_proofs` | theorems about `EngineRequest` and `Registry` | |
| `Client_proofs` | theorems about `KeyEvents` and `ClientBus` | |
| `Displays_proofs` | theorems about `Panels`, `WaylandIM` and `XimServer` | |
| `Engines_proofs` | theorems about `SimpleEngine` and `LookupTable` | |
| `MC*` | instances for TLC | |

The modules meet at narrow interfaces, and each takes the other side as an
arbitrary environment, which allows more than the other module does:

- `GlobalEngine` sees a request for an engine as something that ends with an
  engine or an error at any time, which is what `EngineRequest` shows of it
  (`AsyncRequest`);
- `KeyEvents` sees the focus as an arbitrary choice of where a key goes, and `Panels`
  sees the focus and the engines move arbitrarily; `GlobalEngine` decides both;
- `EngineRequest` sees a component's name as the queue of its owners, which
  `NameService` models with all its flags; `MatchRules` sees only that names change
  hands;
- `MessageRouter` has constant recipients, which `MatchRules` finds when a message is
  dispatched; all other modules rely on the order of messages that `MessageRouter`
  shows;
- `Preedit` sees another context take the focus, and engines change, at any time
  (`GlobalEngine`); that an embedded text reaches the client also while a key waits
  is shown by `KeyEvents`;
- `WaylandIM` and `XimServer` see the daemon as something that answers a key at any
  time (`KeyEvents`), or makes a context at any time (`GlobalEngine`).

### MessageRouter

One action is one critical section or one piece of code between two of them.
`FilterIncoming` and `FilterOutgoing` are `bus_dbus_impl_connection_filter_cb` in a
connection's thread up to the lock of the queue it chooses; `AppendToQueue` is the
critical section (`is_running`, `g_list_append`); `AttachSource` is the
`g_idle_add_full` after the unlock. `StartCallback` is an idle callback up to its
unlock, `FinishForward` and `FinishDispatch` are the rest. `EmitSignal` is the main
loop's own use of the same functions; it happens between two callbacks because the
main loop is one thread. The DISPATCHED mark is `tagged`, the skipped connection is
part of the item. The callback of the dispatch queue concatenates the recipients of
all rules that match and writes one copy for each entry: how many rules of a connection
match a message is the constant `Watching`, and `Recipients` has the number of copies of
each connection (`SendCopies`).

What `BusDelivery` promises is stated with two parameters that the module defines:
`Expected`, how often a connection gets a message (once what is addressed to it and
the error for its call that nobody can take, and once more for each of its rules that
fits), and `Earlier`, what the sender of a message sent to the same destination before
it: all copies of that come first. A message is an object, so
`RouterAssumption` has each one sent once, by one thread.
Connections stay open here, so `g_dbus_connection_send_message` (`dbusimpl.c:1866`)
does not fail; the error reply after its failure is that of a call nobody can take.
The branch of the callbacks for a destroyed object is unreachable while the loop
runs: `server.c:357-390` destroys the objects after the loop has ended.

### NameService

One action per method, and `DestroyConnection` for the "destroy" of a
connection. `owners[n]` is `service->owners`, `names[c]` is `connection->names`,
`told` and `announced` are what connections have heard (NameAcquired, NameLost,
NameOwnerChanged), `calls` are the pending StartServiceByName calls. RequestName
has the three outcomes `NameTaken`, `NameQueued` and `NameExists`; before each of them
the code removes the caller's old entry.

- A unique name stands for its connection.
- RequestName is enabled after Hello only: before it the code stops at a `g_assert`.
- Owners keep a reference to their connection, so an owner whose connection is
  closed is still a valid object (and a finding, below).
- `start_service_timeout_cb` reads `call->dbus` after it freed the call; the model has
  the outcome the function intends.
- The queries (GetNameOwner, ListNames, NameHasOwner, ...) change nothing.
- The slots of connections and calls bound a run; closed connections are not
  reused, hence no deadlock check.

### MatchRules

`rules` is the list of rule objects with their recipients and counts; `wanted`
is what the peers asked for. `AddMatch` and `RemoveMatch` are the methods,
`Disconnect` the "destroy" of a connection with `bus_match_rule_connection_destroy_cb`
of each rule, `OwnerChanges` a name that changes hands, `QueueForRules` and
`DispatchToRecipients` the two ends of the dispatch queue. All of it runs on the
main loop; the messages wait meanwhile, so the recipients are those of the moment
of the dispatch. A well-known name in a rule stands for its owner at that moment.

- A rule keeps no recipients after its last one closed: the callback returns
  before the test that would drop the rule (`matchrule.c:648-667`), so the object
  stays in the list, contrary to `dbusimpl.c:1032`. That is a leak, and in the model
  as in the code.
- The text of a rule is parsed outside of the model.

### GlobalEngine

One action per handler: CreateInputContext, FocusIn, FocusOut, SetCapabilities,
ProcessKeyEvent (its two ways to take the focus, `KeyWithoutFocus` and
`KeyAfterLostFocus`), the destruction of a context, SetGlobalEngine, the end of a
request (`EngineReady`, `EngineFailed`: `new_engine_cb` with the callback it calls),
RegisterComponent, and the loss of a registered component or of one of the
registry, each with all that follows in the same turn of the main loop: the
"destroy" of the engines, `check_global_engine` with its three outcomes, and the
new request. `in_focus` are the engines that were told FocusIn last; it is the
`has_focus` member of `engineproxy.c`.

- `use_global_engine` is always TRUE (its setting can only be TRUE in this
  version), so SetEngine on a context always fails.
- The signals to panels change no modelled state, and the preedit text is that of
  `Preedit`. A FocusOut that `ignore_focus_out` ignores is a stutter.
- A context that loses its client is destroyed as any other; a connection with
  several contexts destroys them one after the other.
- Each engine name belongs to one component. One that is both in the registry and
  registered is not modelled.
- The callback of a task runs in the step that returns it: GTask calls it at once
  for a task that was started in an earlier turn of the loop.
- When an engine is attached to a destroyed context (finding `zombie_engine`), the
  loss of its component afterwards is undefined behaviour; that step is left out
  (`NoLeak`).
- `enable`'s way to ask for an engine, and the branch of
  `bus_ibus_impl_set_global_engine_by_name` for an equal name, cannot be reached;
  `PreviousDiffers`, half of `RecordsCurrent`, is the reason for the second.

### EngineRequest

`exe`, `proc` and `conn` are the processes of components, `pid` and `factory` the daemon's
`BusComponent`, `queue` and `private` the owners of a component's name and whether the
name is in their connection's private list, `request`, `idles` and `result` the
`EngineProxyNewData` in flight, the queued `cancelled_idle_cb` and what the caller got.
A process that ends (`Exit`) is handled later, by `ChildExited` and `ConnectionClosed` in any
order; a closed connection refuses new proxies at once. `SetFactory` is the property
with its "notify" signal: it runs `notify_factory_cb` of every waiting request.

- Components ask for their names with no flags, as IBus's own programs do.
- `exec` may fail. A restart (`main.c:282-340`) is for the panel and configuration
  components; the instance gives the one component both a restart and engines,
  which covers the behaviour of either kind.
- Registered components, which end with their factory, are in `GlobalEngine`.
- A RequestName that is handled after its process has ended is not modelled.
- When the connection is closed as `create_engine_ready_cb` handles the reply,
  `bus_engine_proxy_new_internal` gets NULL from `g_initable_new` and uses it: it writes
  through it, or stops at the assertion of `engineproxy.c:1386`. Either way the daemon
  is gone (`Crash`, `crashed`): no request is answered, none is left, and the behaviour
  ends there (finding `null_engine`).

### Panels

`panels` are the proxies: of which process, which are alive, which is in use as
panel or emoji extension, which context each believes to be in focus, what its
process was told, and whether the extension is enabled. `focused_ic` is
`ibus->focused_context`, `holders` are the contexts that have an engine, `extension` is
the emoji extension of each context. One action per event: a panel or emoji
process gets or loses its name, closes its connection; the focus moves, is
left, a context is destroyed, an engine comes or goes; the extension is enabled
or used.

- All contexts have `IBUS_CAP_FOCUS`.
- The updates and panel actions that a proxy forwards keep no state and are left
  out.

### Registry

The component files of one directory change (`Files` with a version: the time each
was written, 0 for none) while `ibus write-cache` and daemons read them, save caches
for the system and for the user, and test whether one is outdated. A reader is
several steps, between which files change. On a `frozen` file system (ostree,
`ibusobservedpath.c:244`) every mtime is the same and only names tell.

- No two changes are made within the second that mtime resolves, and one
  program reads at a time.
- A file is parsed first and its mtime taken after (`ibus_component_new_from_file`):
  a change between the two is never seen. `CacheIsFresh` excepts just these files.
- Changes between the load and `start_monitor` of a daemon are not announced, and
  `ChangeAnnounced` speaks of those after. An empty directory has no hash list
  (`ibusobservedpath.c:260`).

### KeyEvents

The client blocks in ProcessKeyEvent (`PressKey`, then `KeyReturns` or `GiveUp`) and
then in the Get of PostProcessKeyEvent (`UpdatesReturn`), as `_process_key_event_sync`
of the GTK client does; its signals wait for its main loop (`DispatchSignal`). The
daemon's handlers are `ProcessKeyEvent`, `EngineReply`, `PanelReply` (the callbacks of the
two forwarded calls), `PostProcessKeyEvent`, and `Update` for whatever the engine or
the panel sends to the context: `bus_input_context_make_post_process_key_event` and,
where it returns FALSE, the signal.

- The property EffectivePostProcessKeyEvent is on; the client has one context and
  does not mix synchronous and asynchronous keys.
- An update is a number. One of two entries is a preedit text.
- What the update does to the text is left to the client's application.
- Calls, replies and signals of one connection keep their order (`MessageRouter`): a
  Get is handled after the key before it, and a signal reaches the client before a
  reply that was sent later.
- `gaveUp`, `applied` and the numbers are history that no action reads.

### ClientBus

`bus` has the fields of `IBusBusPrivate` that the connection is about (address, the
cancellable, the connection, the watch of signals) and what the application was
told. Requests to connect are numbered and run in a thread (`RequestEnds`); their
callback (`ConnectReady`), the monitor of the address file (`AddressChanged`) and the
"closed" signal (`ConnectionLost`) come to the main loop in any order. The address of
a daemon is the number of its start. A request that was cancelled may have ended
before it noticed. A daemon may refuse a connection, to a request or to the constructor,
which blocks (`Connect`, `ConnectFails`); `refused` says that this one did, and the code
does not try again until the address file changes.

- The portal, and the end of the `IBusBus` object, are left out.

### Preedit

One context with its client and its engine, three processes with a queue of messages
for each direction. A text is the number of its composition; the engine shows it to
be cleared or to be committed (`IBUS_ENGINE_PREEDIT_COMMIT`) when the focus leaves.
The client (`Im...`, GTK's; `clientCommits` is its `client_commit_preedit`, FALSE for
XIM) commits what it shows before it calls FocusOut or Reset. The context's handlers
(`ContextFocusIn`, `ContextFocusOut`, `ContextReset`, `ProcessKey`, `SetCapabilities`, `SetEngine`,
`EngineSignal`) clear with or without a signal, and commit for clients that do not.
`OtherFocusIn` is `bus_ibus_impl_set_focused_context` for another context. `embedded` is
`PREEDIT_CONDITION`: the client shows the text, or the panel does.

What a text should come to is history: `due` are the texts the engine committed, or had
on show to be committed when its context lost the focus, was reset or got another
engine. `mishaps` names what has happened by which the code loses or doubles a text;
TLC finds a counterexample when any one of the five is no longer excepted:

- *crossed*: the client ends its preedit, or the engine is replaced, while a key or an
  update of the text is under way;
- *uncleared*: the toolkit's reset in the asynchronous mode, for which the clearing is
  commented out (`ibusimcontext.c:1497-1505`): the daemon drops the text that it takes
  the client to have committed;
- *unseen*: a client that commits what it shows, while the panel shows the text
  (`inputcontext.c:1339`, `2028`): nobody commits it;
- *moved*: SetCapabilities while there is a text, which stays where it was shown;
- *overtaken*: the FocusIn of another client while the slow one has not committed yet
  (`ibusimpl.c:922-933`): `set_engine (NULL)` sends it an empty text before it does.

- The engine is any that keeps to the documentation of
  `ibus_engine_update_preedit_text_with_mode`, and changes its text with keys only.
- The emoji extension, the text "_" for hidden input and the cursor are left out;
  keys that wait for their updates are those of `KeyEvents`.

### WaylandIM

One action per event of the compositor (`InputMethodActivateV2`, `..DeactivateV2`,
`..DoneV2`, `..UnavailableV2`, `KeyPressed`, `KeyReleased`), per timer, for the callback of
CreateInputContext, and for the end of a nested main loop. A context has the
number of the request that makes it; `creations` says whether the request runs,
failed, or its context was last told FocusIn or FocusOut. `stack` are the sources
whose handlers wait in nested loops: GLib dispatches none of them again, and
`sources` are the timers of the main loop, also those whose number the static
`repeating_event` has lost.

- One seat, version 2 of the protocol. The synchronous and the asynchronous mode
  are one; the virtual keyboard, the keymaps and the preedit text are left out.
- Whether a press is repeated at all is left open: it also depends on dead keys
  and level modifiers.
- Whether a release is ignored is decided by the sym of that event, which modifiers
  change between press and release (`ibuswaylandim.c:2405-2415`); so each release may be
  (`ReleaseIgnored`), and the repetition of its key goes on. `missed` is the history of it,
  which `RepeatsHeldKey` excepts.
- A cancelled request always fails (GDBus sees the cancellable when it returns).

### XimServer

One action per request of an X client (open, close, create and destroy a context,
a key event in each of the three modes), one for the answer of the daemon to a key
(`KeyEventReplyDone`) and one for the handler that goes on after its nested loop
(`LoopEnds`). Ids of connections are used again, those of contexts are not. A
context that is destroyed while its key is with the daemon is freed memory: what
is sent back then goes to a later context or to none.

- XIM_DISCONNECT does what XIM_CLOSE does. Focus, attributes and preedit are left
  out.
- The daemon answers the keys of one context in order, or the call fails, before a
  nested loop gives up after two minutes.

### SimpleEngine

A key event is one step, except that `no_sequence_matches` calls the handler again
for keys it takes back: these calls are the steps `ProcessAgain`. Between keys come
the timer that shows a hidden preedit again, the user's table, which
`engine/main.vala` loads in an idle callback, and the focus. `Tables` are functions
from sequences to texts; the search over them and over prefixes is that of
`ibus_engine_simple_check_all_compose_table`.

- Hexadecimal input is taken to be enabled; the emoji sequences of the code cannot
  be started, since `is_emoji_start` is never TRUE.
- `COMPOSE_BUFFER_SIZE` is one global variable; the model has the one engine.
- Files of tables, their cache and the binary search in them are not modelled.

### LookupTable

The state is one table; one action per operation that moves the cursor or changes
the number of candidates, the page size or the wrapping, and `Sent`, a function of
the table, for what `ibus_engine_update_lookup_table_fast` gives the panel: all of a
small table, else three pages with the cursor moved. `Shown` is what a panel makes
of it.

- Labels, the orientation and the cursor's visibility are left out, and the moves
  are those of a table with candidates: in an empty one the code computes
  `len - 1` of an unsigned zero, which its callers avoid (`emojier.vala`).

## 3. What is checked

| Run | Behaviours | Shows |
|---|---|---|
| `message_router` | three connections, six messages: a forwarded pair, a call nobody can take, a message for the daemon, a broadcast and a signal sent to one connection; watchers on both sides, one with two rules that fit | `OneDrainer`: no lost wake-up, no second source; `Conservation`: nothing lost, written again or overtaken at any moment; `Delivery`: implements `BusDelivery` (as many copies as rules, in order), with its liveness |
| `global_engine` | two clients, one client with a fake context, the fake context; in *focus* they compete for it with one registered component, in *loss* two registered components come and go with requests in flight | `ExclusiveEngine`, `FocusAgrees` (what contexts, service and engine processes believe about the focus), `RecordsCurrent` (what contexts, requests and the service have noted of each other: `PendingData`, `ContextsHeld`, `PreviousDiffers`), `HandOver`, `SetGlobalEngineAnswer`, `OrphansBySwitch` (a destroyed context gets an engine only by the answer to a switch asked for while it lived) |
| `services` | *names*: three connections, two names, all sets of flags, two pending calls; *rules*: two peers, two rules, two messages; *simple*: sequences that are prefixes of others, dead keys, numbers, user tables with and without the system's; *xim*: two connections, two contexts, three keys; *candidates*: ten in pages of one to four; *preedit*: two compositions, five keys, resets and changes of focus, one change of engine or loss of the focus to another context | `TypeOK`; `QueuesAgree` (one entry per connection and name, lists as in the queues), `OwnershipTold`, `StartWaits`, `Succession`; `RulesAreWanted`, `RuleDelivery`; `PreeditFollows`, `Composes` (implements `Composer`); `TablesAgree`, `KeysInOrder`; `PanelSeesCursor`; `PreeditSettles` (a text is committed once, in order, or cleared, and shown in one place) |
| `components` | *engines*: one component, three processes, two requests; *registry*: two files, three seconds, caches of system and user | `StepsEnabled`; `RequestsKept` (no request sleeps through a factory, an idle callback owns its request), `FactoryIsOwner`, `OneChild`, `AnsweredOnce` (implements `AsyncRequest`, with its liveness: an answer, or the crash of `null_engine`); `CacheIsFresh`, `ChangeAnnounced` |
| `peers` | *keys*: three keys, five updates, a queue that warns at one; *bus*: two starts of a daemon, four requests; *panels*: one client and the fake context, one panel, two emoji processes, three proxies; *wayland*: two contexts, two keys, three timers, two nested loops | `StepsEnabled`; `KeysSettle` (the flag is that of a key under way, nothing is left over, the queue stays within `MAX_SYNC_DATA` + 2), `NothingLost`, `QueuedNotOvertaken`, `KeysReturn`; `BusInOrder`, `GetsConnected`; `PanelsServeFocus`; `RepeatsHeldKey`, `ContextFollowsText`, `RepeatEnds` |

In `services`, `components` and `peers` a variable (`service`, `part`) chooses at the start
which of the independent parts moves. `StepsEnabled` says that what fairness speaks of can be
taken in every state where something waits for it: `WakersEnabled` and `MonitorsEnabled`
in `components`, `RepliesEnabled` and `BusStepsEnabled` in `peers`. The proofs of liveness
take it as their hypothesis (section 4), so that these runs are what discharges it.
Of the type invariants only that of `NameService`, with the flags an owner keeps, is in
a run: the others are theorems.

The bounds: two senders for one queue and one callback are what the race of
`is_running` needs, and the third connection is a watcher that must get copies, two of a forwarded message
and two of a broadcast. Two
contexts and the fake one give every order of focus changes, since at most two
contexts take part in one; two requests give a superseding one and a late answer.
Three connections give a primary owner, one that waits and one that replaces; two
peers that add a rule at most twice give a shared rule and a count of two. Three
processes give the watched child, one that was run by hand, and the one that
follows a restart. Three keys give one that was given up, one that its late answer
meets, and one that fetches what was left; a queue that warns at one entry
overflows within five updates. Two starts of a daemon give one that replaces the
other while a client connects, is connected or has been refused; four requests give one
cancelled and one late. Two emoji processes and
three proxies replace each other and die in use. Three seconds give a file that is
written before, while and after a cache is made. A compose sequence of four keys is
one longer than the longest that is a prefix of another; a number of three digits
is one longer than a valid one. Two contexts of Wayland give one that is left
while it is made and its successor, three timers the two of a key and one lost by a
nested loop. Two XIM connections whose ids return give an answer that finds another
client's connection; three keys give two of one context around one of the other.
Ten candidates in pages of four are more than two pages and less than a full third,
in pages of one or two they are above the limit of `4 * page_size`. Two compositions
give one that is committed after another has begun; five events are a focus, a key,
its end, and a focus and a key after it. A behaviour of *preedit* ends with its first
mishap, after which `PreeditSettles` says nothing.

`CHECK_DEADLOCK FALSE` is set where an instance really may stop: a finite run of
messages (`message_router`), contexts and requests that are used up (`global_engine`),
connections that leak (`services`), a daemon that crashed (`components`), a Wayland input method that became unavailable
and requests that are used up (`peers`).

Fairness is stated where liveness is checked, and it is weak fairness of what
GLib and GIO guarantee: threads and the main loop keep running (`message_router`);
timers fire, queued callbacks run, and a D-Bus call ends, by its own timeout at the
latest (`EngineRequest`, `GlobalEngine`, and `KeyEvents` for the key that the client waits
for, the only one whose end its handler needs); the file monitor reports, a
request to connect ends, and its callback runs (`BusFairness`, which leaves out that the
end of a connection is noticed: `GetsConnected` holds without it, since a new request
closes the old connection); the
registry's monitor and timer (`RegistryFairness`); the timers of Wayland
(`WaylandFairness`). Strong fairness is used once: `KeyAnswered` for each depth of
nested loops. A nested loop ends by the answer or by giving up, whenever it is the
innermost, however often others start within it. `SimpleFairness` (a handler that
calls itself goes on, the timer fires) is for the counterexample of `hex_sequence`
only. No fairness is assumed of processes, users, or the compositor.

Seven runs show where the code departs from what a comment or an assertion of the
repository says; each ends with a counterexample:

| Run | What the source says | What the run shows |
|---|---|---|
| `switch_lost` | `ibusimpl.c:1034` "... change the engine of the focused context, which will then change the global engine automatically" | the engine arrives after the focus moved, stays with a context without focus, and the global engine is unchanged |
| `zombie_engine` | `inputcontext.c:2600` `g_assert (BUS_IS_INPUT_CONTEXT (context))` | a request outlives its context and attaches an engine to it |
| `unrelated_loss` | `ibusimpl.c:1059` "The current global engine is not removed, so do nothing." | an engine of the registry counts as removed when any registered component ends |
| `dead_owner` | `dbusimpl.c:1203` "removes all connection->names and the connection owners" | a connection that waits for a name stays in its queue after it closed, and can become the owner |
| `null_engine` | `engineproxy.c:1386` `g_assert (BUS_IS_ENGINE_PROXY (engine))` | when the connection closes between the reply of CreateEngine and its callback there is no engine: NULL is used, and the daemon ends with its requests unanswered |
| `cancelled_request` | `ibusbus.c:501` "Close current connection and cancel ongoing connect request." | the callback of the cancelled request comes late and replaces the connection of its successor |
| `hex_sequence` | `ibusenginesimple.c:633` "Releasing one of the modifiers or pressing space while the modifiers are still held commits the character." | a number of zeros only, or with its one digit erased, is neither committed nor ended |

Other departures met while modelling, which no run states, because the model leaves
out the datum or excepts the case by name:

- *Input contexts*: the mishaps of `Preedit` but the crossing, of which *overtaken* is the
  case that the comment at `ibusimpl.c:922-930` means to handle; after a change of focus
  the surrounding text of the context before is kept.
- *Simple engine*: a tentative match can not be committed by a key that continues no
  sequence while the tables are unchanged; the timer shows again the text that was
  sent before (GNOME Shell, Wayland); Backspace ignores that the rest may match no
  sequence after the tables changed; the replay after such a change drops the last
  key; in the hexadecimal mode without modifiers a digit is swallowed.
- *Wayland*: a request that a later text input's callback could not cancel
  (`_create_input_context_done` clears whatever cancellable there is, `slipped` in the
  model) makes a context though its text input was left; deactivate and activate
  before one `done` leave the input method inactive; a late answer in the
  asynchronous mode is posted to the next text input; a repeat rate, in keys per
  second, is used as milliseconds; in the hybrid mode `repeating_event` can be
  overwritten in a nested loop so that another key is posted, and the wait of
  10000 turns is shorter than D-Bus's 25 s, after which the answer writes freed
  memory; a second seat becomes `priv->seat` while the first is active.
- *XIM*: an answer after XIM_DESTROY_IC uses the freed context; when the connection
  is gone the nested loop goes on until it gives up, and its timer stays.
- *Lookup table*: with wrapping, page-up on the first page always lands on the last
  candidate, since the index of the page is `page_nr` and not `page_nr - 1`.

## 4. What is proved

For every value of the constants, from the assumptions named in the modules (they
say that the kinds of values are distinct, that given functions have their types,
and that bounds are numbers):

- *MessageRouter.* `QueueDiscipline`: `Spec => [](TypeOK /\ OneDrainer)`. `OneDrainer` is
  inductive with the types. It counts, for each queue, the thread that found it
  empty and has not attached the source yet, and the attached source unless it is
  about to remove itself; the sum is one exactly if the queue is not empty. Each
  action moves this duty or leaves it: an append to an empty queue creates it, the
  attach passes it to the source, and the callback that takes the last message ends
  it. `CallbackHasMessage` follows when no callback is between its critical section
  and its return.
  `NothingLostBetween`: `Spec => []Conservation`. The way of the messages from one
  connection to another is cut into seven segments (what is to be read, the
  thread's hand, the queue, the callback, ...), and a step moves the head of one to
  the end of the next. `Routed` adds which message can be where: the destination of
  what waits in each queue, and the mark of what has been dispatched.
  `BusIsImplemented`: `Spec => Promise!Init /\ [][Promise!Next]_wire`, the safety part of
  `Delivery`. Its invariant speaks of a sender s, a home h (the connection by whose
  filter a message is dispatched, or the daemon) and a receiver c. Between s and c there
  are ten places: wire, outbox of c, the callback, the queue and the hand of the
  dispatch, the outbox of h, the callback and the queue of the forwarding, the hand of s,
  its inbox. `Ordered`: in each of them and in all together the messages are in the
  order of s; `Complete`: none that c expects has left them; `Written`: what a filter
  dispatched is the next to be written. What GDBus writes is at the head of the
  second place, so that all copies of what is `Earlier` are on the wire already. `CountsOK`
  counts the copies of a message on the wire and in the outbox: none before its callback,
  and after it all that are expected. So one that is written is one of those still
  expected.
- *GlobalEngine.* `FocusProtocol`: `Spec => [](TypeOK /\ ExclusiveEngine /\ FocusAgrees)`.
  They are inductive together: a FocusOut to one context says nothing of the engine
  of another because engines are exclusive, engines are exclusive because new ones
  have a path no context holds, and the handed-over engine is the one of
  `focused_context` because that context exists and has the focus. The action
  properties `FocusKeepsEngine` and `GlobalEngineIsSet` and the
  invariants `NoStaleData` (no context has the data of a request that is freed),
  `RequestsHoldContexts` (the context of a request in flight is not freed) and
  `FallbackDiffers` rest on it; these three are `RecordsStayCurrent`.
  Three theorems say how far the departures of `switch_lost`, `zombie_engine` and
  `unrelated_loss` reach. `SwitchInFocus`: a switch of `check_global_engine` does change the
  global engine if the focus is where it was when it asked. `OrphansBySwitchOnly`: a
  destroyed context gets an engine only by the answer to such a switch, asked for while it
  lived; SetGlobalEngine and moves of the focus never leave one there.
  `RegisteredEngineStays`: a component that goes leaves the engine in use alone if the
  global engine's name is among the registered ones, where no name is twice.
- *NameService.* The invariant is `TypeOK`, `Queued` (one entry per connection, and a
  name in a list has an entry), `Views` (what was told and announced) and `StartWaits`.
  `Views` speaks of named and of closed connections apart: entries of closed ones stay
  in the queues, so that what is announced is the primary owner only for those that
  can still be told. From it `NamesAgree`, `OwnersAreTold`, `CallsWaitForOwner`; `InOrder` is
  proved of each step.
- *MatchRules.* `RulesInv`: a rule has one object, a connection is once among its
  recipients, and its count there is the number of its AddMatch calls less that of its
  RemoveMatch calls. The two searches of the code then find the only entry there
  is, which is what makes `RulesAreAsAsked` inductive. `DispatchInv` adds the owners, the
  messages that wait, and that only a connection that is there wants anything. From it
  the action property `RulesDeliver`: a dispatch gives the message to the peers that want
  it by then, whoever owns the names, and to no others.
- *EngineRequest.* `IInv` adds to the types what holds between two events: the
  owners of a name are connected processes of that component, each once; what a private
  list holds is the first owner, so that the closing of its connection takes that one
  off; the factory's process is the first owner as well (`NamesInv`). A request that
  waits for a factory has made no call, and one whose idle callback is queued waits
  for nothing else.
  From it `RequestsWakeUp`, `FactorySpeaksToOwner` and `ChildIsOne`, and the refinement
  `RequestsAreTasks`: initial states and steps of `EngineRequest` are those of
  `AsyncRequest`, which is what `GlobalEngine` takes a request to be; a crash takes all
  requests with it.
  `EveryRequestAnswered` is its liveness: a request waits for one thing at a time, its timer,
  its idle callback or its call (`RequestsKept`), each ends it or passes it on, and none
  comes back. The one step that ends a request without an answer is the crash.
- *Registry.* `RegistryInv` says the same of every registry, one that is being loaded and
  one in a cache file (`RegistryOK`): if the directory still has the time it notes, a
  file that it has not parsed is not there, or came or went while it was loaded
  (`AbsentUnparsed`); the time it notes of a file is that of what it parsed, unless the
  file was written in between (`ReadAsDated`); and if nothing came or went, it has parsed
  what it listed (`ParsedAsListed`). The times never run ahead of the clock. From it
  `RegistryTypeCorrect` and `CachesAreFresh`. `ChangesAreAnnounced`: a daemon that watches and
  has not been told has a signal or a timer pending (`Watching`); the signal starts
  the timer and the timer announces.
- *KeyEvents.* The invariant adds that without a timeout only the last key is under
  way, and only while the client waits for it (`OneAtATime`). So the flag is off when
  the client fetches, and from then until the next key nothing is queued
  (`QueueEmptied`); this gives `NothingLeftOver`. `QueueKeepsOrder`: what is queued or fetched is
  in order and later than all that is applied (`Ordered`); a signal, which may be
  older, is dispatched only when both are empty. `UpdatesSurvive`: each update is
  in one of the queue, the fetched ones, the signals and the applied ones, and in no
  two of them (`Places`); lemmas say what appending, concatenating and taking the first
  do to the set of a sequence. The queue never holds more than `MAX_SYNC_DATA` + 2
  entries. `HandlersReturn`: the key awaited goes from its call to the engine, the panel,
  the reply and the fetch, and no step of anybody else takes it back.
- *ClientBus.* `BusInv`: a new request cancels the one under way, so that while none was
  cancelled there is one at most, and none while there is a connection. Each of
  the four places that assign fields of `bus->priv` has a lemma. From it `BusAgrees` and
  `BusTypeCorrect`. `ClientsGetConnected`: while a daemon stays, refuses no connection, and no
  request was cancelled,
  the client is connected to it, or the callback of a request that reached it is due, or
  its thread runs, or a signal of the monitor is still to come and the address that it
  speaks of is not the one the client has (`BusPhases`). Each of these leads to the one
  before it, and no other step leads back.
- *Panels.* `PanelsInv`: the types, and that the proxies in use agree with
  `focused_ic`, are connected, and that extensions are those of contexts in focus. It is
  stated of the record `panels` so that the lemma about one proxy's end is used in
  every handler that ends or replaces one. From it `FocusIsServed`.
- *WaylandIM.* `WaylandInv`: a context in use was made by a request used once, the
  repeated key is down in the context whose path is kept, or its release was missed, and all running requests
  but the last are cancelled unless a callback slipped. From it `HeldKeysRepeat` and
  `ContextIsOfText`. For `WaylandTypeCorrect` there are at least as many free numbers of
  timers as delay callbacks on the stack, each of which starts the timer of the rate when
  it ends: so there is a number for it, whatever its nested loop started meanwhile.
- *XimServer.* `XimInv`: the keys of a context are answered in turn, and one whose answer
  found its connection closed is of a context that is gone for good, as ids of
  contexts are not used again: its handler, which still forwards, can not overtake
  another. From it `ContextsOwned` and `KeysComeBackInOrder`.
- *Preedit.* `PreeditInv`: the types, and `Settling` as long as no mishap has happened. While
  the queues are not empty, what is shown and what was committed are out of date,
  and `Settling` says by how much: the engine's signals, applied to the context's text,
  give the engine's; the context's signals, applied to the client's, give what it is to
  show, unless an end is on its way, after which the engine only clears
  (`LeftAlone`, `ClientEnded`); and each text that is due is with the application or in
  one queue, once, in the order of the texts (`InTurn`, `Counted`, `Paid`). One lemma per
  kind of step. From it `PreeditIsSettled`; `PreeditTypeCorrect` goes on after a mishap.
- *SimpleEngine.* `EngineInv` is about the record between two keys: its types, that a
  tentative match is no longer than the buffer, that outside of a number the buffer is
  never full, as no table has a sequence of that length (so that `compose_buffer[n]` is
  in its bounds), and that what is shown is what was typed. There is one lemma per way
  through the handler, and all end in `Result`, from which the next call, or the next
  key, starts. From it `SimpleTypeCorrect`, `PreeditFollowsTyping`, and the refinement
  `EngineComposes`: `SimpleSpec => Composes`, the whole property of the run.
- *LookupTable.* `CursorStaysInTable` by induction, with lemmas about quotients;
  `ThreePagesSuffice` for a table of any size and any page size; together `CursorIsSeen`.
  `LookupTableTypeCorrect` has the bounds of all fields.

The assumptions that say more than the kinds of values: a message is sent once and
by one thread (`RouterAssumption`); a rule has only fields that messages have
(`MatchAssumption`); the tables of `SimpleEngine` have sequences shorter than
`MAX_COMPOSE_LEN` and texts that are not empty (`SimpleAssumption`). The last excludes
files with the text `"\0"`, which the parser of Compose files accepts and which is an
empty string to all that reads it.

Every safety invariant, every action property and every type invariant is proved, and
of the liveness properties `AnsweredOnce`, `ChangeAnnounced`, `KeysReturn` and
`GetsConnected`. To the provers an ENABLED is an opaque formula: that a step can be taken
where it is needed can not be proved, and it is the hypothesis of these theorems
(`WakersEnabled`, `MonitorsEnabled`, `RepliesEnabled`, `BusStepsEnabled`). It is a state
predicate, which the runs `components` and `peers` check in every state of their
instances (`StepsEnabled`); each conjunct says that one named step is enabled while one
thing waits for it, so that nothing of the argument is hidden in it. The proofs are
chains of leads-to steps, each from weak fairness of one action, an invariant, and what
every other action leaves as it is. Fairness is stated there without a quantifier over the
keys or requests that no step singles out, as a formula `\A k : []P(k)` can not be turned
into `[]\A k : P(k)` either.

Only model-checked are `StepsEnabled` itself, the fairness part of `Delivery`, which is an
induction over the lengths of queues, and `RepeatEnds`, which needs strong fairness and
counts the loops that others start. RECURSIVE operators and induction over data are
out of the prover's reach too; where a proof needs the first of several entries or what
a queue makes of a text, it takes the least element of a set of numbers, or a path that
is said to exist.

## 5. Plan

What would come next, in this order:

1. A context destroyed while the panel has its key (`inputcontext.c:988` keeps a plain
   pointer), and asynchronous clients in `KeyEvents`.
2. `Preedit` with two contexts, composed with the focus of `GlobalEngine`, and with the
   emoji extension; the surrounding text of `ibusengine.c`.
3. The tables of `ibuscomposetable.c` as pure functions: parsing, the binary cache and
   the search.
4. The other modes of the GTK client, version 1 of Wayland's protocol, several
   seats, the dead keys and level modifiers of repetition.

## 6. What is not modelled

The formats of messages and text, GVariant encoding, XML and data files (emoji,
Unicode), configuration stores, the vendored IMdkit, and user interfaces: they keep
no state that others race for. The portal forwards calls; hot keys
(`ibusimpl.c:2599-2671`, `ibushotkey.c`) and key maps are searches in tables. Exit of the
daemon, reference counts (except the one that keeps a context alive for its
request), memory exhaustion, and the authorization of methods are left out of all
modules.

The share of the source that is mapped stays small because most of its lines are
data tables (keysyms, key names, compose tables), GObject and D-Bus boilerplate,
encoders, and the glue of GTK, X11 and Wayland, in which no state of the above kind
is kept.
