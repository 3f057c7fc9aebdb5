# A TLA+ development for GNU Gadu 2

GNU Gadu 2 is an instant messenger built of a small core (`lib`, `src/main.c`) and
plugins (`src/plugins`) that never call one another: they emit *signals*, share *tables*
(the repository) and run in callbacks of one GLib main loop, with a few worker threads at the
side. The modules here model that core, the Gadu-Gadu plugin with the libgadu it is built with
(`src/plugins/gadu_gadu/libgadu`), the connection and the contacts of the Jabber and the Tlen plugin,
auto-away, SMS, and the conversations and the list of contacts of the GUI. The files are checked with TLC and TLAPS.

What makes the program hard is one design decision. `signal_emit_full` and `do_signal` run
`g_main_iteration` until nothing is pending (`signals.c:224-232, 380-385`). Every emission may
therefore dispatch any other callback on top of the half-finished one: "single-threaded" code
is re-entrant wherever it emits. SignalBus, Repo, GaduSession, TlenSession, Chat and UserView model the GUI thread
as a **stack of frames**, and an operation that emits is split exactly at its emissions. The modules
about what two programs, or a program and a server, do to one another (GaduLogin, GaduPackets,
GaduContacts, Dcc, Jabber, JabberContacts, TlenContacts) let callbacks run to their end and spend their states on the other side.

Paths in this file are relative to the root of the repository; the modules and `PROJECT.json` put
`src/` in front of them, the directory the repository is checked out in.

## 1. Inventory

| Component | State | Operations | Talks to others by | What makes it correct |
|---|---|---|---|---|
| Boot (`src/main.c`) | `all_plugins_loaded`, progress | load modules, start them in order UI, PROTOCOL, MISC, flush | calls of plugins | no delivery before all plugins were started |
| Signal bus (`lib/signals.c`) | `waiting_signals`, async queue, pipe, mutex | emit, emit from a thread, deliver, flush | callbacks of receivers, nested main loop, pipe | delivered once, to everybody, in order; data freed after delivery, exactly once; no lost wake-up |
| Plugin table (`lib/plugins.c`) | `loaded_plugins`, available modules, extensions, protocols | load, unload, find by name or pattern | called by GUI preferences and the remote plugin | nobody uses an unloaded plugin |
| Repository (`lib/ggadu_repo.c`) | tables, values, watches per repo, per value and for all | add, change, delete, watch, notify, iterate | callbacks of watchers; shared tables | keys unique, each watcher told once, no pointer used after a callback freed it |
| Gadu-Gadu connection (`src/plugins/gadu_gadu`) | session, `connected`, `connect_count`, `watch`, `source_chan`, ping timers | log in, handle events, reconnect, disconnect, change status, SIGHUP | signals to the GUI; libgadu | flag and session agree; a waiting session is polled; retries end; a loss is handled in any state |
| libgadu: session (`libgadu.c`, `events.c`) | `gg_session`: state, check, descriptor, resolver's pipe, buffers | `gg_login`, `gg_watch_fd`, `gg_logoff`, `gg_recv_packet`, `gg_notify`, user lists | called by the plugin; sockets, a resolver thread | a descriptor is closed exactly once and before its number is forgotten; packets are whole and in order; every state waits for something that is polled |
| libgadu: direct connections (`dcc.c`) | `gg_dcc` of each end, file offsets, chunk sizes | handshake, headers and chunks, errors | sockets between two programs | what is written is a prefix of one file; both users are told the truth |
| Contacts (`gadu_gadu_plugin.c`, `libgadu.c`) | the list in the repository, the server's list, `userlist_blocks`, `userlist_reply` | add, remove, search, export, import, presence | packets, dialogs that point to contacts | the two lists agree, presence is shown as reported, an import is whole |
| Jabber (`src/plugins/jabber`) | connection, status, `reconnect_count`, handlers | login threads, callbacks of Loudmouth, change of status | signals from threads, `connect_mutex` | one live connection, with handlers; status backed by a connection; retries end |
| Jabber contacts | the repository `jabber`, `jabber_data.actions`, removal dialogs | fetch, add, remove, rosters, presence | stanzas, the repository | an answer goes to its request; what is shown is the server's roster and presence |
| Tlen (`src/plugins/tlen`) | session, `connected`, `tag`, `loginstatus` | log in, events of libtlen, change of status | signals; libtlen | a waiting session is polled; the status is the one asked for |
| Tlen contacts | `userlist`, the repository `tlen`, `search_results` | roster, presence, add, remove, search | libtlen, the repository | the list is the server's; a search shows its own results |
| Auto-away (`src/plugins/aaway`) | `aaway_hash`, preferences | `check_idle_time`, once a second | asks protocols for their status and sets it | a choice of the user is not overwritten |
| GUI: conversations (`gui_chat.c`, parts of `GUI_plugin.c`) | sessions of each protocol, chats, windows, `invisible_chats`, tray icon | receive, send, close, click on the icon, leave, change preferences | signals, one of which is sent in the middle of a reception | every chat that is shown has its session; what is unread is announced |
| GUI: user list (`gui_userview.c`, `gui_handlers.c`) | protocols, pages or rows, icons and timers of the status | register, unregister, rows follow the repository, refresh, blink | signals (each page asks its protocol for the status), repository watches | the view follows the repository; a timer is stopped by whoever started it |
| Configuration (`lib/ggadu_conf.c`) | variables per plugin, one file each | read, save | called by plugins | a save loses nothing |
| Perl (`lib/perl_embed.c`) | scripts, their hooks and watches | run a hook, emit, watch | signals and repository from inside callbacks | hooks do not disturb the caller |
| SMS (`src/plugins/sms`) | what is configured, `method`, the file of a token's picture, a thread per message | send from a menu, a button or a conversation; answer a token | signals of threads, dialogs, the file | a message goes to whom its dialog names, an answer where it was asked for |
| Others | ignore, update, remote, docklets, OSD, D-Bus, history, sound | | signals | |

`PROJECT.json` lists every component with its status, and under `hazards` the places that are
hard to test with the properties about each. In short:

* **Re-entry.** A flush inside a flush, a broadcast over a list that changes, a table changed
  during its own notification, a login nested in a disconnection.
* **Threads.** Push and wake-up are two steps; the reader blocks for the second one.
* **Stale pointers.** Nodes, plugins, values and sessions held across an emission.
* **Partial failure.** Early returns that free too much or too little.
* **Retries.** `connect_count` is shared by code that interleaves with itself.

## 2. Modules and code

### SignalBus (`lib/signals.c`, `lib/plugins.c`, `src/main.c`), abstract specification Mailbox

* The frames are `Call` (a plugin's code, with the reason it was called), `Send` (`do_signal`),
  `Flush` (`flush_queued_signals`) and `Drain` (the loop at the end of `signal_emit_full`).
  A frame becomes `stale` when memory it points to is freed by a frame above it; its next step
  is then `UseAfterFree`, which sets `fault`.
* `info`, `stage`, `payload` and `seen` describe signal 1, 2, ...: what it is, where its
  `GGaduSignal` is, whether its data was freed, and who received it (`seen` only records, as does
  `by`, the function that emitted it: `signal_emit_full` or the one for threads).
* `LoadModule`, `StartModule`, `BootFlush` are `gnu_gadu_init`; `Register` is a plugin's calls of `register_signal`
  in `start_plugin`, before and after which it may emit: a signal whose name nobody has registered yet is
  lost; `Emit` is `signal_emit_full`
  with its three outcomes; `Deliver`, `NextReceiver`, `UnknownDestination`, `EndSend` are
  `do_signal`; `FlushNext`, `FlushEnd` are `flush_queued_signals`; `Event`, `Return` are
  callbacks the main loop dispatches; `Load`, `Unload` are `load_plugin` and `unload_plugin`
  (`Return` of `destroy_plugin` is the second half of the latter); `WorkerPush`, `WorkerWrite` are
  `signal_emit_from_thread_full`; `DispatchReader`, `PopSignal`, `ReadByte`, `QueueEmpty` are
  `thread_signal_test_chan`, which GLib does not re-enter.
* `Mailbox` states what threads are promised: what is posted is taken once, in posting order.
  `SignalBus` maps to it with `box` = the thread signals queued or waiting, `taken` = the others.

### Repo (`lib/ggadu_repo.c`, `go_status` of the system-tray docklet)

* The frames are `Notify` (`ggadu_repo_watch_notify`: its level, its position in the live list
  and what its caller does afterwards), `Callback` (a watcher) and `Walk` (docklet's iteration,
  which emits on its way). Operations begin where the main loop may dispatch them: at the
  bottom, inside a callback that runs a Perl script (`Reentrant`), or inside a walk (`Open`).
* `RepoAdd`, `AddValue`, `ChangeValue`, `DelValue`, `RepoDel`, `WatchAdd`, `WatchDel`,
  `WatchValueAdd` are the functions of those names. A deletion first notifies and then deletes
  (`ValueDeleted`, `RepoDeleted`), with all that callbacks did in between.
* `freed` is the set of repos whose list of watches was freed while the pointer stayed.
* `due` and `told` of a notification only record whom it has to tell and whom it told.

### GaduSession (`src/plugins/gadu_gadu/gadu_gadu_plugin.c`)

* The stack holds what the thread still has to do: `login`, `disconnect`, `reconnect`,
  `give up`, the rest of `test_chan` (`succeed`, `rewatch`, `drop`) and `drain`, where events
  may be dispatched on top.
* libgadu is external: `Progress`, `ConnSuccess`, `ConnFailed`, `ServerEvent`, `ConnectionLost`
  are what `gg_watch_fd` may report in each state of the session; `LoginFails` is
  `gg_login` returning NULL.
* `watches` are the sources GLib polls, `own` those on the present session's channel.
  A source may fire whenever it exists: sessions that are overwritten leave their descriptor
  open, and a closed descriptor's number is reused by the next open file.

### GaduLogin (`libgadu/lib/libgadu.c`, `events.c`, `common.c` and the plugin's source)

* `Resolving`, `ConnectingHub`, `ReadingData`, `ConnectingGG`, `ReadingKey`, `ReadingReply` and
  `Connected` are the cases of `gg_watch_fd`: each is the set of outcomes of a call (session, open
  descriptors, event). `Socket` is `gg_connect`, `Fails` the label `fail_connecting`, `Login`
  is `gg_login`.
* `Dispatch` is one dispatch of `test_chan` with all it calls: `Handled` is the switch over the
  event, `TriesAgain` is `ggadu_gadu_gadu_reconnect`, `Rewatched` the end of the callback, where
  a new source replaces the old one if `prev_check` differs. `DispatchStale` is the same callback
  for a source that outlived its session.
* `Ask`, `Leave` and `LeaveEarly` are the branches of "change status" that log in or disconnect.
* Peers, the kernel and the rest of the program are external: `Resolves`, `ResolverExits`,
  `Establishes`, `Arrives`, `Closes`, `OtherOpens`, `OtherCloses`. A descriptor is a number, and
  the kernel gives the lowest free one: the plugin polls the number it got at `gg_login` for the
  whole login and depends on that.

### GaduPackets (`gg_recv_packet`, `libgadu.c`)

A byte is a pair of its packet and its place in it, so that what a byte *is* cannot be confused
with where it *arrives*. `Resume` takes what an earlier call left in the session (`header_buf`,
`recv_buf`, `recv_left`), the reading actions take what the kernel has, the whole or a part of it, and
a call ends by handing out a packet, by keeping what it read, or by giving up.

### GaduContacts (the plugin's contacts, `gg_notify`, user lists)

The connection is two sequences of whole packets, the server handles them one after another.
`AddUser`, `AddFound`/`FoundAdded`, `AskRemove`/`AnswerRemove`, `Export`, `Import` are the user's
signals, `StatusArrives`, `PutReplyArrives`, `ListPartArrives`, `ListArrives` what
`gg_watch_fd_connected` and `test_chan` do with a reply. A connection ends in `Disconnects`, which sets every contact
to "not available", or in `Vanishes` (SIGHUP, or a login while connected), which does not; `up` is whether there is a session, not
the flag. `Imported` is what an import looks at of a list, `ImportLines` contacts. A list of contacts is a set, and which
contacts share a packet is left open (`Parts`): the code packs them in the order of the repository, about which
no property says anything. `AddFound` is split at its emission, and
`AskRemove` at the dialog, because pointers to contacts are held across both. `answers`, `late`,
`strays` and `kept` are history, used by the properties only.

### Dcc (`libgadu/lib/dcc.c` and the plugin's transfers)

Both ends of a transfer are modelled: `state` is `gg_dcc.state` of each, `source` what GLib polls
for it, `wire` the packets on their way to it, in units (1024 bytes in the code's chunks of 4096).
Each action from `Connected` to `GetData` is one case of `gg_dcc_watch_fd` together with what
`test_chan_dcc` or `test_chan_dcc_get` does with its event; `ByRequest` tells which of the two
callbacks serves an end. `WritesUnit` is the `write` whose result is compared with -1 only: a unit of file "none" is one of
which a part went onto the wire. Who reads it is out of step (`torn`) and does `Garbled` from there on; what such a
receiver writes to its file is not recorded in `got`. `RequestTransfer`, `SendDirectly`, `Answer`, `AnswerDirect` are the signals
"send file" and "get file", `Exit` is a program that ends. `prevCheck` is one variable per
program, as in the code, and `requested` the only file name the sender remembers.

### Jabber (`jabber_login.c`, `jabber_cb.c`, `jabber_protocol.c`)

Login threads are a queue in the order of `connect_mutex`; the first one runs `LoginBegins` or
`LoginAgain`, `LoginRegisters`, `LoginOpens`, interleaved with the main thread. `Opened`,
`Authenticated`, `RosterArrives` and `Lost` are the callbacks of a connection; Loudmouth is external.
`ChangesStatus` is `jabber_change_status`, called by the user and by the answer to the roster request.
`asked`, `hasty` and `trouble` are history.

### JabberContacts (`jabber_cb.c`, `jabber_protocol.c`, `jabber_plugin.c`)

* `toServer` and `toClient` are the stanzas under way; `queue` is `jabber_data.actions`, an entry its id and
  its data. `Taken` is the search of `iq_cb`: by id only, from the front.
* `RosterIsHere`, `Answered`, `Refused` are `iq_cb` with the functions of its entries, `Pushed` is
  `iq_roster_cb`, which asks for the status of the first contact of all (`Probe`), `PresenceIsHere` is `presence_cb`, `AddUser` ("add user") and `AskRemoval`/`AnswerRemoval`
  are the user's requests; `CutOff` and `SignOff` are the two ways through `jabber_disconnect_cb`.
* `roster`, `presence`, `available` and `Serves...` are the server, `AddedElsewhere` ... `ComesOrGoes`
  what others do. `orphaned`, `strays`, `unseen` are history.

### TlenSession, TlenContacts (`tlen_plugin.c`)

* TlenSession has one frame per call of `test_chan` that has emitted a signal: it `warns`, `leaves`, or is
  `told` of an event; `next` fetches an event and lets nothing happen in between. `Dispatch`,
  `DispatchFailure`, `Warned`, `Fails`, `Leaves`, `Authorized`, `EndOfRoster`, `Message`, `Returns` are its
  pieces; `Login`, `ChangeStatus`, `AskDescription`, `AnswerDescription`, `UpdateConfig` the user's signals.
  `UpdateWatch` is `updatewatch`, whose static `fd` is never set.
* TlenContacts has one call of `test_chan` at a time: `Called` reads what has arrived, one action per event
  follows (`Presence`, `Item`, `EndRoster`, `Found`, `EndOfSearch`), until `CallEnds`. `call` says whether
  the walk that tells the GUI of a presence is still to come, as it starts once per call. What the others do during a
  call is not read by it, so they act between calls. An entry of `userlist` has the status in the structure and
  the one the GUI saw when it was last told to look. `misled`, `missed`, `untold` and `cut` are history.

### AutoAway (`aaway.c`)

`check_idle_time` is `Tick`, which begins a walk along the plugins, and for each of them `AsksStatus` ("get
current status"), `Sets` ("change status") and `Remembers` (`aaway_hash`): between any two of them the main
loop runs. `OnlineStatus` and `AwayStatus` are the lists of a protocol: any entry of one will do (`Changes`), the first of the
other is set (`NewState`). `Chooses` and `Breaks` are the user and the connection, `IdleGrows` and `Moves` the idle
time. `chosen`, `restored` and `lapsed` are history.

### Sms (`sms_gui.c`, `sms_core.c`)

`forms` are the dialogs that wait for an answer, `messages` the threads with what each does next: `Starts`,
`Sends` (`send_PLUS`, `send_ERA`), `Page`, `Token`, `Writes`, `Asks` (`send_ORANGE`, `ORANGE_logo`), `Removes`,
`Posts` (`send_ORANGE_stage2`). `picture` says whose token the one file shows, `method` how the plugin
answers. `crossed`, `crowded` and `asked` are history. Errors of the disk while the picture is written are
not modelled.

### Chat (`gui_chat.c`, `GUI_plugin.c`, `gui_support.c`)

* A session is what the protocol keeps (`gadu_chat_sessions`...), a chat is the widget that points
  to it; `tabs`, `shown`, `window` and `invisible` say where a chat can be seen.
* The reception of a message is split at its emissions (the sound, the docklet's icon): `calls`
  holds what waits there, with the chat or the session it holds on to. What a call holds and another
  one freed makes its next step end in `chatFault`.
* `buttons` is the session the buttons of a tabbed window were made with, that of its first page; `Stick` is their
  callback `on_stick_clicked`. In classic style every chat has its own.
* `overlapped` and `missed` are history: which receptions were interrupted, and which messages came
  to a chat that nobody can see.

### UserView (`gui_userview.c`, `gui_handlers.c`, `GUI_plugin.c`)

* `pages` are the pages of the notebook or the rows at the top of the tree, `page` is the pointer each
  protocol has to its own; `icon` and `boxes` are its icon in the window, `blinker` and `sources` the
  timer that makes it blink.
* `Register`/`Registered`, `Refresh`/`RefreshGoesOn`, `WantsOnline`/`Blinks` and
  `ContactChanges`/`NotifyEnds` are each one function, split at the signal by which it asks the
  protocol for its status, or tells the on-screen display.
* `Disconnected` blanks the rows of all contacts whatever the repository says of them: Gadu-Gadu sets them offline
  there first, Tlen and a failed login of Jabber do not.
* `odd` is history: which of them overlapped another of its kind. So is `blanked`: whom `Disconnected` blanked
  while the repository has them online.

### MCSignalBus, MCRepo, MCDesktop, MCGadu, MCConnections, MCServices, MCSms

Small instances for TLC: three plugins (one of each kind); one contact table and `_protocols_`,
the watches the GUI and Perl scripts really put. MCDesktop, MCGadu, MCConnections and MCServices put several components
that share no state beside each other: the variable `part` says which of them a behaviour is about,
and the actions of the others do not happen in it. Each component is checked as if it were alone.
MCGadu takes the contacts three times, as restrictions of `ContactsNext`: with additions and removals that overlap
(`Additions`), with several questions for a removal (`Removals`), and with lists exported and imported (`Copies`).

## 3. Runs

| Run | Question | Result |
|---|---|---|
| `bus_orderly` | With threads started after boot, known destinations and unloading from the outer loop only: is delivery safe, complete and unique in every nesting, and is every signal of a thread delivered? | holds, the last under the fairness of section 5, and there is no deadlock (49,501 states, among them plugins loaded under a broadcast and emissions under a flush) |
| `bus_full` | Without those restrictions: do bytes and signals still match, and thread signals still form a mailbox, up to the moment of a fault? | holds (169,849 states) |
| `bus_early_worker` | Does data live until its delivery has ended if a thread emits during boot? | **violated** |
| `desktop` | Repository, with operations nested in notifications and walks: everybody told, once, every protocol visited? Conversations: do chats keep their sessions, is what is unread announced? List of contacts: does it follow, do the timers of its icons stop? | holds (3,481,988 states, of which repository 181,577, conversations 2,873,018, list of contacts 427,393) |
| `repo_watch_freed` | Are watches removed only by the functions for it? | **violated** by `ggadu_repo_del_value` |
| `repo_key_watch` | Is a watch on a key told of changes? | **violated**: its types are never set |
| `gadu_nested` | Is the connection polled, do retries end, with events nested at every emission and SIGHUP at any time? | holds (689,900 states) |
| `gadu_session` | Are descriptors closed once and none lost, does the source poll what libgadu waits for, is the status the one asked for, do packets come whole and in order, does the server's list follow the repository and the status shown the reports, are imports whole? | holds (1,513,989 states, of which login 476,800, packets 16,532, contacts 1,020,657) |
| `connections` | Is a received file the beginning of one file and complete when both are told so, does a lone transfer succeed, all unless a write was short, does a login end, does the Jabber connection keep its handlers, its status and its promise to set the status asked for? | holds, the three of progress under fairness (92,333 states) |
| `services` | Jabber contacts: does each answer go to its request, is what is shown the server's roster and presence? Tlen: is a waiting session polled, is the status the one asked for, is the list the server's, does a search show its own results? Auto-away: is what the user chose kept? | holds (1,298,791 states, of which Jabber contacts 591,323, Tlen session 245,015, Tlen contacts 305,715, auto-away 156,738) |
| `sms` | Does an SMS go to whom its dialog names, is what is shown of it its own? | holds (291,836 states) |
| `gadu_loss` | Is a lost connection always handled as a disconnection? | **violated** |

Each property of a passing run has a mutant in `PROJECT.json`: an operator beside the
definition it replaces ("Mutant of ...") that makes a plausible mistake and breaks the property.

Findings, with the lines that disagree, are in `PROJECT.json`; in words:

1. `flush_queued_signals` unlinks nothing until it has ended, so a nested flush delivers and
   frees the signal that the outer flush is delivering. It takes a thread that emits during boot
   (Jabber autoconnect starts one) or a reader dispatched inside the boot flush.
2. `ggadu_repo_del_value` frees `tmp->watches`, the repo's list, where it means `tmpv->watches`.
3. `ggadu_repo_watch_value_add` never sets the types a notification requires.
4. Going offline during a login leaves the first login's source behind; when it fires,
   `ggadu_gadu_gadu_reconnect` reads `session->status` with `session` NULL.

Several properties of passing runs name an exception that the code needs; each is a defect that
TLC showed first as a counterexample:

* `NothingLeftBehind`: the emission of a name nobody has registered returns at once (`signals.c:349-353`) and
  its data is freed by nobody, although `doc/gg2-doc/sgmld/signals.sgml:51-52` says that `signal_free` frees it. It takes
  a plugin that is not loaded, or one that has emitted "gui register protocol" and not yet registered its own names.
* `GotPrefix`, `BothToldComplete`, `LoneTransferSucceeds`: a write to a socket that is nearly full takes a part of
  a unit, and the sender advances by all of it (`dcc.c:1150-1159`): bytes are missing in the middle, data and
  headers are taken for one another, and both users are told that all is well.
* `DescriptorsAccounted`: the resolver's end of the pipe stays open when its thread is cancelled
  (`events.c:838`, `libgadu.c:1095`), and a login that another one overwrites leaks its descriptor.
* `SourceFits`: after `GG_EVENT_CONN_FAILED` two sources are left to the retry, and `prev_check` is
  never reset.
* `StatusFollows`, `NotifyAgrees`: a contact added again before the server handled its removal, or
  removed inside the emission of "add user search", is reported or shown wrongly. `StatusFollows` also: a session
  that ends by SIGHUP (`gadu_gadu_plugin.c:1604-1611`) or by a login while connected (`:246-253`) leaves its contacts available.
* `ImportedWhole`: of a list of more than 1000 lines the rest is left out (`gadu_gadu_plugin.c:1173`).
* `StatusBacked`: if a connection is lost and an attempt to reconnect then fails, nobody resets
  `jabber_data.status`, and no later change of status begins a login (`jabber_cb.c:253`,
  `jabber_protocol.c:115`).
* `ChatsOwned`: a second message of a contact, received while the first one's sound is played or
  the docklet told, makes a second chat for the same session; a session closed inside such an
  emission is used when it returns (`GUI_plugin.c:929-959`). Without any overlap, the button that pins a tabbed
  window uses the session of its first page after that was closed (`gui_chat.c:400-422, 946, 1312`; `chatFault` "outlived").
* `UnreadAnnounced`: the icon is set before the chat waits in `invisible_chats`; a click between the
  two resets it, and the chat stays unannounced (`GUI_plugin.c:947, 959`).
* `ViewFollows`: a protocol that registers inside a refresh gets two pages, of which the first is never
  updated; the image of a status that changes while the protocol is asked for it is lost. "gui disconnected" blanks contacts that
  the repository has online still (`tlen_plugin.c:227-234`, `jabber_login.c:233`), until the list is built anew.
* `BlinkersKnown`: asking to be online twice, the second time while the first asks for the status,
  leaves a timer that nobody stops.
* `HandlersFollow`: handlers that were kept from a failed attempt are not registered with the next
  connection (`jabber_login.c:178`).

* `AnswersMatch`: errors do not remove a request from the queue, and the queue outlives the connection; from
  then on each answer goes to an older request of its kind, and a contact is deleted that was not
  removed (`jabber_cb.c:455`).
* `RosterShown`: a removal pushed by another client is ignored (`jabber_cb.c:959`); contacts kept over
  a reconnection stay listed, and online, if they were removed or left meanwhile.
* `MoodAsAsked`: the answer to the roster request sets the status of the login again
  (`tlen_plugin.c:299`), and asking to be offline while logging in is ignored (`:958`).
* `SessionPolled`: the warning about a failure drains the main loop before the session is looked at; a
  login inside loses its source or its session (`tlen_plugin.c:197-201, 227-232`).
* `ContactsTold`: a contact can be added twice (`tlen_plugin.c:1110`), statuses are kept over a lost
  connection, and only the first presence of a call of `test_chan` reaches the GUI (`:454`).
* `ResultsFit`: results of a search that a lost connection cut off are shown with the next one's, because
  the reset is commented out (`tlen_plugin.c:740-742`).
* `ChoiceKept`: a protocol is remembered until it is found away with the user back, so one that lost its
  connection while away is made online the next time the user chooses to be away (`aaway.c:161, 185`), or, of
  Gadu-Gadu, invisible, which is in its list as well (`gadu_gadu_plugin.c:1799-1802`). Who chose to chat comes back as
  available, the first of the list (`aaway.c:176`).

* `SentAsTitled`, `AnswerFits`: a second dialog changes the number the first one will use; with two messages
  under way the picture of one token replaces the other, and `method` is that of the last (`sms_gui.c:46-47`).

Seen while modelling, without a run of their own:

* Bus: a signal for a named plugin that is not loaded is freed by `do_signal` and by its caller,
  and its data by nobody (`signals.c:250-254`).

* Repository: `ggadu_repo.h:111-112` says REPO_ACTION_DEL is sent whatever the masks, the code
  respects the masks; watches of a repo do not look at their actions at all; `destroy_plugin` of the
  protocol plugins passes the protocol where the key is wanted, so nothing is deleted from
  `_protocols_`; the test for a loaded plugin in `load_plugin` (`plugins.c:152`) compares pointers of
  different types.
* Transfers: a truncated file is announced as received (`gadu_gadu_plugin.c:1345`); the dialog of a
  direct transfer names a session that is freed (`:1471`); an empty file makes libgadu read into a
  buffer it does not have (`dcc.c:806`); a connection closed where a header is due spins
  (`dcc.c:790`); the file name of a second request overwrites the first (`gadu_gadu_plugin.c:1982`).
* Contacts: two dialogs about one contact, or a removal inside "add user search", use freed memory
  (`gadu_gadu_plugin.c:899-911, 2127-2131`); "Userlist export succeeded!" is shown before any reply
  (`:1277`); `userlist_blocks` is reset by a request that
  overlaps another (`libgadu.c:1784`), so that the comment "only when all replies received"
  (`events.c:733`) is not kept; presence reports mask numbers to 24 bits (`events.c:586, 648`).
* GUI: a handler that runs during a refresh uses list stores and paths that were destroyed
  (`gui_userview.c:355, 723`); `gui_user_view_rescan_paths` never ends when a row of the protocol that
  leaves is still in the tree, as after a change from tree to notebook (`gui_userview.c:906`); the page
  of a notebook stays when its protocol leaves; a timer that blinks outlives the icon of a protocol
  that leaves (`gui_handlers.c:205`); closing the last tab destroys the window with every chat in it,
  also those of other protocols that were not shown yet, while `invisible_chats` keeps pointing to them
  (`gui_handlers.c:161`) and may name a chat twice.
* Tlen: adding, removing or searching without a session, and events after a nested "offline", hand NULL to
  libtlen (`tlen_plugin.c:237, 599, 1115, 1243`); a user removed while the server's list is under way is
  listed again.
* `session->timeout` of libgadu is ignored by the plugin: a silent server is waited for without end.

## 4. Bounds

Every bound is a constant, named where it is declared.

* `MaxSignals` (3): two thread signals overtaking each other and a signal of the
  GUI thread between them need three; `MaxSignals` caps emissions in a whole behaviour.
* `MaxDepth` (5 in `bus_orderly`, 3 in the repository, 4 in the other runs) is the deepest stack on which
  an event is dispatched, not the deepest stack: an emission inside it adds frames. A flush inside a
  delivery inside a flush, a notification inside a callback of a notification, and a login inside
  a reconnection inside an event all fit. With 5, a plugin is loaded by an event that a broadcast dispatches, and one emits in
  an event under a flush, so that the waiting list grows while it is walked. A plugin unloaded under a broadcast is not
  orderly and is reached in `bus_full` only; so is, because of the signals chosen, a name lost between start and registration.
* `UnloadDepth` says how deep in the stack a plugin may be unloaded. 1 is "only from the outer main
  loop"; with 4 (`bus_full`) `NoFault` is false: the code has no protection against unloading a
  plugin that is on the stack. `Load` is not modelled while `start_plugins_ordered` still runs.
* `EarlyWorkers` says whether threads may emit before the main loop runs.
* `WatchIds` (3 sources alive) and `MaxPings` (2 timers alive): an own source, one
  left over and one of a nested login. Where no id is left, behaviours end; this is why the Gadu-Gadu
  cfgs switch the deadlock check off. The repository's cfgs and `bus_full` do it because a fault ends a
  behaviour.
* Two contacts, two callbacks (one re-entrant), three requests: the GUI's watch on all repos,
  a script's watch on one, and the same script's on all, so that the walk meets a callback twice.

* Chat: three `Sessions`, as one may live on in the buttons while two have chats, and two `Chats`, `MaxChatCalls` 2 (a reception inside a reception), `MaxWaiting` 1.
* UserView: two protocols, one contact, one timer, `MaxPages` 2, `MaxCalls` 2. By hand: two
  contacts, 2,092,538 states; two contacts and two timers, 9.1 million.
* GaduLogin: `Fds` has three numbers, as many as a resolver's pipe and one descriptor of somebody else
  take, so that numbers run out and are reused; `MaxOthers` 1 in `gadu_session`, 0 in `connections`,
  where `LoginEnds` excludes disturbances anyway; `Tries` 2 (3 in the code): one retry and giving up.
* GaduPackets: a header of 2 bytes, bodies of 0, 2 and 4 bytes where the limit is 3, three packets: the
  empty, the ordinary and the oversized body, each first, between and last.
* GaduContacts: two contacts that are alike (symmetry), packets of one contact, so that two make a
  list of two parts; `MaxSent` 2 and `MaxAnswers` 1 bound what is under way when another request
  is made; `MaxLists` 2, `MaxDialogs` 2, `MaxAdding` 1. The three parts of MCGadu each open one of these dimensions; all
  of them together are the subject of the theorems, which need no bound. `ImportLines` is 2; a third contact is there only in the
  part with the lists (`Few`), and while nobody is available.
* Dcc: a file of 3 units in chunks of 2, one of 1 unit, whose units must not mix, and an empty one. Units are written in part, and
  the sending program ends (`Exits` {"send"}), where the first file alone is sent; the empty file is sent alone (`Bounded`).
* JabberContacts: two contacts, of whom others do something about one (`Restless`), two stanzas each way, two
  requests waiting, one dialog: enough for an answer given to another's request. By hand: others do
  something about both, 10,407,162 states.
* TlenSession: two statuses, three sources, a call of `test_chan` inside another (`MaxNested` 2).
  TlenContacts: one contact, listed up to twice, three messages each way, two searches; contacts do not
  depend on one another, and more of them are the subject of the theorems, which need no bound. AutoAway: two
  protocols with the first two entries of each of their lists, where there are two (a status with a description and the one
  without count as one), and offline; the walk asks each by itself, so one before and one after is all a third could be.
* Sms: two messages and one dialog, or one message and two dialogs for numbers of two operators; 2 tries (3 in
  the code). By hand: both with two operators, 590,072 states for the first.
* Jabber: two connections, one login thread, one request, one reconnection. By hand: two statuses and
  two reconnections, 1,205,477 states; two login threads, 7.2 million states.

`CHECK_DEADLOCK FALSE` also in `desktop`, `gadu_session`, `connections`, `services` and `sms`: a transfer that is over,
packets that were all sent, and a fault end a behaviour.

## 5. Fairness

SignalBus (`FairSpec`, run `bus_orderly`): the thread keeps running its own code (WF of the steps
of boot, delivery, flush and reader). A worker that pushed writes its byte (WF): nothing is between
the two calls. The reader is dispatched if it is ready again and again (SF): it is a source of
default priority and GLib dispatches all ready sources of the highest priority in an
iteration. For each stack depth below `MaxDepth`, at which events may come, callbacks return and the drain of pending events ends if it can
again and again (SF): this is the assumption that users and servers do not produce events
faster than they are handled, without which `while (g_main_pending ())` does not end in the program
either. Deeper in the stack nothing else can happen, and WF is enough. Events, emissions, loading and unloading are never forced.

GaduLogin: WF of `DispatchAny` (GLib dispatches a source that is ready) and of `PeerActs` (a peer
answers or hangs up in the end; nothing in the plugin would end the wait). Dcc: WF of each end's
`Accept` and steps, for the same reason, and of `RequestArrives`, the server's delivery of a message.
Jabber: WF of the login thread, which only waits for a mutex that its predecessor releases, of `Told`,
the delivery of a thread's signal, which `bus_orderly` establishes for the bus, and of `Answers(c)`.
Users never have to act, and nothing has to fail.

`RetriesEnd` of GaduSession needs no fairness: it says that infinitely many logins need infinitely
many requests of the user.

## 6. Proofs

The theorems hold for all values of the constants that satisfy the named assumptions of each module:
any plugins, threads, tables, callbacks and sources, any bounds.

* **SignalBusProof.** `TypeCorrect`: `TypeOK` with the numbering of signals is inductive.
  `WakeUp` (`PipeMatchesQueue`): the number of bytes in the pipe and about to be written equals
  the number of signals in the queue plus the one the reader has popped. Its proof counts the
  threads between push and write as a finite set: pushing adds one, writing removes one. It uses
  that a thread's entry in `writer` is a signal number, which type correctness gives, and that
  there are finitely many threads. `NoLostWakeup` draws the consequences: a queued signal
  always has a byte in the pipe or a thread about to write one, and the blocking read of the reader
  never waits for a byte nobody will write.
  `Mails` (`ImplementsMailbox`): every step is a step of `Mailbox` or a stutter. `OrderInv` says why
  the order of posting survives flushes inside flushes: the queue is increasing; the threads' signals
  among those waiting are increasing and posted before the queued ones; whatever is still waiting is on
  the list; and every flush that is not stale has begun all it walked past. When a nested flush ends and
  frees the list, the flushes below it become stale, so that none of them begins a signal again.
  `NoFreedMemory` (`NoFault`), `CleanMainLoop` (`NothingLeftBehind`) and `EachReceivesOnce`
  (`DeliveredOnce`) have the hypothesis `Orderly`, a formula about the constants: no thread emits before the
  main loop is entered, plugins are unloaded by others and from a callback of the outer main loop
  only, and what signals name as destination is in `modules.load` and is never unloaded. The code enforces
  none of this, and each clause is needed: with the constants of `bus_orderly` changed to break one of
  them (threads that start early; unloading three frames deep; two plugins that unload each other; a
  named destination that may be unloaded, whose signal's name another plugin registers too) TLC finds
  `NoFault` violated. Given `Orderly`, the three hold for every set of plugins, emissions and threads
  and any depth of nesting. Their invariant is
  `CalmInv`, a conjunction of predicates over what they need of the state:
  `Steady` (there is never a second flush, nor a second delivery of one signal; no frame points to freed
  memory; unloading is only ever the second frame), `Reading` (the reader pops signals only on top of a frame
  that drains the main loop), `Plugged` (no node is twice in the list, and what may not be unloaded
  is there from boot on), `Listed` (what is on the list waits, or the flush has passed it), `Sending` (a
  broadcast was received by exactly the plugins before its node, its source excepted; of a named
  destination, whoever has not received the signal is still due) and `Begun` (a signal that runs has a frame). Plugins
  loaded during a broadcast go to the end of the list, so the walk meets them; and as nothing is
  unloaded under a broadcast, its node stays where it is.
  The lemmas say for each predicate what pushing, popping and replacing the top frame do to it, and
  there is one step lemma per predicate. `MCSignalBus` has TLC evaluate that the constants of
  `bus_orderly` are orderly.
* **RepoProof.** `KeysCorrect` (`KeysUnique`) by the invariant `KeysInv`, which adds the types of
  `exists` and `values`: a key is appended only when it was not found, and what is left of a list
  without repetition has none (`RemovedEntries`, `RemovedKey`). Notably it does not need anything
  about the stack, so it holds also in states where a nested deletion has freed memory still in use.
  `WatchesCorrect` (`OneWatchEach`) by `WatchInv`: adding widens the callback's watch
  (`WidenedOne`), removing narrows it (`NarrowedOne`). `TablesCorrect` puts both together.
  `EveryoneCorrect` (`EveryoneTold`), `CallsCorrect` (`CalledOnce`) and `WalksCorrect`
  (`AllProtocolsVisited`) follow from `TellInv`, which speaks about every frame of the stack (`Stacked`): a position in
  a list of watches stays what it is, so who is due and was not told is still to come, and who was
  told is recorded and behind. At the level of a key nothing is ever called, because watches of a key have no
  types (`KeyTyped`), and only the notification on top can be at that level; a table that was
  deleted has no watches (`Forgotten`). A walk has visited the beginning of the list of
  protocols, and that list only grows while it is walked.

  The contacts of the Tlen plugin, for any of them but finitely many, and any number of them listed or under way: `ContactsCorrect`
  (`ContactsTold`) and `ResultsCorrect` (`ResultsFit`) by `TlenInv`. `ContactsTold` speaks of states where nothing is
  under way; the invariant says what the requests and reports under way will bring about. Of each contact
  the list is not `misled` about: a removal under way means that he is not listed and will not be, neither by a
  list to come nor by an addition after it (`Removed`); he is listed once, he is the server's or about to be,
  and if he is the server's only, his removal, the request for the list or the list is under way (`Joined`);
  the last presence under way, or else his status, is right (`Followed`). `LoginOrder` makes these inductive: the
  list is asked for, comes, ends, and only then is the user announced and told of presences. So whoever the
  user adds, and was not known, has no status that was reported yet, and whoever a list brings has none either.
  `Looked` is the GUI's part: what it has not been told is `untold`. For searches `Searching` says that
  each result under way has the end of its search right behind it, so that a result that was kept is
  shown by the next report, or a connection ended. The lemmas about sequences (`Some`, `Before`,
  `Finally`) say what there is in one after its first entry is taken or more is appended. That
  there are finitely many contacts (`TlenitesAssumption`) is needed because a list is sent as a sequence.
* **GaduProof.** The session: `FlagCorrect` (`ConnectedFlag`) and `PingsCorrect`
  (`PingsWhileConnected`). Neither invariant needs the stack. They are proved together because the
  timer goes only when the flag is clear, and the flag is set only with a new timer.
  `WatchedCorrect` (`SessionWatched`) does need the stack: its invariant `WatchedInv` says that a source about
  to be dropped by a suspended call is the session's own only while a disconnection or a
  reconnection is still to come above it.

  The contacts, for any finite number of them (`ContactAssumption`), any size of packets and any number
  under way: `NotifyCorrect` (`NotifyAgrees`), `StatusCorrect` (`StatusFollows`) and `ImportCorrect` (`ImportedWhole`).
  None of the properties is inductive, because they speak of states where nothing is under way. The invariants say
  what the packets under way will bring about, seen through the last packet about a contact (`ComesTo`, with one
  lemma for sending and one for taking a packet, `Settles` and `Taken`). `NotifyInv`: of whom the server will watch after
  handling what is under way, each is a contact or a stray, and a contact it will not watch has an addition whose
  emission has not returned; without a connection nothing is under way. `StatusInv`: for contacts that are not late,
  the repository will be told "available" only of one who is watched and available, and will be told of each
  such, unless a list ends under way, after which the server reports all of it; this
  needs that a removal under way is older than every addition under way (`Ordered`) and that every list that has begun
  has its end under way too (`Followed`). A status that is `kept` from an earlier
  connection counts as "not available" in it (`Heard`). `ImportInv`: there is a map from the answers of the server to the positions of their
  last parts among what arrives, and the parts between two such positions, together with what
  `userlist_reply` has collected of the first list, are the contacts of that answer (`Gathers`); a step that imports adds
  them all, or `ImportLines` of them.

* **LibgaduProof.** Logging in: `SpecDescriptorsKept`: what libgadu holds is open and nobody else's, for every
  number of descriptors, retries and sources. The invariant says that the session's two descriptors
  are distinct, open and not in `others`; every outcome of `gg_watch_fd` is shown to keep that
  by one lemma per operator (`Fails`, `Reconnects`, ...), so that the proof of a case is a citation.
  `SpecDescriptorsAccounted` follows from the same invariant by comparing what is lost before
  and after each step. `SpecSourceFits` and `SpecStatusAsAsked` follow from `LoginInv`: the session's
  source polls the number the session holds, because closing one and opening another gives the lowest free
  number and so the same (`Placed`), and what the source polls for is what the session waited for when the
  source was made.
  Reading packets: `SpecPacketsInOrder`: whatever parts the network delivers, packets come out
  whole, in order, once each. The invariant `Stream` says that what the session keeps, what the
  call has read and what is on the wire is one chain, in which each byte is followed by the byte of
  its packet after it or by the first one of the next packet; `Sizes` ties `size`, `recvLeft` to
  what is missing.
* **ConnectionsProof.** Transfers: `SpecGotPrefix`: what is on disk is the beginning of one file. The invariant `Stream`
  says that the units on the wire to an open end are exactly those between the last one received and
  the last one sent, in order, once each; `Roles` says which of the ends may be in which state. Lemmas about reading
  and writing the wire carry it through the steps; where a unit was written in part, all that is claimed of the wire to a
  receiver that is `torn` is what kinds of packets it may hold. `StepIs` sorts the steps into those that talk
  and those that move data, so that only two cases need arithmetic. `SpecBothToldComplete` follows from
  `ToldInv`, which adds that an end that was closed does nothing more.
  The Jabber connection, for any connections, statuses and bounds (`JabberAssumption`), by
  `JabberInv`: as long as nobody asked too early there is one login or one connection, never both (`Single`); the handlers
  exist exactly from their registration to the end of the connection, until an attempt fails (`Handled`); and a
  status without a connection is that of one that was lost, whose login is on its way or failed, and
  the one the GUI shows or has mail about (`Backed`, which needs neither of the other two).
  `HandlersCorrect` (`HandlersFollow`) and `StatusCorrect` (`StatusBacked`) follow.

* **UserViewProof.** `BlinkersCorrect` (`BlinkersKnown`), for any protocols, contacts, settings, timers and
  depth of nested emissions (`UserAssumption`). The invariant `BlinkInv` adds to the types that a protocol
  has at most one call waiting to start its timer, and none running before that, unless it left
  (`Single`): "wants online" stops the old timer before it asks for the status and starts the new one after.
  The `Follows` lemmas say that pushing, popping and spoiling frames keep the calls that wait.
  `ViewCorrect` (`ViewFollows`) by `ViewInv`, which says what is shown while calls wait, always of the contacts
  `Seen` as online, those `blanked` being shown as offline: a protocol that is
  registering has at most an empty row (`Unlisted`); a refresh has built what comes before the protocol it
  waits for and nothing of what comes after (`Halfway`); otherwise each known protocol has its icon
  and its rows (`Settled`); and what points to a page points to one of its own protocol (`Placed`). This
  breaks when the protocol a refresh waits for unregisters, and then only the order of the calls is kept (`Nested`,
  `Doomed`): the refresh cannot return without a fault, and the stack is not empty until it does. For each action a
  lemma (`ListRight`, `ContactRight`, ..., `UnregisterRight`) shows that it leads from there to there, or to
  a fault that `ViewFollows` allows.

* **ChatProof.** Conversations, for any protocols, messages, sessions and chats and any depth of calls nested
  in emissions (`ChatsAssumption`, `MessagesAssumption`). `OwnedCorrect` (`ChatsOwned`) by `OwnInv`: until
  something overlaps, each chat and its session point to each other (`Paired`), the sessions of a
  protocol are its list, each once (`Listed`), and a call on the stack holds a session that lives and has a chat
  exactly when the call is past its creation (`Held`); only one call is to create a session's chat. The callback of the pin
  can do no more than end in its fault.
  `UnreadCorrect` (`UnreadAnnounced`) by `UnreadInv`, which is about calls as well as about chats: the chat a call
  will append to is already due (`Awaited`), that is shown, about to be presented, or waiting with the
  icon set (`Due`), and a first message that will be hidden has set the icon. A step that takes a
  chat from what is due shows it (`StaysDue`), or destroys it, or is one of the two that count as `missed`. In
  tabbed style every chat is due, because a visible window leaves none of its pages out.
  `RemovedOne` says what `RemoveFirst` leaves. It needs that a set of natural numbers has a least
  one, which follows from the well-foundedness of strict inclusion between finite sets and so without an
  induction.
  The messages of the SMS plugin, for any numbers, operators, messages and dialogs (`SmsAssumption`), by `SmsInv`:
  what a dialog that nothing crossed will be completed with is what it says (`FormsFit`); a message that was
  never crowded is the only one, and the plugin's method is the one it was sent with (`Alone`); a thread that waits
  for its token has one dialog for it, open or on its way (`OneDialog`), so that a message is not over twice; and
  the picture is its own until that dialog shows it (`Pictured`). `TitlesCorrect` (`SentAsTitled`) and `RepliesCorrect`
  (`AnswerFits`) follow.

* **ServicesProof.** Tlen: `PolledCorrect` (`SessionPolled`) by `PollInv`: a session that waits has a source that no call
  is about to remove, and a call on its way out never takes the source the plugin remembers by its
  tag. An event that changes the stage is fetched at once; without a disturbance there is no source but
  the remembered one, and only the topmost call may be announcing something. `MoodCorrect` (`MoodAsAsked`) by `MoodInv`:
  while the login runs the plugin is not connected; until the roster was answered the status asked for is
  kept aside, after that it is the one announced.
  Auto-away: `ChoiceCorrect` (`ChoiceKept`), for any protocols but not for none (`AwayAssumption`), by `AwayInv`: of a
  protocol that did not lapse, what is remembered or was told is still so, or is what it was brought back to (`Relied`), also between setting a status
  and remembering it (`Halfway`), and a walk deals with a protocol as remembered or as
  not remembered from beginning to end (`OnTheWay`).
  The contacts of Jabber, for any people but finitely many (`PeopleAssumption`), and any number of requests:
  `AnswersCorrect` (`AnswersMatch`), where a map in the order of the queue goes from the entries of one kind onto
  the stanzas under way that belong to them. Every step replaces a part of the queue and a part of the
  stanzas; the lemmas say what becomes of the map when nothing in the parts is of that kind (`OthersSwapped`),
  when a request makes way for its answer (`OneSwapped`), when the first of both go (`FirstIsFirst`), and when as
  many are added to both (`BothExtended`).
  `RosterCorrect` (`RosterShown`) by `RosterInv`, for any people (`PeopleAssumption`). Nothing may be under way in
  `RosterShown`, so its invariant says what the stanzas still to come will make of the list. Of each contact it has
  four parts: the last stanza that decides whether he is listed agrees with the roster (`Decided`); before a stanza
  that needs him listed he is, unless a mistaken answer takes him off (`Enrolled`); what tells his status last,
  the list or a stanza, fits what his server knows (`Current`); and a push goes before the answer to the request
  it comes of (`Preceded`). All of this is true once the client has asked for the roster. `Phases` is the order
  of a login: the roster, the client's presence, the presence of everybody else; and until the client is
  available `Quiet` has nobody seem to be there of whom the plugin was told since.

Only model-checked: liveness, which is outside the prover's reach.

## 7. Not modelled

* In the bus: Perl hooks at the beginning of `do_signal`; return values of receivers; the branch for
  a broken pipe; the content of the byte in the pipe (it is an uninitialised variable
  read through a channel with an encoding); code of a worker thread in a library that was closed.
  Every signal is taken to have a `signal_free`, every plugin a receiver.
* In the repository: the functions no code calls (`ggadu_repo_disable_notification`,
  `_enable_notification`, `_watch_value_del`, `_watch_clear_callback`), the data of values, access
  from Jabber's login thread. `ggadu_repo_watch_del` is used outside notifications only, as in the
  code. Deleting inside the notification of the same deletion is modelled and leads to a `fault`; no
  property claims that it cannot.
* In the Gadu-Gadu plugin: search, contents of messages, pictures. The fault states
  `null_session` and `unref_twice` are reachable (`gadu_loss`), as is GaduLogin's `fault`.
* In libgadu: messages, the public directory, HTTP, pictures, TLS, logins in the foreground; in
  transfers: voice, errors of the disk, resumed offsets, reads of a part of a packet that was written whole, and what a
  receiver that is out of step writes to its file.
* In the Jabber plugin: messages, registration, search, vCards, transports, requests for authorization made
  by others, TLS, the main loops nested in callbacks.
* In the Tlen plugin: messages, typing notes, alerts, authorization requests; libtlen is not in the
  repository.
* In the GUI: text and looks of a chat, menus, tooltips, themes, preferences, the order of rows.
* Whole components: see the notes in `PROJECT.json`.

Most of the implementation that no definition is mapped to is of four kinds, none of which has state a
property could be about: GTK code that builds windows and dialogs, vendored widgets and libraries (`gtkimhtml.c`,
`gtksourceiter.c`, `getopt`), formatting and parsing of text and packets (HTTP, public directory,
configuration files, smileys), and thin plugins that hand a signal to an output library.

## 8. Plan

Done, with their proofs: SignalBus and Mailbox, Repo, GaduSession, GaduLogin, GaduPackets, GaduContacts, Dcc,
Jabber, JabberContacts, Chat, UserView, TlenSession, TlenContacts, AutoAway, Sms. Left:

1. **Plugins**: the table with names that may occur twice, prefix matching of `modules.load`,
   extensions, `register_protocol` and the entries of `_protocols_` that outlive their library;
   properties: what is found is loaded, no entry points into a closed library.
2. **More proofs**: every invariant and action property that the runs check is proved; what is left is liveness.
