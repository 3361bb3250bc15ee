# edelib: TLA+ models, model checking and proofs

edelib is the C++ library of the EDE desktop: FLTK widgets plus the desktop
services behind them. Most of it is sequential code on top of somebody else's
state (an X server, a D-Bus daemon, files). The parts that carry protocol logic
of their own are small and concurrent with other processes, and tests reach
them badly; they come first here.

## Inventory

| Component | State | Operations | Interacts with |
|---|---|---|---|
| XSETTINGS manager, `XSettingsManager.cpp` | `manager_data`: window, list, serial | `init`, `clear`, `set`, `notify`, `should_terminate` | X selection `_XSETTINGS_S<n>`, property on its window, MANAGER messages |
| XSETTINGS client, `XSettingsClient.cpp` | `client_data`: manager's window, list, serial; callback | `init`, `clear`, `process_xevent`, `set`, `manager_notify` | reads the property, *writes* it too ("half-manager"), X events, callback |
| Settings list, `XSettingsCommon.cpp` | sorted linked list | find, add, remove, set, decode, encode | both of the above |
| Program runner, `Run.cpp` | pipes, child and grandchild | `run_sync`, `run_async` | fork, execve, waitpid, signals |
| Descriptor listener, `Listener.cpp` | array of descriptors, three `fd_set`s | add, remove, wait | callbacks that call add and remove |
| Simple IPC, `Sipc.cpp` | socket file, accepted connections | `request_name`, accept, read, `connect`, `send` | the listener, other processes |
| D-Bus connection, `EdbusConnection.cpp` | object list, filter, watches, timeouts | connect, register, dispatch, disconnect | libdbus, FLTK's event loop, other connections of the process |
| D-Bus data, `EdbusData/Dict/List.cpp`, `EdbusContainer.h` | shared, counted lists | append, remove, copy, assign | each other (nesting) |
| Directory watch, `DirWatch*.cpp` | entries with watch descriptors | add, remove, event callback | inotify or FAM, callbacks that add and remove |
| Window, `Window.cpp`, `ThemeLoader.cpp`, `Theme.cpp` | globals shared by all windows | create, destroy, settings callback | XSETTINGS client, icon loader |
| Icon loader, `IconLoader.cpp`, `IconTheme.cpp` | items with the widgets that show them | get, set, reload | themes on disk, widgets' life time |
| Template list, `List.h` | a ring of nodes on the heap, iterators | insert, erase, clear, sort | most of the above |
| Dates, `DateTime.cpp` | year, month, day | set, `++`, `--`, week | the system's clock |
| Hints and foreign callbacks, `Netwm.cpp`, `ForeignCallback.cpp` | a list of callbacks | add, remove, dispatch | X events, callbacks |
| Pseudo terminals, `Pty.cpp`, `PtyProcess.cpp` | descriptor, child, text that was read and not given yet | exec, read line, unread line, write line, wait for the echo to be off, wait for the end | the program, and others that keep its terminal |
| Configurations, `Config.cpp`, `Resource.cpp` | sections with entries, a cached section; a system's and a user's file | load, get, set, save, clear | files that others write, too |
| `String.cpp`, `DesktopFile.cpp` | in memory | sequential | files |

Menus, widgets, colours, fonts, MIME types, regular expressions, the XML parser
and the Scheme binding are drawing code, fronts of vendored libraries or
vendored themselves. `PROJECT.json` lists every component with its status.

What makes the modelled parts correct:

* **XSETTINGS.** One manager at a time: whoever loses the selection is told. A
  client with no event left watches the right window and holds the list
  published there, whatever interleaving of takeovers, crashes and publications
  led there. Serials and stamps tell changes apart. The linked list is a map.
  The callback's reports add up to the list.
* **Runner.** The answer is true, nothing is left behind, the call returns.
* **Pseudo terminals.** What program and caller write reaches the other, and
  waiting for the program ends when it has.
* **D-Bus containers.** Implicit sharing is invisible and frees exactly what
  nobody points to; a dict is a map of uniform types, under all keys that can be
  told apart, an array of one type.
* **Listener and IPC.** A descriptor that is ready has its callback called, a
  closed one never; messages arrive whole, in order, once. Whom a client reaches
  under a name is who was told it has it.
* **D-Bus connections.** Whom a message is for is called, once for each
  listener; what is queued is dispatched.
* **Directory watch.** A report is about a change that its entry asked for, and
  each such change is reported, in order.
* **Windows and icons.** What is shown is what theme and settings say now.
* **In memory.** The list is a sequence whatever was done to it; days follow
  each other.
* **Configurations.** A program gets what it loaded or set last; the file is
  replaced as a whole, by all that one program has.

## Modules

| Module | Models |
|---|---|
| `XSettingsMap` | a settings list as a map, `set` and `delete` on it; used by the next four |
| `XSettings` | the protocol: X server, managers, clients |
| `XSettingsProofs` | TLAPS proofs about `XSettings` and `XSettingsView` |
| `XSettingsView` | `XSettings` plus the callback and an application's copy |
| `XSettingsStore` | abstract: what the users of a list are promised |
| `XSettingsList` | the sorted linked list; refines `XSettingsStore` |
| `SettingsProofs` | TLAPS proofs about it and about `Resource` |
| `RunExec` | return codes, errno conversion, PATH search: what both runners share |
| `RunAsync`, `RunSync` | the two runners, all their processes |
| `PtyProcess` | a caller that talks to a program over a terminal |
| `Run` | a call of either, or a `PtyProcess` |
| `RunProofs` | TLAPS proofs about `Run` and what it calls |
| `EdbusValues` | abstract: containers with a content each |
| `EdbusContainer` | implicit sharing of `EdbusContainer.h`; refines `EdbusValues` |
| `EdbusDictMap` | abstract: the operations of a map |
| `EdbusDict`, `EdbusList` | the two containers, on top of `EdbusContainer` |
| `Edbus` | a program that uses dicts or lists; every operation on a dict is one of `EdbusDictMap` |
| `EdbusProofs` | TLAPS proofs about them |
| `Listener` | the table of descriptors and `listener_wait()` |
| `Sipc` | an IPC server that waits in `listener_wait()`, and its clients |
| `SipcNames` | `request_name()` of several servers, socket files, crashes |
| `Ipc` | a behaviour of `Sipc` or of `SipcNames` |
| `IpcProofs` | TLAPS proofs about `Ipc` and what it is a behaviour of |
| `DirWatch` | the inotify and FAM notifiers |
| `EdbusConnection` | D-Bus connections of one process in FLTK's loop |
| `Window` | windows, the settings callback, the icon loader |
| `Fltk` | FLTK's loop calling the callbacks of the last three |
| `FltkProofs` | TLAPS proofs about `Fltk` and the components in its loop |
| `LinkedList` | `List.h` on the heap |
| `Calendar` | `Date` |
| `ConfigStore` | abstract: maps of settings in programs and on the disk |
| `Resource` | `Config` and `Resource` with the files; refines `ConfigStore` |
| `InMemory` | a behaviour of `XSettingsList`, `LinkedList`, `Calendar` or `Resource` |
| `InMemoryProofs` | TLAPS proofs about `Calendar`, `LinkedList` and `InMemory` |
| `Selection` | what is left of a list that is walked through once; used by `EdbusList`, `Listener` and `Window` |
| `DataTheorems` | lemmas about least elements and about sequences that are put together and taken apart, for the modules of proofs |
| `MCIpc`, `MCFltk`, `MCInMemory`, `MCXSettings`, `MCXSettingsList`, `MCXSettingsView`, `MCRun`, `MCEdbus` | constants for TLC |

### XSettings

A process is an X client; processes meet at the server only. Each action is one
request another process can observe with the local work up to the next one.
`init()` of a manager is four actions (create the window and get the server's
time; XSetSelectionOwner; XGetSelectionOwner and the branch on it; announce),
each of which the process may not live to take (`ManagerCrash`). `init()` of a
client is three (select root events; look for the owner and select its events,
one step because the code holds the server grab; read the property), and
`process_xevent()` leads back to the second or third. Events wait in one FIFO
per connection and are handled one at a time. Xlib's output buffer is not
modelled: a request that waits in it is an action not yet taken.

The server keeps the selection's last-change time, ignores older timestamps,
sends SelectionClear to the previous owner's process, and on destruction of a
window drops its property, its masks and its ownership. Window ids are not
used again. Requests on dead windows raise X errors, which FLTK's handler and
`ignore_xerrors` survive: they change nothing here.

A setting's value stands for type and data together. The serial is a number
without width: the wire has 32 bits, more publications than a session sees.
After `init()` the local `timestamp` is dead and reset, to save states. A
client that was cleared ignores events as `Window.cpp`'s handler does.

### XSettingsList, XSettingsView

A list is the sequence of its nodes. `Foreign` properties are what another
program may publish: any order, duplicates. `XSettingsStore` is the map, with
"the first of a name counts" for decoding; `IsAStore` is the refinement.

`XSettingsView` adds `view`, a copy that an application maintains with the
reports of the callback as the example in `XSettingsClient.h` does. The report
list of a read is computed as `notify_changes()` does, walking both lists in
step. A callback that calls back into its client is not modelled.

### RunAsync, RunSync, Run

Caller, child and grandchild run concurrently. A pipe is its ints, its readers
and its writers; a reader sees the end only when no writer is left, which is
how the caller learns of success. `Exec` closes the error pipe (FD_CLOEXEC) but
not the pid pipe. Faults are chosen by constant `Faults` and recorded in
`mishaps`. `eintr` is the stale `errno` of `read_ints()`. In `RunSync` wait
statuses are numbers and the macros of wait(2) are spelt out; `image` tells
whether the child is still the fork, the program, or a second copy of the
caller. `dir` is the number of PATH entries not tried yet, from any number up to
`Dirs`. With none at all (a PATH of `""` or `":"`) nothing is executed
(`NothingToTry`): the child reports the errno that is there, 0 as a rule, so that
`run_sync()` returns 0 though no program ran. `SyncZeroIsAnExit` leaves this PATH
out; `run_async()` takes a 0 for `RUN_EXECVE_FAILED`, and `AsyncAnswerIsTrue`
includes it. Not modelled: the command's text, its splitting, the 128 bytes limit.

### PtyProcess

The terminal is what was printed and not read (`tty`), what was typed and not
read (`input`), its echo, and who has the slave side open (`holders`): the
child, a process it has left there (`"other"`), and the caller during
`wait_slave()`. With no holder a read fails at once and `select()` returns. The
calls that wait are steps (`at`); `read_line()` without waiting is one step, as
nobody else reads the terminal. The child is forked, becomes the program and
prints, asks one question as programs that ask for passwords do (echo off with
TCSAFLUSH, a line, echo on), starts others and ends, at any time.
`check_pid_exited()` decodes right, so that `status` is its result.

`read_line()` gives text without a newline and keeps it, too (PtyProcess.cpp:
254-262), so that it comes twice, and blocks for no "single, full line" as
PtyProcess.h:83-84 says; `partial` records it, and `TextFollows` then asks for
the order in which the pieces first come. The comment at PtyProcess.cpp:426-428
says that the end of the terminal is not waited for "because the target process
may have children still attached", but the `select()` before each `waitpid()`
waits just so: `CallsReturn` excludes it (`StaysUnseen`), and `wait_slave()` on
a zombie likewise. Output that comes between the last read and `waitpid()` is
not copied. The caller writes nothing before `wait_slave()` has returned, and
waits for the one question once; `enable_local_echo()`, which would make
`wait_slave()` return before the question, and a second `exec()` are not
modelled. Of `write_line()` and `unread_line()` the newline is what the caller
chooses; a line is put back as it was given.

### EdbusContainer, EdbusDict, EdbusList, Edbus

A container object (handle) holds `impl`, a cell of the heap; a cell has `ref`
and `lst`, and `Freed` as its content while it is not allocated. Objects are
created, copied, assigned (also to themselves and to sharers), destroyed and
written to in any order. `Write` is `unhook()` with the change of the list that
each writer makes after it. An `EdbusData` never changes once built and is a
datum with a type; that a container may hold containers is not modelled, as a
nested container is reached through copies only. `array_mode` is a member of
the object and not of the cell, so `EdbusList` has it as a variable of its own.
`Seen` is what a program can read of its objects.

What `append()`, `find()` and `remove()` look for they compare with
`EdbusData::operator==` (EdbusData.cpp:293-357), which is not equality.
`IsEqual` says when it is true: a NaN (`NaNs`) is not equal to itself, and a
dict is compared with itself, so that any two are equal. `MayBeEqual` is where
the answer is open: object paths, whose characters are read as an
`EdbusObjectPath`, and arrays, structs and variants, whose contents are not
modelled. `CanBeFound` has every set of places that this allows, a new one for
each call. That the comparison of object paths may crash is not modelled beyond
this. `basic_type()` allows NaNs and object paths as keys, and then "Stored data
will be unique by key" (EdbusDict.h:62) is not true of them: `Comparable` are
the other keys. `DictsStayWellFormed` and `DictsAreMaps` say that a dict is a
map under its comparable keys whatever other keys it holds, and that calls with
these others do not touch the rest; its types are uniform for all keys. A datum
stands for all values that are `==` to it (0.0 and -0.0).
`EdbusDict::operator==` and `EdbusList::operator==` change nothing and are left
out; the first compares entries in the order in which they were added, so that
two dicts with the same pairs may differ. Arguments are objects of the program's
own, never references into the container: such a one is equal to itself (`&other
== this`), and `remove_all()` would go on comparing with it after it was erased.

### Listener, Sipc

`table` is the static data of `Listener.cpp`: `slots` has the length of the
memory that `fd_array` points to, of which `fd_array_size` are looked at;
`nfds`, `maxfd`, and `fdsets` are the code's. `Removed`, `Grown` and `Put` are
the steps of `listener_remove_fd()` and `listener_add_fd()` on it. Memory that
`realloc()` adds is blank or looks like a descriptor of `Litter` with a
callback nobody knows; to call it ends the program. A slot past the memory is
lost or ends the program. `i` is the slot whose callback runs, `fdtmp` what
`select()` left; after a callback the loop goes on from `i + 1` in the table as
the callback left it.

`Sipc` composes the listener with a server that has its name (`Init` is the
state after `request_name()`) and clients. A connection is a descriptor, the
lowest that is free; a stream holds texts and newlines, which `send()` writes
one after the other and between which a client can end. `server_cb()` reads
step by step and blocks (`pc = "read"`) while there is no input. `worn` is a
history variable: something was added after a removal, or memory was not blank.
Not modelled: failures of `accept()`, the length of messages.

### SipcNames, Ipc

Each server is a process that calls `request_name()`, the destructor, or dies.
The call is a step for each system call that others see: deleting the former
`priv` (`Request`), `file_is_socket()`, `bind()`, `listen()`. `file` says which
socket the file of a prefix leads to; a file outlives the process. `ruined`
holds the prefixes whose file was unlinked by a server that had not bound it;
`HolderServes` says nothing of them. That does happen: who loses the race
between check and `bind()` keeps a `priv` with the winner's path, and its
destructor, or its next `request_name()`, unlinks it. `priv` dangles when the
name is taken (181, 188), and is then deleted a second time; the outcomes that
this can have are alternatives of `Deleted`. The file of a server that crashed
makes every later `request_name()` fail. `Ipc` chooses names or messages: a
server's connections are no concern of other servers.

### DirWatch

Entries are added and removed by the program, between two callbacks or within
one. A watch of the kernel is a descriptor number for a directory with a mask;
two names of one directory ("a" and "a/") share it, the mask of the later call
counts, and the removal of either ends it (`mixed` is set; the properties stop
there). `buff` is what one `read()` has taken, `waiting` what it has not. While
the callback runs (`where = "callback"`) `at` is the entry that the loop stands
on; when the callback removes it, the loop goes on from freed memory
(`InotifyReturnFreed`). With FAM the request number identifies the entry; an
event of an entry that was removed meets the assertion at DirWatchFam.cpp:86
(`where = "dead"`). After `shutdown()` (`where = "off"`) FLTK keeps its handler
for the descriptor that was closed: `CalledFreed` is its call, with memory that
was freed, after which nothing more is said. `due` and `reported` are history.

The properties leave out what `mixed` stands for: two names of one directory, and
a callback that removes the entry the loop stands on. Both go wrong in the code.

### EdbusConnection

`libdbus` is modelled from how it is used: one connection per bus for all
objects of the process, a socket and a queue of messages, filters that are
asked in the order in which they were installed until one has handled the
message, and watches whose data is the object that set them last.

`Connect` is any `connect()`: of an object that is connected, to another bus, and
one that fails and leaves `dc` without `conn`. What the object had set up on the
bus before stays there with its `dc` as the data. `SetCallback` needs a `dc`
only, not a connection, as the code does. `SetupListener` adds a filter on each
call; `SetWatchFunctions` is what libdbus does when the watch functions are
replaced, in either order of removing the old watch and adding the new one.
`Disconnect` unrefs, but the filter stays, so that it gives messages to an
object that connects again or sets a callback, and to freed memory after the
destructor (`Ghosts`, `alive`). `ReadWatch` is `read_watch_cb()`, which reads the
watch of one bus and dispatches one message of the bus that its object is
connected to now; the rest is left to a timer (`TimersAfter`). `Timeout` and the
steps after it dispatch what is left, and then remove the timers of all objects.

Since `have_registered_object()` is true of an empty list, no path is ever added
(`Unlisted` in the proofs), and an object with registered paths is called for
all messages. `registered` is what the program asked for. `Expects` is what a
program can count on: messages of its paths, or all if it has registered none.
`ListenersAreCalled` says that it gets these, and how often anybody is called;
it does not say that messages of other paths are ignored
(EdbusConnection.h:286-287) or that a disconnected object is not called, for
both are false. `stalled` marks queues that have lost their timer: to the removal
of all timers, to a call that blocks, to `wait()`, or to an object that went to
another bus; `MessagesDispatched` stops there. Not modelled: calls of the
program from within callbacks, match rules that the daemon refuses (every
message in `Mail` reaches the process), a daemon that closes the connection.

### Window

The windows of `Window.cpp` that follow settings, the globals `xcli` and
`seen_theme`, and the icon loader. Of the settings the model has the colour
of the background, of a theme the icons it has, each in some contexts (`Has`).
`xcli` keeps pointing to the newest window's client after that window was closed
(`XEvent` then ends the program or does nothing), `seen_theme` is freed by any
window's destructor and compared by the next window, and any window's destructor
shuts down the icon loader for all: `promised` is reset with it.
`loaded_components` is never set, so that the loading is guarded by `seen_theme`
alone. A change that waits while another window takes `xcli` over is missed
(`orphaned`).

The icon loader: an icon is a name with its size, and `find_item` does not look
at the context, so that an icon asked for in another context gets the item, the
path and the image of the first. `SetFile` is `set()` of a name that can be
opened as a file, `SetThemed` of one that is looked for in the theme, with the
fallback icon in the same size when there is no image. Without a loader `set()`
and `get()` meet the assertion in `instance()` (`NoInstance`: the program ends).
`InitTheme` is `IconLoader::init()` by the program, also of a loader that is
there: the theme is another, items and widgets stay what they were (`late`, until
the next `reload()`). A reload writes to a widget that was deleted, too.

`promised` is not the icon a widget was last given, but the one that the loader
will keep up to date for it, which `Follows` defines: an item has one widget,
that of the first `set()`, so promised is an icon whose item was made for this
widget in this context, with an image, and whose widget has no other item. Left
out are a second widget of the same icon (though IconLoader.h:73 says "IconLoader
will track these widgets"), widgets that show the fallback, widgets that were
given several icons, and icons that were first asked for in another context.
`IconsFollow` holds of the promised ones while not `late`; `image` is kept for
them only.

### Fltk

One loop calls one callback after the other. The services share nothing but the
loop, and a behaviour is of one `part`: watched directories, D-Bus, icons with
windows, or settings with windows. Their interleavings add nothing that a property
of one could tell; of icons and settings, which meet in `Window`, this is proved
(`DisplayAlwaysFollows` is of `WindowSpec`, where they interleave).

### LinkedList, Calendar, InMemory

`LinkedList` has the nodes on a heap with the links of `List.h`, assignment by
assignment, and next to it `contents`, the sequence that the list should be,
and `at`, where in it the iterator should stand. A node that is freed is
`Freed`; one that is used after would break `IsASequence`. The merge sort is
written as functions of the memory: `Merging` has the memory after each turn of
the loop in `merge_nodes()`, and `sorts[d]` is `mergesort()` with calls nested
at most `d` deep, which the number of nodes bounds.

`Calendar` is `Date`. `set()` asks whether the date is valid before it fills in
what the system says, so `set()` with `DayNow` can store a 30 February, which
`++` mends and `--` ends the program for (DateTime.cpp:359); `is_valid()` of
`MonthNow` reads past a row of `month_days`. Assertions are on: a build with
NDEBUG goes on where the model stops. `--` on 1 January 1900 leads to 31
December 1900, and the week of year 0 is off by a day, both excluded by
`DaysFollow`. Years are the 16 bits of `yearval`.

### Resource, ConfigStore

A file is its lines and whether the last one ends with a newline; a line is a
section, an entry, a comment or bad. `ReadLine` is a turn of the loop in
`Config::load()`. A file with a bad line, or an entry before any section, is not
loaded at all. `config_getline()` says -1 of a last line without a newline, so
that this line is lost; getline(), which its comment (Config.cpp:73-82) compares
it with, would return it. What `AddEntry`, `FindSection` and the cached section
make of the lines is a `Config`. `saving` splits `Config::save()` into the
creation of the temporary file, its content and `rename()`. When the disk may be
full (`full`) any beginning of the content may be all that is written, and it is
renamed all the same. The temporary file is made in the current directory, so
that `rename()` fails when that is another file system's; it then stays there,
as it does after a crash, which is not modelled.

`ConfigStore` has maps only: `Load`, `Set`, `Get` (of a truth value, which puts
the stored text into lower case), `Forget`, `Save`, and `Edit` for what others
write. The mapping asks the configurations and the files as a program would
(`Answers`, `WouldGet`); `shown` keeps the answers, so that they are computed
once. A lost `set()` would look like a stutter; `CallsCount` rules that out.
`Save` writes what the program has, whatever is there: edits since `load()`, or
a file that could not be loaded, are overwritten, although Resource.h:101-102
says "All user modifications will be preserved". One program and edits by
others stand for several programs, as they meet at the file only and their
temporary files have different names.

Texts, keys and section names contain nothing the format uses: `save()` escapes
nothing, so that a newline in a value makes a file that is not loaded.

## Runs

| Run | Instance | Shows |
|---|---|---|
| `XSettings_takeover` | two managers, three windows (one manager can start twice), two times, one reader; fair | `NothingMissed`, `LoserIsTold`; `ClientsCatchUp`, `LosersStop` under fairness |
| `XSettings_writers` | one manager (twice), a reader and a writer, serials to 1 | `NothingMissed` with publications from both, `StampsBounded` |
| `XSettingsList` | three names, two values, properties of up to three settings; template lists of up to four elements; years 0, 1899, 1900, 1999, 2000, 65535; one program, two options, texts with and without spaces and capitals, one edit, the disk full or not | `Sorted`, `IsAStore`; `IsASequence`; `DaysFollow`; `IsAConfiguration` |
| `XSettingsView_one` | one manager, three names, two values, serials to 2 | `ViewExact` while lists only grow; `SerialTellsChange`, `StampsTellChanges` while only the manager writes |
| `XSettingsView_two` | a second manager with other names | `ViewExact` is violated |
| `Run_calls` | both runners, up to two PATH entries, all faults, all exit statuses, signals 1 to 64; or a terminal on which three pieces of text come, read two at a time; fair | `AsyncAnswerIsTrue`, `AsyncNothingLeft`, `AsyncReturns`, `SyncZeroIsAnExit`; `PtyTalkArrives`, `PtyCallsReturn` |
| `Run_silent` | fork or /dev/null fails | `AsyncFailuresAreReported` is violated |
| `Run_killed` | programs are killed | `SyncZeroMeansFine` is violated |
| `Edbus_sharing` | three objects, two cells; two strings, a NaN, an object path and a dict; lists up to two | `CountsExact`, `SharingInvisible`, `DictsAreMaps`, `DictsStayWellFormed`, `ArraysStayOneType` |
| `Sipc_loop` | three clients, one of two messages, one of one, one that is silent; new memory blank or like descriptor 3; fair. Or rival servers for names | `MessagesWhole`, `ServesOpen`, `SlotOfEach`; `MessagesArrive` under fairness; `HolderServes` |
| `Sipc_left` | the same clients | `Heard` is violated |
| `Fltk_loop` | three names of two directories, two changes; a D-Bus object that goes between two buses and one that stays, four and three calls that change them, two messages; two windows, two widgets, three icons of which one is a file, two contexts, two themes, one colour; fair | `ReportsAreDue`, `ListenersAreCalled`, `DisplayFollows`; `WaitingIsServed` under fairness |

**Bounds.** `Windows`, `MaxTime`, `MaxSerial` bound starts, clock and
publications; `MaxQueue` bounds only how many events may wait when a client
publishes. Two managers, three windows and two times are the least with an
overtaken start, a refused timestamp and a SelectionClear for a window of an
earlier `init()`. Three names are the least for an insertion between two others.
Three objects are the least of which two share when the third is assigned or
unhooked; two cells let one of them be written while the others share, and a
third object that is to be written waits until a cell is free, so that a leak
shows (the theorems are for any number of cells). Two strings give keys to
override and remove, a NaN and an object path are the keys that cannot be
compared, a dict is no key. Three clients are the least of which two leave
before the third comes, or one leaves and the other is found twice; they bring
the array through sizes 1, 3 and 7. `MaxInterrupts` is 1, as the first
interruption is never forgotten. Three pieces of text are the least of which two
are read, one of them is given and the other kept, while another waits; the exit
string matches the second or none. Two changes in a directory with two names are
the least of which one is read while the entry of the other is removed and added
again. Two connections on one bus are the least whose filters are asked in turn;
two messages the least of which one is left to the timer; four calls let an
object connect, set a callback, listen and leave, or connect to the other bus
(`MaxCalls`). Two widgets, two contexts and two themes that differ in the
context of an icon are the least of which an item remembers the one and not the
other. The run has 341,196 distinct states. Four elements are the least that the
merge sort halves twice. The years are those on either side of which a rule
changes. Two options in one section and a second section are the least with a
list of entries to look through, a section that comes twice in a file and a
cached section that is the wrong one; a second edit would find the file as the
first may leave it. What is proved below holds whatever these numbers are; the
bounds matter for liveness.

**Fairness.** Weak fairness of the steps that follow inside `init()` and of the
event loops, nothing else: nobody has to start, set, publish or stop. In `Run`
the kernel schedules each process; a program need not end, ask or read, and
nobody has to call anything. In `Sipc` the server
loops forever, as in Sipc.h, and a client that has written the text writes the
newline or ends; nobody has to connect, send or leave. `CHECK_DEADLOCK FALSE`
there: all clients may be gone and heard. In `Fltk` the loop calls callbacks as
long as some descriptor is readable or some timer is due (`Fl::wait()`), which
is weak fairness of the callbacks together, not of each; nobody has to change a
directory, send a message or open a window, and the program may stop to do so.

**Violations.** `XSettingsView_two`: `notify_changes()` advances in both lists
whichever it reported on, so from [a] to [b] it never reports b. `Run_silent`:
of two failures one int is written where the caller wants two. `Run_killed`: the
test of WIFEXITED is inverted. `Sipc_left`: two clients leave and the slot of
the third lies past the array. Without `worn`, `MessagesArrive` is refuted in
other ways, too: a descriptor in two slots is read twice, and the second read
blocks the server. The models show more of the kind without a run of its own: a
client's `manager_notify()` publishes a different list under the serial it read
(so `SerialTellsChange` fails with a writer) and takes back what other clients
published; after one EINTR `read_ints()` never ends (`AsyncReturns` excludes
it); a child killed before it has reported makes the caller wait for the
program's end (excluded likewise); a `run_sync()` child without /dev/null
returns into the caller's code (`SyncZeroIsAnExit` excludes it), and with a PATH
without entries it exits with 0 (excluded likewise); a NaN is a key of a dict as
often as it is appended; a second widget that is given an icon is not refreshed
when the theme changes, nor any after `IconLoader::init()` of a loader that is
there; an object that has disconnected from a bus is called if it sets a
callback, and one that has registered paths for other paths, too; when one
connection has dispatched, what others have queued waits for more input; the
destructor of a `PtyProcess` whose `fork()` failed sends SIGSTOP to -1, which is
everything it may signal.

## Proofs

`XSettingsProofs` proves for every set of managers, clients, windows, names and
values and for all bounds, from the assumptions named in `XSettingsMap` and
`XSettings`:

* `TypeCorrect`: `[]TypeOK`
* `NothingIsMissed`: `[]NothingMissed`
* `LosersAreTold`: `[]LoserIsTold`
* `StampsAreBounded`: `[]StampsBounded`

None but the last is inductive: a reader can be out of date, and whether it
will learn of it depends on events that wait and on the state of the manager
that will send others. The inductive invariant `IInv` of `XSettings` says:
each living window belongs to the one manager whose `manager_data` names it and
dead windows have no property (`WindowsHeld`); a manager past the ownership
check that is not owner has a SelectionClear for its present window waiting
(`ManagersTold`); a client past its look for the owner has selected its
window's events if it lives, has its DestroyNotify waiting if it does not, has
a MANAGER message waiting if another owner has announced itself, and, once it
has read, holds the published list or has a PropertyNotify or DestroyNotify
waiting (`Told`). The proof takes one step per action; lemmas say what Append
and Tail do to "waits in the queue". `StampsBounded` is proved from the type
invariant and the stamp rule of `PutSetting`.

* `SerialAlwaysTells`, `StampsAlwaysTell`: `SerialTellsChange` and
  `StampsTellChanges`, where no client writes (`Writers = {}`), as in the run
  that checks them; with a writer the first is false (see Violations). The invariant is
  `ManagersAhead`: the serial of the manager that holds a window is above the
  published one, and its list has stamped what is different.
* `ViewAlwaysExact`: `ViewExact`, where no client writes and one window is all
  there is, so that no manager can publish a list with other names; with a
  second window it is false (see Violations). The invariant added to `IInv` is
  `ListsGrow`: a name goes from the manager's list to the property to the
  clients' lists and none leaves before all do. Hence the list a client had is
  a part of the one it has read, or it has read none. For the first,
  `ReportsOnMore` says that the i-th name of the longer list never comes after
  the i-th of the shorter (`Ranked` of `DataTheorems` counts the smaller names),
  so that none is reported as deleted and each name of the new list is either
  reported with its value or unchanged; `FollowsMore` takes a copy through
  these reports one by one, `FollowsNone` through the deletion of all.

`SettingsProofs` proves for every order of names and all foreign
properties, from `BeforeAssumption` and `ForeignAssumption`:

* `AlwaysSorted`: `[]Sorted`, with the type inductive (`ListInv`).
* `ListsAreStores`: `IsAStore`. Each operation walks to a place; lemmas say what
  stands before and behind it in a sorted list, and so what the map of the new
  list is. `Decode` is a recursive function over the property, of which a walk
  by least elements shows that the first of a name counts.

and of configurations, for any files, texts, programs and options, from
`ResourceAssumption`:

* `ResourceInv`: every configuration has each section and each key once
  (`Sound`), for `add_section()` and `add_entry()` keep that (`AddSectionIs`,
  `AddEntryIs`), so that whatever the lines of a file are, what they are read
  into is sound (`ReadKeeps`, `ReadingIs`, `LoadIs`); a temporary file holds what
  `save()` writes of the configuration of its program, or what a full disk
  leaves of it.
* `ConfigurationsAreMaps`: `IsAConfiguration`. `Holds` says what a configuration
  holds, whatever the order of its entries and the cached section, and each
  operation is shown to do to it what it promises (`SetIs`, `GetIs`; `SetAnswers`,
  `GetAnswers`). Of a file that was written, `LayoutIs` gives the line of each
  section and entry, and a reading goes along these lines with a copy of as many
  entries as it has passed (`Copying`), so that after the last it has all, and
  after fewer a part (`ComesBack`). With `ShownInv`, that the history variables
  show what there is, each step is a step of `ConfigStore` or a stutter, and no
  call of `load()` or `set()` is lost.

`EdbusProofs` proves of any objects, cells and writers, from `HeapAssumption`,
`ItemsAssumption` and `ProgramAssumption`, first of containers, then of dicts,
then of programs with dicts or lists:

* `CountsAreExact`, `ProgramsCountExactly`: `[]CountsExact`, inductive with the
  type invariant (`HeapInv`). `HoldersMove` says how the holders of a cell change
  when one object is made to point elsewhere; the counts follow.
* `SharingIsInvisible`, `ProgramsShareInvisibly`: each step maps to a step of
  `EdbusValues`. What needs the invariant is that a drop of the last reference
  frees nothing another object points to (`DisposedKeeps`) and that who counts
  1 shares with nobody (`SoleHolder`).
* `DictIsAContainer`: all that a dict does to its data is an operation of
  containers. `ProgramsDictsAreWellFormed` with `DictInv`, which is about cells,
  not objects: each allocated cell holds a well-formed list, whoever points to it.
  Both hold for any types, NaNs and answers of the comparison: `Comparisons` and
  `KeysFound` say that for a comparable key the places at which it is found are
  those where it is, and for another none where a comparable one is.
* `DictsAlwaysMaps`: `DictsAreMaps`. The list of pairs is a map by the first,
  and only, pair with a comparable key (`MapOfSame`, `FirstOfPlaces`); putting and
  removing pairs puts and removes keys, and other pairs leave the map as it is.
* `ArraysAlwaysOneType`: `[]ArraysStayOneType`; `ListInv` ties `array_mode` of
  each object to the cell it points to.
* `ProgramsTypeCorrect`: `[]TypeOK`.

`RunProofs` proves for any number of PATH entries and all faults, statuses and
bounds, from `ExecAssumption`, `InterruptsAssumption` and `PtyAssumption`:

* `AnswersAreTrue`, `NothingIsLeft`: `[]AsyncAnswerIsTrue`,
  `[]AsyncNothingLeft`. The inductive invariant `AsyncInv` says how far each of
  the three processes can be when the others are where they are (`InStep`), who
  holds which end of which pipe (`EndsHeld`), and that an error, or a pid, is on
  its way in its pipe or with its reader exactly when it has to be reported
  (`ErrIsReported`, `PidIsReported`).
* `ZeroIsAnExitStatus`: `[]SyncZeroIsAnExit`. The macros of wait(2) are
  computed for every wait status, not for those of an instance. `ExecAssumption`
  allows any number of PATH entries, none included; what is then left out is in
  the property (`dir # 0`).
* `TalkAlwaysArrives`: `[]PtyTalkArrives`. What was given, what is kept and what
  the terminal holds, put together, tells what was written (`TextInv`); where
  the answer can be while the program asks (`AnswerInv`).
* `RunTypeCorrect`: `[]RunTypeOK`.

`IpcProofs` proves of any clients, messages, names and servers, from
`SipcAssumption` and `NamesAssumption`:

* `HoldersServe`: `[]HolderServes`. Invariant with it (`NamesInv`): no two
  servers have one socket (`SocketsDiffer`), and a call that is under way knows
  only what it has found (`CallsKnow`).
* `OnlyOpenServed`, `AlwaysWhole`, `OneSlotEach`, `IpcTypes`: `[]ServesOpen`,
  `[]MessagesWhole`, `[]SlotOfEach`, `[]IpcTypeOK`. None is inductive; they need
  each other. `MessagesInv` says: a client is in one place and has one
  descriptor (`OnePlaceEach`); the first slot is the server's, and the set for
  reading has open descriptors only (`SoundTable`); when the loop stands at a
  slot, what was closed during this pass comes in no later slot that is still
  waited for (`PassGoesWell`), which is why a shift of the slots under the
  loop serves nobody who has left; what was heard, read and is still in the
  stream is one sequence of texts and newlines (`WordsInOrder`); and while
  nothing was added after a removal each connection has one slot
  (`EachHasASlot`). `RemovedIs`, `ResizedIs` and `PutIs` say what the
  operations of `Listener.cpp` do to the table; `NewFdIsFree` is a pigeonhole:
  there is a free descriptor for every client. `SipcAssumption` has as many
  descriptors as there are clients and one for the server, so that `accept()`
  does not fail, and one callback; what new memory looks like is free.

`FltkProofs` proves of any names, directories, connections, windows, widgets and
themes, from `DirAssumption`, `ConnsAssumption` and `WindowAssumption`:

* `ReportsAlwaysDue`: `ReportsAreDue`. While no watch is shared by two entries
  (`~mixed`) each entry has its own watch with its mask (`EntriesWatched`), the
  events that wait or lie in the buffer are due and come in order (`WaitingDue`,
  `BuffDue`), and the loop stands where it found the event's entry (`LoopStands`).
* `ListenersAlwaysCalled`: `ListenersAreCalled`. No object ever has a path in its
  list, so that a filter whose object has a callback wants every message
  (`Unlisted`); messages in the socket and the queue are in the order in which they
  were sent, so that the one that is taken is the first (`PendingOrdered`);
  `CalledRight` says of each step what the property says of all.
* `DisplayAlwaysFollows`: `WindowSpec => []DisplayFollows`, with windows, icons and
  settings in any interleaving. The background follows what the client knows
  (`ColourInv`), paths are those of the loaded theme while not `late`, and a
  promised icon has that widget in its item and in no other (`IconsInv`).
* `FltkTypeCorrect`: `[]FltkTypeOK`; `FltkAlways` is the invariant.

`InMemoryProofs` proves of a date, for any years, days and current days, from
`CalendarAssumption`:

* `DatesAreDates`: `[]DateTypeOK`; inductive once it is added that a date that
  was set has a day other than 0 (`DateInv`), as `--` counts on.
* `DaysAlwaysFollow`: `DaysFollow`. The tables of month lengths and of days
  before a month agree (`MonthsFit`), leap years are counted by the formula of
  the week (`LeapDaysGrow`), the next number is the next weekday (`WeekGoesOn`),
  and a step leads within a month, to the next, or to the next year (`InMonth`,
  `NextMonth`, `NextYear`); `++` and `--` use the same three lemmas in the two
  directions.

and of the template list, for any elements and any memory, from
`LinkedAssumption`:

* `ListIsASequence`: `[]IsASequence`. The inductive invariant `LinkedInv` says
  that there are nodes, the dummy and one for each element, none twice and no
  other allocated, that are linked each to the next and back (`Ring`), and that
  the iterator is at one of them (`Pointed`). Insertion and erasing are one
  lemma each, whatever the place (`InsertRing`, `EraseRing`), and `clear()` meets
  each node of the ring once (`ClearFrees`). Of `merge_nodes()` a turn keeps
  that what was merged is a chain in order of what was taken from the two
  chains, none of it above what is left (`Merged`, `TakeOne`), so that the rest
  can follow (`JoinRest`). `Middle` halves a chain (`MiddleIs`, `Halves`), and
  that `mergesort()` makes a chain in order of a chain's nodes (`SortSorts`) is
  an induction over how long it is. There is one way to put values in order
  (`AscendingIs`), for of two the first that differs would leave more of the small
  ones than there are places (`NotBelow`). What the links say is what walking
  along them finds (`WalkFollows`).

and of all that edelib keeps in memory:

* `InMemoryTypeCorrect`: `[]InMemoryTypeOK`, from `ListInv`, `ResourceInv` and
  the type of a date.

Only model-checked:

* liveness: `ClientsCatchUp`, `LosersStop`, `AsyncReturns`, `PtyCallsReturn`,
  `MessagesArrive`, `WaitingIsServed`. Fairness and ENABLED are beyond the prover.

## Not modelled

* `Time`, `TimeZone`, `Pty`: system calls and files whose content the model
  would have to make up.
* `DesktopFile`, `String`, `StrUtil`, `Util`, localized keys and the search
  through directories of `Resource`: text processing in sequence. What could be wrong there is the treatment of
  characters, which a model would repeat one by one; tests reach it.
* `EdbusMessage`, `EdbusError`, and of `EdbusData` all but types and comparison:
  conversions from and to libdbus.
* `Netwm`, `ForeignCallback`: X requests that keep nothing.
* `ThemeLoader`, `Theme`, the search of `IconTheme` through directories.
* Widgets, menus, colours, fonts: drawing.
* pcre, TinyXML, TinyScheme, sdbm, xdgmime: vendored; together most of the
  lines of the repository.

## Plan

1. Done: XSETTINGS protocol, list, view; runners and terminals; proofs about the
protocol. 2. Done: D-Bus containers, proved to hide their sharing. 3. Done:
`Listener`, `Sipc`, names of servers. 4. Done: D-Bus connections, directory
watch, windows and icons in FLTK's loop. 5. Done: the template list, dates,
proved to follow each other; configurations. 6. Done: proofs of all safety
properties and refinements that the runs check.
