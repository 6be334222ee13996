# A verification development of freeswitch-contrib

freeswitch-contrib is not one program. It collects modules for the FreeSWITCH
core, clients of its event socket, daemons and scripts by many authors, most of
which share nothing but the core they talk to. This development models the parts
where several threads work on one state, checks them with TLC on small
instances, and proves the results that matter for every size with TLAPS.

What the C modules have in common is how the core drives them. It calls a load
and a shutdown function; event handlers, applications and API commands then run
on threads of the core, as many at a time as there are calls and events. A
module shares its `globals` among them and protects what it thinks it must.

## 1. Inventory

`PROJECT.json` lists every part under `components`. Those with logic of their own:

| component | state | operations | how it interacts |
|---|---|---|---|
| **mod_amqp publisher** (`src/aeriandi/mod_amqp/mod_amqp.c`) | `running`, the bound events, `amqp_send_queue`, `circuit_breaker_reset_time`, `amqpEventConn` under `amqp_connection_mutex`, `amqpHostnames` | load, event handler, consumer thread, reload through the `amqp` API, shutdown | the core's dispatch threads push, one consumer pops and publishes to a broker, a reload closes the connection under it |
| **mod_amqp command listener** (same file) | `amqpCommandConn`, the subscription | the listener thread, the reload's close | the broker delivers commands; a reload destroys the connection without a lock |
| **ESL Java client, commands** (`src/dvarnes/java/esl-client`) | queue of callbacks under `syncLock`, the connection, `authenticated` | send a command and wait, dispatch a reply, handshake, disconnect | application threads send, a thread pool runs one task per received message |
| **mod_nibblebill** (`src/dschreiber/mod_nibblebill`) | per channel a billing record; `globals.mutex`; the account in a database | bill (heartbeat, flush, hangup), pause, resume, reset, check, adjust | heartbeats run on the call's thread, applications and API calls on others; a call out of money is paused and transferred |
| **ESL Java client, connect and events** (`Client.java`) | `authenticatorResponded`, `authenticated`, `authenticationResponse`, `channel`; listeners and two executors | `connect`, `close`, commands over several connections; event and job notification | an application thread sleeps until the handshake, in another thread, has set the flags; the pool's tasks hand events to the executors |
| **ESL frame decoder** (`EslFrameDecoder.java`) | decoder state, current message, remaining body length | `decode` | called by Netty with what has arrived so far, again from the last checkpoint |
| **mod_simple_lcr** (`src/crienzo/mod_simple_lcr`) | `globals.lcr` under `update_lock`; each database with a read-write lock, four digit tries of route arrays, the next gateway of each carrier | load, reload on an event, lookup by dialplan and API, unload | lookups on the calls' threads, reloads on the core's event threads |
| **mod_blacklist** (`src/mrene/mod_blacklist`) | the table of lists under `lists_mutex`, each list under a mutex of its own | check, add, del, reload | API commands on any thread |
| mod_ha_cluster | list of nodes, hash of seen events | event handlers, peer-to-peer events | several nodes over ESL |
| mod_csta, mod_csta_socket, mod_http, mod_translate, mod_khomp, mod_xml_odbc and the other ODBC modules, mod_xml_radius, mod_voicemail_originate, mod_fgi, mod_fastsms | small hashes, or none | mostly one request in, one answer out | I/O, formatting, proprietary libraries |
| xmlcdrd, system25, fs_eventsd, fsgui, FSClient, EventSocket for .NET, fscomm, fshost, fsconsole, Jester, scripts | per tool | GUIs, daemons, dialplan scripts | event socket, serial lines, databases |
| picotts, libmsn, json-c, voices, examples | - | - | third-party |

What is hard, and what makes each core component correct:

* **mod_amqp publisher.** Events are bound before the queue exists and unbound by
  a reload while handlers run; a send that fails is retried on another
  connection; the consumer tests the connection before it takes the mutex; a
  shutdown must stop a thread that may be anywhere. Correct means: nothing that
  was accepted is lost, doubled or reordered; the queue is there when a handler
  uses it; nobody closes a connection in use; reloads and shutdowns return; when
  the module is unloaded nothing of it still runs.
* **mod_amqp command listener.** The pointer it uses is cleared and its target
  destroyed by another thread, and every call to the broker may fail. Correct
  means: a command runs once, connections do not pile up, the thread stops when
  the module does, and it subscribes again after the broker was away.
* **ESL client, commands.** Replies carry no number: the n-th reply belongs to the
  n-th callback, and the pool does not run tasks in the order of receipt. Correct
  means: a reply finds a callback, one each, that of its own command; every
  command returns; the handshake does not starve the pool it waits on.
* **ESL client, connect and events.** The handshake sets three fields one after the
  other while `connect` polls them; they belong to the client, not to the
  connection; a command reads `channel` three times. Correct means: a connect that
  returns was authenticated, callback and command meet on one connection, and
  every listener hears each event once, whatever another listener does.
* **ESL frame decoder.** The stream is cut anywhere, and a body may look like
  headers. Correct means: the messages come out as they were sent.
* **mod_simple_lcr.** A reload destroys what a lookup reads, and several reloads
  run at once; the rate depends on the areas of both numbers and on each
  carrier's own list. Correct means: a lookup's database lives, none is left
  behind, a reload that fails changes nothing; the rates are the right ones, the
  cheapest first, and a carrier's gateways come in turn.
* **mod_blacklist.** A list is found under one mutex and used under another.
  Correct means: a command sees the lists of one moment.
* **mod_nibblebill.** Every request reads the clock first and the lock later.
  Correct means: the account loses the price of the time talked, less what was
  paused or reset, and the record says the same; nothing is charged while paused; a call out of money is transferred once; a
  request gives the lock back.

`hazards` in `PROJECT.json` lists each place where such a thing could go wrong, at
its line, with the properties that watch it or the reason there is none.

## 2. Modules

| module | models | lines of code |
|---|---|---|
| `EventRelay` | what the publisher promises: accept in order while there is room, hand on or drop in order, drop only after closing | - |
| `AmqpPublisher` | load, handler, circuit breaker, consumer, connect, publish, drain, reload, shutdown | `mod_amqp.c` up to line 1110 |
| `AmqpPublisherProofs` | its theorems and the refinement of `EventRelay` | |
| `AmqpCommandListener` | the listener thread and the reload that takes its connection | `mod_amqp.c` 1113-1278 and the close of 747-759 |
| `AmqpCommandListenerProofs` | its theorems | |
| `EslSession` | commands and replies of one connection of the Java client | `AbstractEslClientHandler.java`, `InboundClientHandler.java`, `ExecutionHandler.java`, `Client.java` |
| `EslSessionProofs` | its theorems and those of `EslFrameDecoder` | |
| `EslClient` | connects and commands of one `Client` over several connections | `Client.java`, `InboundClientHandler.java` |
| `EslClientProofs` | its theorems and those of `EslEvents` | |
| `EslEvents` | events from the pool to the listeners | `Client.java` 425-475 |
| `EslFrameDecoder` | messages cut out of a stream of bytes | `EslFrameDecoder.java` |
| `NibbleBill` | one call's record, lock and account | `mod_nibblebill.c` |
| `NibbleBillProofs` | its theorems | |
| `RouteTrie` | route arrays and digit tries, as operators | `route_trie.c` |
| `RouteList` | one array and the routes offered to it | `route_trie.c` |
| `RouteListProofs` | its theorems; lemmas about arrays, folds and tries | |
| `SimpleLcr` | load, reload, lookup, gateways, unload; built on `RouteTrie` | `mod_simple_lcr.c` |
| `SimpleLcrProofs` | its theorems, from the lemmas of `RouteListProofs` (whose constants come along; no theorem here is about them) | |
| `AtomicLists` | what the blacklist promises: commands and reloads that take effect at one moment | - |
| `Blacklist` | the command and the reload, with their two kinds of mutex | `mod_blacklist.c` |
| `BlacklistProofs` | the refinement of `AtomicLists` | |
| `MCModules` | `AmqpPublisher`, `AmqpCommandListener` and `NibbleBill` side by side | |
| `MCEslJava` | the four parts of the Java client side by side | |
| `MCCallRouting` | `SimpleLcr`, `RouteList` and `Blacklist` side by side | |
| `MCAmqpPublisher`, `MCEslSession`, `MCNibbleBill` | the sets and the symmetry the configurations use | |

`map` in `PROJECT.json` gives the exact lines of every definition. Definitions
headed "Variant" are the code with one plausible mistake; no specification uses
them, they exist to show that each property notices such a mistake.

### AmqpPublisher

A message is the number of its push, so that loss, doubling and reordering show
as numbers. `main` is where `mod_amqp_load` or `mod_amqp_shutdown` stands, `hpc`
where each dispatcher stands in `mod_AMQP_event_handler`, `cpc` where the consumer
stands in its loop and in `mod_amqp_send`, `rpc` where a reload stands in
`do_config`. One action is what one thread does between two points where another
could see the difference: a test outside the mutex, the lock itself, a blocking
call, the push. The consumer holds the mutex through the whole of a connect or a
publish, and the model lets everybody else move meanwhile.

* `switch_queue_interrupt_all` wakes a pop that already waits (`waiting` becomes
  `woken`) and does nothing to a consumer on its way there.
* `switch_event_unbind_callback` takes the core's lock that dispatchers hold while
  in handlers: an unbind waits until `HandlersOut`.
* Broker states are `up`, `down` (refuses the connection) and `refusing` (takes
  it, refuses the login): they take different branches in the connect loop.
* `Tokenize` is `strtok_r` on `amqpHostnames`: it ends the list behind its first
  name as the attempt begins, before the first blocking connect, and the attempt goes
  on through the names in `trying`. The command listener's connect does the same to
  the list without the mutex (`ListenerOpen`).
* `PublishFails` is any error of `amqp_basic_publish`: of a session the broker had
  ended, or a new one, which counts against the bound of changes (`SessionFails`).
* `command` is the command listener as the publisher notices it: `ShutdownJoin`
  waits for both threads.
* `overlap` is history: which dispatchers were already past the test of the breaker
  when it was last tripped by another.
* A NULL connection or queue that is used sets `crashed`, after which nothing
  happens.
* JSON, routing keys, exchange declaration and logging are left out; an
  allocation for a message the full queue refuses is counted in `leaked`, the
  connection object of a failed attempt to connect is not.

### AmqpCommandListener

A connection is a number; `live` holds those not destroyed. `commandConn`, the code's
`amqpCommandConn`, may be NULL, live or destroyed. A library call on anything but a
live connection is undefined in C and sets `undefined`. `keepRunning` is
`globals.running`, and `closer` where a reload stands in closing the connection.
Commands are opaque: they are counted from
`sent` to `inbox` (the broker's queue) to `executed` or `lost` (the queue was
exclusive and auto-delete and went with its connection).

### EslSession

A command, its callback and its reply share a number. `AddCallback` and
`WriteCommand` are two steps under `syncLock`; the poll of the queue by a reply's
task is not under it. `Busy` counts the threads of the pool in use, the task of
the auth request among them while it waits for its own reply.
`InboundPipelineFactory.java:49` installs the package's `ExecutionHandler`, whose
`ChannelEventRunnable` is its own class; Netty's ordered executor orders only
Netty's class, so the tasks run side by side. The server answers in order.
`bursts` is history: the number of callbacks created whenever no reply was
outstanding. Left out: the outbound server, a sample application on the same
handler.

### EslClient

Connections are numbered by attempt, and each has a handler of its own; the flags
and `channel` are the client's. The three assignments of `authResponseReceived`
are three actions, and so are the wait for a connection, the polling loop and the
test of `authenticated`. An attempt that was given up goes on by itself and may
come up late. A command is three readings of `channel` (`CheckConnected`,
`TakeHandler`, `WriteToChannel`); a connect on a client that can send begins with
the exit command. The server may take the password, refuse it, or answer
something that is no reply (`odd`), which ends the task and leaves the flags.
Replies within a connection are taken in order here: what happens when they are
not is the subject of `EslSession`. Fields without `volatile` are read as an
interleaving; that the polling loop, which sleeps, sees a write in the end is an
assumption.

### EslEvents

An event is a task of the pool that copies the list of listeners and queues one
notification for each, on the executor of its kind. A listener may hang for ever.
A member of `Registrations` is one call of `addEventListener`: an object that is added
twice is two of them and hears an event once for each.
`entitled` is history: who was registered when the event came.

### EslFrameDecoder

The bytes are told apart only as far as the decoder does: the first byte of a
header line says what it means, `LF` ends it, `Text` is anything else. The stream
holds any sequence of messages and arrives in pieces cut anywhere. Netty's
`ReplayingDecoder` is the loop around `decode`: it restarts from the checkpoint
when bytes are missing, runs only while bytes are readable and ends at an
exception; its library code is not in the repository. An unknown header is an
exception for an inbound client and a line of the body for an outbound one
(`lenient`), which also puts a null key among the headers; the key is left out.

### NibbleBill

One call; `Session` is its own thread, on which heartbeats and the hangup run, the
others run API calls. Requests read the clock (`ts`) when they begin and take the
nested `globals.mutex` later; those two moments are the point of the model.
`chan` follows the call through `CS_HANGUP`; a session stays locatable to a request
under way. `Billed` is the arithmetic of lines 447-473, including `lastts` set
back when time runs backwards. A database update may fail unnoticed; a balance
query that fails answers -1. Time is counted in ticks and money in the price of
a tick, so the rate is 1; floats are not modelled.

History variables carry the specification of the bill: `waived`, the ticks a pause or
reset excepted; `settled`, up to when the call was billed or reset; `given` and
`missed`, what adjustments put into the account and what failed updates did not
take out of it; `kept`, the pauses that returned with the lock. `plain` stays TRUE
as long as the requests fit in the order of their stamps. It becomes FALSE on a
stamp older than something recorded, a resume of a call that somebody else resumed
first, a reset during a pause or before its time was taken off, and a second bill of
a call that had no record to keep at its hangup: each of these charges time twice, or
takes it off, in the code, and is listed as a hazard.

`mod_nibblebill.c` misspells a function at line 328 (`switch_odbc_avaliable`) and
does not link as it stands; the model takes the call for the correct one, which
lines 213 and 299 spell right.

### RouteTrie, RouteList

`RouteTrie` has the operations of `route_trie.c` on values: an array is its slots
and its size, a trie a function from digit strings to arrays. Slots behind the
list keep what a removal left there, since the search for a place looks at them;
sizes have 8 bits, so that an array for 256 routes has none and that of a full array
of 255 wraps to 0 at the next route (`RouteAssumption` leaves such an array out, and
`mod_simple_lcr` has as many slots as carriers). `RouteList` is one
array to which routes are offered in any order, by a ratedeck or by a lookup.
Left out: `route_array_reset`, which nothing calls, and the leading `+` that a
number may have.

### SimpleLcr

A database goes from `private`, in a loader's hands, to `shared` and `destroyed`. A
lookup goes through the two locks of `lcr_rdlock` in two actions, finds its routes
under the read lock, and takes one gateway per carrier under the carrier's mutex.
Several loaders run at once, since events are delivered by several threads; a
configuration may be unreadable, malformed half-way or good. `lcr_find` is the
whole choice between the inter-area, the intra-area and the mixed search, over
tries built from the configuration as the files would be read; `RatesFor`, which it
is compared with, speaks of the configuration's prefixes alone. `lcrCrash` records
the use of NULL after a first load that failed, or of a destroyed database. The
core is assumed not to unload a module that a call is using. A carrier that is
configured without a gateway adds nothing to the dial string (`NoGateway`). Left out:
the text of the files.

`RoutesAtTheRightRate` has preconditions, each for something the code does. Nothing is
looked up for an empty number. No carrier's inter-area list is counted for a caller
that is not a number, and one that lists two prefixes of the caller is counted
twice. Configurations of 255 and 256 carriers are at the limit of the 8 bits. Where
only some carriers take a call for inter-area, the lists of two tries are merged: then a rate that was replaced, or a called number with something
else than digits, may cost the cheapest route, as in finding 6.

### Blacklist, AtomicLists

A list is a number, destroyed or not, so that a command that took it from the table
before a reload is seen to use it after. A reload takes `lists_mutex` and then
frees and loads list by list, each an action. A list whose file does not open is
created and not entered; a name that comes twice takes the place of the first:
both leave a list that nobody frees. In the refinement a name stands for what it
stood for before the reload until the reload ends.

## 3. Runs

| run | asks | bounds and size |
|---|---|---|
| `amqp_safety` | order, queue, unload, binding, drain, no close while publishing, reports of a full queue, implements `EventRelay` | 2 dispatchers (symmetric), 1 reloader, 2 hosts, queue of 2 or (after a failed parse) 1, 3 events, 1 change of a broker, 1 reload, 1 tick, a breaker of 1 tick: 2,162,653 states |
| `modules` | publisher: accepted messages leave, reloads return, a blocked consumer is stopped; listener: each command once, no pile-up, the thread stops; bill: the account and the record say the time talked, paused is not charged, one transfer, requests return | 1 dispatcher, 1 reloader, queue of 2 or 1, 2 events, 1 change, 1 reload; 3 connections, 2 commands, 2 changes, 2 reloads; 2 threads, 3 ticks, 3 requests and the hangup, credit 2: 226,611 states |
| `amqp_reload_race` | violation: the connection may be gone when publishing | 1 event, 1 reload |
| `amqp_lost_wakeup` | violation: a shutdown may wait for ever | 1 event, no reload |
| `amqp_breaker` | violation: two reports within one interval | 2 dispatchers, queue of 1, 3 events, no reload |
| `amqp_listener_retry` | violation: not subscribed again | 2 broker changes |
| `esl_java` | callbacks found, one reply each, mix-ups stay local, commands return; connects return and are authenticated, one thread never crosses; events are heard once, by all; frames decode as sent | 2 threads and the handshake, a pool of 2, 4 commands; 2 connects and 2 commands of 2 threads; 2 listeners, 2 events; streams of up to 2 messages of 6 kinds, header lines of at most 4 bytes: 198,365 states |
| `esl_pairing` | violation: own reply | 3 commands |
| `nibble_negative` | violation: negative minutes | 2 threads, 4 ticks, 3 requests |
| `nibble_unbilled` | violation: the counters advance without the account | 2 threads, 3 ticks, 2 requests |
| `routing` | a lookup's database lives, failed loads change nothing, nothing leaks, right rates, gateways in turn; arrays exact; blacklist implements `AtomicLists` | 2 callers and 2 loaders (symmetric), 3 databases, 2 lookups, 4 configurations, 3 calls, a carrier without a gateway; arrays of 3 slots and 4 different routes of 3 values, 2 types, 3 costs; 3 users, 2 list names, 2 commands, 2 reloads: 606,318 states |
| `lcr_routes` | violation: a route is lost from an array with room | 3 slots, 4 routes of 3 values, one type |

`modules`, `esl_java` and `routing` hold several models side by side: a variable `part`, chosen
at the start, says which one moves, and the others stay in their initial state.
The parts share a run, not a state; where they would interact, the model of one
has what the other does to it as actions of its own (the handshake in `EslClient`,
the pool in `EslEvents`, the listener's thread in `AmqpPublisher`, the reload in
`AmqpCommandListener`). Their fairness is that of each part's own specification.

Why the bounds are enough to be interesting. In `amqp_safety` three events
overfill a queue of two and of one, so the breaker trips with either, and the tick ends
its interval; one change of a broker fails a publish half-way and forces a retry, or a
connect to the first of two hosts; the reload can strike anywhere, including between
load and first connect, or while a connect goes through the hosts; two dispatchers can
both be in the handler when it is unbound, and both past the breaker. The proofs remove these bounds for
the safety properties. In `esl_java` two workers are the fewest with which
the handshake can finish, and already deliver replies in both orders; four
commands give two bursts. Two connects are one that works and one on a client
whose flags are set; the one given up may come up while the other is used. Of the
six messages one has no body, one a body that looks like headers, one an empty
body, one an unknown header, one a line that is too long, and all pairs are cut
at every place. In `routing` three databases are one in use and two reloads that
overtake each other; the configurations have carriers with and without areas,
overlapping prefixes of the called number, a rate that is refused half-way and a
file that cannot be read. Four offers into three slots overfill an array, with a
repeated value among them. Three users are two commands that a reload overtakes
in different places; the configurations of lists have a missing file and a name
that comes twice. In `modules` the sizes 2 and 1 let a failed
parse make the drain stop early, which `AcceptedLeaves` excepts; without the exception
it fails in this run. Three ticks hold an answer, a pause and a resume in one call, or
a bill and another; the third request lets two others race; credit 2 with a lower
limit of 1 runs out after two ticks, and an update may fail at any bill. Three
requests are too few for two resumes to race after a bill and a pause.

All runs turn deadlock checking off: a module that was unloaded, a call that was
hung up, a thread blocked by one of the findings all stop, and so does the model
when its bounds are used up. Where not stopping is the point a liveness property
says so.

**Fairness.** Threads that can move do: weak fairness for the consumer, the
handlers, the load and shutdown, a reload under way, the listener, the pool, the
requests, a connect and a command of the client, a listener's executor. The kernel
schedules threads, and the blocking calls modelled as one step time out or return. A reload that wants the mutex is given strong fairness:
between two attempts the consumer sleeps `reconnect_interval_ms` without it, so
the mutex is free again and again for as long as the reload asks. In `AmqpPublisher` the
listener's end is fair once the module is stopped, which `ListenerStops` shows of the
listener itself. Nothing obliges
an event, a call, a reload, a shutdown, a broker change, a tick or a spurious
wake-up to happen. The server of the ESL session is taken to answer what it
received while connected, and to go on with the handshake; `CommandReturns`
therefore says nothing once the connection ends, when the code indeed waits for
ever, and `ConnectReturns` excepts a connection that ends and a server that answers
the password with something else, when the polling loop never ends. No property of
`routing` is about liveness: whether a loader or a lookup gets a read-write lock in
the end is up to the implementation of the lock.

## 4. Findings

1. `amqp_reload_race`: the consumer tests `amqpEventConn` (line 1058), takes the
   mutex (1065) and publishes without testing again; a reload may have set it
   to NULL in between. `NoCloseDuringPublish` shows, and the proof confirms, that
   inside the mutex the connection is safe: testing there would suffice.
2. `amqp_lost_wakeup`: a shutdown's interrupt is lost on a consumer between its
   test of `running` and its wait; the join then never returns.
   `BlockedConsumerIsStopped` shows the case that works.
3. `amqp_listener_retry`: an error during declare, bind or consume ends the
   listener thread, where the module's README promises a retry.
4. `esl_pairing`: two replies delivered side by side may reach each other's
   callers, where the comment of the handler promises the order of receipt.
   `MixUpsStayInBurst` is what remains true: a program that sends from one thread
   at a time gets its own replies.
5. `nibble_negative`: a bill that read the clock before another but got the
   lock after it "bills negative minutes", which the code calls impossible.
6. `lcr_routes`: the comment of `route_array_add` says the highest cost route is
   removed to make room. When a carrier's route comes again, the removal leaves
   a stale slot behind the list that the search for a place takes for one in use;
   the next route goes behind it, outside the list, or pushes it into the list.
   `CheapestFirst` and `ExactWithoutRepeats` are what remains true.
7. `amqp_breaker`: the handler's comment says that errors are reported once per circuit
   breaker interval. Two dispatchers that were both past the test each report the full
   queue, and the later may set the reset time back to its older `now`.
   `ReportsOverlap` is what remains true, and is proved: whoever reports in a running
   interval was past the test when the breaker was tripped. One dispatcher never is.
8. `nibble_unbilled`: `bill_event` returns success when its UPDATE failed, so `do_billing`,
   which would bill the time "since last *successful* bill", counts the amount as
   charged. `ChargedForTimeTalked` is what remains true: the account is short of exactly
   the bills whose update failed.

Other behaviour the models keep and no run refutes is in `hazards`: two concurrent reloads
binding twice, hosts lost to `strtok_r` after the first attempt, a drain cut short by a
smaller size, a pause that returns with the lock, a
second resume that takes off the time since 1970; a second connect that returns
without its handshake, and a good login reported as failed because the reply was
not yet stored; a message with an empty body that waits for the next one; a NULL
database after a first load that failed, an area of one carrier counted twice, a
list of one area that is not read; a blacklist used after a reload freed it. An area
is looked up in an array of one route of cost 0, to which the shortest prefix is
offered first: the shortest wins. This is in `lcr_find_area`, and `RatesFor` takes
it as it is.

## 5. Proofs

Every theorem holds for all values of the constants that satisfy the `ASSUME`s:
any number of threads, hosts, messages, any queue size, any time. The
assumptions say that the sizes are natural numbers (a queue holds at least one
message), that the list of hosts is not empty, and that the values standing for
"nobody", "nothing" and NULL are not members of the sets they complement. Three
say what an input is. `ConfigAssumption`: a configuration that is read and accepted has
at most 256 carriers and asks for 1 to 8 routes (`MAX_CARRIERS` and `MAX_ROUTES`), a
carrier has at most `MaxGateways` gateways, a cost has 16 bits or is one of two marks.
`CallAssumption`: the numbers of a call are strings of any characters.
`MessagesAssumption`: a message that has a body has a header that announces its length.

**AmqpPublisherProofs.** `TypeCorrect`, `AcceptedStaysInOrder`, `QueueIsThere`,
`UnloadIsClean`, `PublishKeepsConnection`, `OneReloaderBindsOnce`,
`ReportsAreOverlaps`, `DrainIsComplete`, `Refinement`. The invariant is

    IInv == TypeOK /\ MutexPlaces /\ MsgPlaces /\ MainPlaces
              /\ AcceptedInOrder /\ QueueOnlyWhileRunning

`AcceptedInOrder` alone is not inductive: it needs to know where the consumer
can be with a message in hand (`MsgPlaces`) and that it only drains once it is
stopping. `UnloadedIsQuiet` needs `MainPlaces`, which relates each place of load and
shutdown to what already exists or is already gone, and `MutexPlaces`, which says
who can hold the mutex where. With one
reloader, events are unbound wherever it is between its unbind and its bind
(`BindingPlaces`); the drain has at least as many pops left as messages
(`DrainPlaces`). A handler that is past the test of the breaker
either finds its interval over or is in `overlap` (`PastBreaker`), for any number of
dispatchers; with one dispatcher `overlap` is empty. The step lemma
of the refinement maps each action to `Open`, `Accept`, `HandOn`, `Discard`, `Close` or a
stutter of `EventRelay`.

**EslSessionProofs.** `SessionTypeCorrect`, `EveryReplyFindsACallback`,
`RepliesAreNotShared`, `MixUpsAreLocal`, `FramesDecodedAsSent`. `NoOrphanReply` compares a queue of
callbacks with tasks in any order, so the argument counts: the callbacks polled
are exactly the first k, the replies taken so far are the first k plus those on
a thread between take and poll (`Counted`, `CallbackLine`, `ReplyLine`, `WriterLast`,
`TakenOnce`). A reply on such a thread means fewer polls than callbacks. With
`NothingOld`, which bounds what is on its way when a burst begins, mix-ups
cannot cross a moment at which nothing was outstanding.

`FramesDecodedAsSent` holds for streams of any messages cut anywhere. Its invariant
(`DecoderIInv`) says where each message and each header line lies in the stream
(`Streamed`), that what was passed on is what was sent (`OutSoFar`), that the
checkpoint is at the end of a line, of a head or of a message, with just that much
of the message collected (`InPlace`), and that a loop which waits lacks bytes
(`Starving`). That a concatenation has its parts in their places is proved for the
library's `FlattenSeq` from the least counterexample, since induction over sequences
takes a parameter the provers cannot instantiate.

**AmqpCommandListenerProofs.** `ListenerTypeCorrect`, `CommandsRunOnce`,
`ConnectionsDoNotPileUp`. The invariant adds `Held`: a connection that is not
destroyed is the listener's or the one a reload is closing. That is at most two,
however often either reconnects.

**EslClientProofs.** `FirstConnectIsSafe`, `OneThreadIsSafe`, `EventsHeardOnce`. Until a second attempt
the flag is never more than the verdict of the one connection (`FlagIsVerdict`), and
nothing exists of a connection not tried yet (`OnlyTried`). For one thread the
invariant `OneThread` says that the handler it took is that of `channel`, and that
no connection has more commands on the wire than callbacks, which a reply needs.
For `EventsHeardOnce` a notification is in one place at most, still to be made, in a
queue or heard (`OnePlace`, with `NoRepeats` for the places themselves), and whoever
was registered when the event came is in one of the three once its task has started
(`NobodyMissed`; `TaskStages` says what is empty before and after).

**SimpleLcrProofs.** `LookupsAreSafe`, `LoadsNeverClear`, `NothingLeaks`,
`GatewaysTakeTurns`, `LookupsAtTheRightRate`. A thread
between the two locks still holds the first, and what it read is still the pointer
(`BetweenLocks`); a reader's database is in use and lists it (`ReadersHold`); what a
loader has in its hands is its own and not the pointer (`InHand`). So a destroy, which
waits for the readers, can meet none, and the swap loses nothing.

For `GatewaysTakeTurns` the picks of a carrier's gateways are those of the turns up to
`next_gateway`, one more while a thread is between its pick and the advance
(`TurnKept`). That there is one such thread is the carrier's mutex (`OneAtATime`); that
the turns start at 0 needs that nobody calls through a database before the swap
(`Unused`), and that a gateway exists that the configuration was accepted (`Approved`).

`LookupsAtTheRightRate` is mostly about `lcr_find`, for every configuration and call. An
array holds a set of routes when its list comes from them, in ascending order, and
begins with the cheapest (`Holds`); where nothing was replaced it has each of their
carriers at its least cost (`Exact`). The tries are filled line by line: after each
line of each list, every node holds the routes of the lines so far (`UpToLine`,
`Filled`). A search merges the nodes on the way, which are those of the number's
prefixes. What the search first counts is the number of carriers for which the
caller is inter-area; it decides between one trie and both, whose routes are then
merged in turn. The folds of the library are unfolded a step at a time:
that a fold's recursion has a solution is shown once for each fold of the model, as
lemmas that take an operator are not available. The state invariant (`LInv`) only
adds that a lookup's result is the value of `lcr_find` for the configuration of the
database it holds.

**RouteListProofs.** `ListIsSorted`, `FirstIsCheapest`, `ListIsExact`. The strengthening
is about the slots behind the list: all slots in use, listed or stale, come before the
free ones in ascending order (`Sorted`), so an insertion in the first place for it
keeps the order. Without repeats there are no stale slots (`Clean`). "The first
place" needs that a set of numbers has a least one, which is derived from the
well-foundedness of inclusion of finite sets.

**BlacklistProofs.** `CommandsAreAtomic`. The invariant says that a user that holds a
list holds the one in the table or a freed one, and in the second case is among
those a reload overtook (`ListOfCommand`). Each step then maps to a step of
`AtomicLists` or a stutter: finding and using a list to the command's two steps, the
start and the end of a reload to its two, everything between to a stutter.

**NibbleBillProofs.** `NibbleTypeCorrect`, `PausedIsNotCharged`, `TransferPauses`,
`AccountIsExact`. The first half is about the lock: whoever charges holds it (part
of the type invariant, with the count of nested and forgotten locks), so a bill
that saw the record running still sees it when it charges
(`BillerSeesRunning`). The second half is the ledger: nothing recorded is later
than the clock (`StampsPast`, `RecordPast`), and while `plain` a running pause is
newer than everything waived (`InOrder`). Then a resume adds exactly its own
ticks to the waived ones (`PauseCount`), a bill covers exactly the ticks since
the last one (`BillCount`) and a reset moves the start without touching either
(`ResetCount`), lemmas on intervals and cardinalities of their own. `Account` carries
this over to the database: what the account lost, with what failed updates did not
take, is the total of the record, which every bill moves by the same amount as the
total (`BillingAdds`), or, while the channel keeps no record, nothing or the one bill
of its hangup (`FirstBill`).

**Only model-checked:** liveness (`AcceptedLeaves`, `ReloadReturns`,
`BlockedConsumerIsStopped`, `ListenerStops`, `CommandReturns`, `ConnectReturns`,
`EveryListenerHears`, `RequestReturns`), which needs ENABLED and is beyond the prover.
Every other property of the passing runs is stated by a theorem. `AtMostOneBinding` is
proved for one reloader, as the run checks it: with two of them the code does otherwise
(see `hazards`).

## 6. Not modelled, and the plan

Not modelled for good: GUIs, scripts, request formatting, proprietary and
third-party libraries. They have no state of their own that outlives a request,
or none that can be told without the library. `PROJECT.json` gives the reason for
each.

Of what is modelled, left out: loads of `mod_amqp` that fail, the width of its times,
commands that unload the module; the outbound server of the Java client and the
parsing of an event's body into headers; liveness of `SimpleLcr`; the text of every
file and message.

Planned, in this order:

1. `AmqpPublisher`: failing loads; a run that shows which hosts are tried after the
   first attempt (the comment at line 818 promises each in turn).
2. `NibbleBill`: the pause that keeps the lock ("Done checking - release lock", line
   571, against the return at 562), and a history long enough for two resumes to
   race.
3. `HaCluster`: events forwarded between nodes are not delivered twice.
