# A verification development for lzmq

lzmq is a Lua binding of ZeroMQ. It exists twice: as C code against the Lua
API (`src/src/*.c`) and as LuaJIT FFI code (`src/src/lua/lzmq/ffi.lua`). On top
of either sit the Lua modules `lzmq.poller`, `lzmq.loop`, `lzmq.timer` and
`lzmq.threads`. libzmq, the Lua VM and its garbage collector are the
environment; they are modelled as far as the code depends on them.

The paths below are relative to the repository.

## The system

Lua is single threaded, so inside one Lua state a call of a method is atomic
unless it calls back into application code. It does so in four places: `close`
calls the `on_close` callback, `ctx:socket{...}` calls option setters,
`poller:poll` calls the callbacks of ready handles, and the event loop calls
both those and the callbacks of timed events. Everything hard inside one state
comes from there: **the callback may call any method of any object, including
the one that is calling it**. The other sources of difficulty are the garbage
collector, which finalizes objects between any two Lua instructions, and
threads, which share a native context by its address and meet in
`zmq_ctx_term`.

| component | state | operations | properties that make it correct |
|---|---|---|---|
| poller: `poller.c`, `zpoller.c`, `poller.lua` | C table of poll items with `count`, `len`, cursor `next`; Lua table `callbacks`; `is_running` | `add`, `modify`, `remove`, `poll`, `start`, `stop` | no access outside the table; slot i of the two tables belongs to the same handle; a poll serves what it found ready, once each; no handle starves; `stop` ends `start` |
| context and socket lifecycle: `zcontext.c`, `zsocket.c`, `lzmq.c` | flags, native pointers, `socket_count`, registry references `ctx_ref`, `onclose_ref`, `autoclose_ref` (weak table) | constructors, `close`, `on_close`, `reset_handle`, `autoclose`, `destroy`, `shutdown`, finalizers | nothing closed twice; `socket_count` exact; nothing kept in the registry for a closed socket; a context outlives its sockets; `destroy` ends |
| socket input and output: `zsocket.c:104-505` | the flag `LUAZMQ_FLAG_MORE`; in libzmq, the message being sent or received part by part | `send`, `recv`, `send_all`, `recv_all`, `recvx`, `recv_event`, ... | message boundaries are those the application meant; every part handed over once, in order; `more()` right; what a failure in the middle leaves behind |
| options, monitor: `zsocket.c:519-1156` | none | getters, setters, `monitor` | value conversion |
| messages: `zmsg.c` | a `zmq_msg_t`, whose bytes may be shared with other messages and parts in flight | `set_data`, `set_size`, `move`, `copy`, `send`, ... | no access outside a buffer; contents preserved by resizing; a message is a value of its own |
| timers: `ztimer.c` | start, fire time, `started`, `setted` | `start`, `set`, `reset`, `stop`, `rest`, `elapsed`, `sleep` | `elapsed` follows true time under every build's clock; a wait for `rest` is long enough |
| event loop: `impl/loop.lua` | list of timed events, each with a lock and a timer; `sockets`; `interrupt` | `add_*`, `remove_socket`, `poll`, `sleep_ex`, `flush`, `start`, `interrupt`, `destroy` | no event fires inside itself; every due event fires; `interrupt` ends the loop; the events list, the poller and `sockets` agree |
| threads, actors: `impl/threads.lua`, `llthreads/ex.lua` | threads, their pipes, one native context in several Lua states | `run`, `fork`, `actor`, `start`, `send`, `close`, `join`; prelude and end of the child | no thread uses a context that is gone; what the parent waits for comes; shutdown does not deadlock |
| FFI twins: `ffi.lua` | own socket list, own poll table with swap-with-last removal | as in C | as in C; same abstract behaviour |
| errors, utilities: `zerror.c`, `lzutils.c`, `api.lua` | none | tables of names, shims | |

Who calls whom: the event loop owns a poller and the timed events, and calls
`poller:poll` and then `event_list:fire`; nested `sleep_ex` and `flush` call
them again from callbacks. The poller keeps raw `zmq_socket` pointers of
sockets whose life the context module governs. Actors own a pipe socket and a
thread whose Lua state has a second context object for the same native context.

## Plan

Modules in the order they are written, most important behaviour first.

1. `Reactor`, `ZPoller`, `ZPollerProofs`: the poller. **Done.**
2. `Lifecycle`, `ZContext`, `ZContextProofs`, `ZContextLifeProofs`: contexts and
   sockets. **Done.**
3. `EventLoop`, `Alarms`, `EventLoopProofs`: timed events and nested passes of
   `fire` over a list that changes under them, `interrupt`. **Done**, with
   what the poller promises (`Reactor`) built in; composing it with `ZPoller`
   itself, for the cursor that nested polls share, is left.
4. `Timer`, `Countdown`, `TimerProofs`: the timers under each build's clock.
   **Done.**
5. `Messages`, `Values`, `MessagesProofs`: resizing, copying and sharing of
   message buffers. **Done.**
6. `Multipart`, `MultipartProofs`: the send and receive loops. **Done.**
7. `Actors`, `ActorsProofs`: several Lua states on one native context, ETERM,
   attached and detached threads, pipes. **Done** for threads with a pipe.
8. `FfiPoller`: the FFI poll table against the same `Reactor`. Left.
9. `FfiContext`: the FFI lifecycle against `Lifecycle`. Left.

Every invariant and action property of the passing runs is stated by a theorem;
liveness stays with TLC, and of `WaitsEnd` and `BegunEnds` the part that is safety (a
step is possible, and there are finitely many) is proved. Proofs still worth
writing come with modules 8 and 9 and with the composition of `EventLoop` and
`ZPoller`.

## How the modules are written

*Callbacks are frames.* A C or Lua function that waits for a callback is a
record on the variable `stack`. Application code (`AppCode`) runs when the
stack is empty or its top waits for a callback. So all interleavings of
re-entrant calls are explored, and no others.

*What the application may do is a constant.* `Uses` names the things an
application does that the code does not defend against. With `Uses = {}` the
program keeps every promise that is listed here. A use that breaks a property is
named under "known to fail" with its component, and the property's run leaves it
out; the runs named `anyuse` leave nothing out that their properties survive.
Two runs, `ms_shared` and `mp_recvx`, show how the code differs from what its
documentation or its tests say of a method's result.

*The environment.* What is ready, what raises an error, which key `lua_next`
misses, when the collector runs, and whether a signal interrupts libzmq is
nondeterministic.

Definitions with an underscore (`Matches_FdOnly`, `EndClose_NotCounted`) are
plausible mistakes kept beside the right definition; each property is known to
fail with the mistake `PROJECT.json` names for it.

## The poller: `ZPoller`, `Reactor`

| model | code |
|---|---|
| `items`, `len`, `count`, `next` | `ZMQ_Poller` in `poller.h`; slots are numbered from 0 |
| `callbacks` | `self.callbacks` of `poller.lua`, a Lua table with integer keys, possibly 0 or -1 |
| `stack` | the running `poller:poll` calls: turns left, callback running, events it got |
| `looping`, `is_running` | `poller:start` is on the stack; the flag `stop` clears |
| `ready` | what `zmq_poll` would report |
| `Add`, `ModifySocket`, `ModifyFd`, `Remove` | `poller.lua` method and the C call under it, in one step, including what is left when the Lua half fails after the C half (`Remove`) |
| `Poll`, `LoopPoll`, `PollFails` | `zmq_poll` and the start of the `for` loop |
| `Dispatch`, `CallbackReturns`, `CallbackRaises`, `PollReturns` | one turn of that loop, with the Lua error caught in any outer callback or below all of them |
| `Start`, `Stop`, `StartReturns` | `poller:start`, `poller:stop` |

`ItemsWithout` is the composite of `poller_remove_item` (link the slot into the
free list) and `poller_compact_items` (two passes that close the holes). The
free list is empty between calls, because remove is the only function that
links a slot and it always compacts; for the same reason `get_free_item` always
takes the slot `count`. `Borders` is Lua's `#` on a table that may have holes:
any border.

`Reactor` is the promise: a set of interests; a poll determines a set of due
handles; the callback of each due handle runs once unless it is unregistered
first; nothing else runs. `ImplementsReactor` is the refinement.

| run | what it shows |
|---|---|
| `zp_simple` | two sockets and a descriptor of which any two are registered at a time, growth of the table, callbacks that add any handle and change or remove their own: types; the turns the Lua loop has left are exactly the slots the C side will find (`ExactDue`); a callback only sees events it was installed for, although `modify` and `add` leave the old `revents` in the slot (`GotOwnEvents`); `remove` touches only what it names; the refinement to `Reactor`; under `start`, a registered and ready handle is served or stops being wanted |
| `zp_anyuse` | with all uses (duplicates, nested polls, callbacks that touch other handles, errors), the table is accessed within its bounds, and only a `remove` of an unregistered handle takes the two tables out of step (`KeepsAligned`, a property of steps) |

Bounds. `GrowBy` is 2 where the code has 10; the code only uses that it is more
than 1, which is the assumption the proofs make. `InitLen = 1` (0 in
`zp_anyuse`) makes the first `add` grow. Two handles registered at a time let a
removal happen at, below and above the slot that is served next, and let one
that is always ready starve the other; the third takes a slot that was left.
Both conditions, POLLIN and POLLOUT, let `modify` change what is asked for
between two polls. In `zp_anyuse`, with a socket and a descriptor registered at
most twice in all, `MaxDepth = 2` is one poll inside another, and errors that
pass one or both. The only descriptor is 5, because 0 is mistaken for the
unused field of a socket's item; the models contain that comparison (`Matches`).

Known to fail, and not runs: removing a handle that is not registered
(`"unregistered"`) shifts the callbacks of others (`poller.lua:63-69` removes
the entry at the index the C call answers, which is -1); a callback that removes
another due handle (`"others"`), or polls again (`"nested"`, which the loop's
`sleep_ex` and `flush` do), makes `poll` call a nil callback; a callback that
modifies another due handle leaves it the events it was due for, and it is called
with them.

A second registration of a socket (`"duplicate"`) is something the documentation
allows (`loop.ldoc:19`, `poller.ldoc:19`). `zp_anyuse` has it, and shows that the
tables stay intact and in step. `zp_simple` does not: `Reactor` knows a handle
once, and `ExactDue` fails. `remove` and `modify` find the first registration
(`poller.c:71-78`), so when the callback of a second one removes its socket, the
first goes, and the one that is running slides into a slot the walk has still to
visit; it may be called again in the place of another handle, which then waits
for the next poll.

Fairness. The thread keeps running (`LoopPoll`, `Dispatch`, `PollReturns`,
`StartReturns`) and a callback returns in the end. The application never has to
call anything and peers never have to send anything. `zmq_poll(-1)` returns
only when there is something to report, so `LoopPoll` is enabled only then.

Proved in `ZPollerProofs` for any sockets, descriptors, masks, pre-allocation,
growth above 1, bounds and uses:

- `TypeCorrect`: `TypeOK` is invariant.
- `MemorySafe`: `InBounds` is invariant, whatever the application does. The
  inductive invariant `IInv` adds `Room`: a slot is always free, because
  `get_free_item` hands out slot `count` before it grows the table, which is
  safe only because the previous call left room.
- `CallbacksKeepAligned`: `KeepsAligned`, that is, slot i of the two tables
  belongs to the same handle until a handle is removed that is not registered.
  It needs that the border of a table with domain `0..count-1` is unique
  (`AlignedBorder`), the shift being what compaction does to the items, slot by
  slot.
- `CallbacksAligned`: hence `Aligned` is invariant when `Uses` lacks
  `"unregistered"`.
- `RemoveSparesOthers`: `RemoveOnlyNamed` for any uses when no descriptor is 0.
  The invariant it needs is `Proper`: an item has either a socket and the
  descriptor 0 or no socket and a descriptor other than 0, so that `Matches`
  finds no item of another handle.

and, when the application keeps to the uses of `zp_simple` (`Simple`, still for
any constants and any number of registrations),

- `TurnsAreSlotsDue` and `EventsAreItsOwn`: `ExactDue` and `GotOwnEvents`. The
  inductive invariant `SimpleInv` says what the walk of `next_revents_idx` may
  rely on while callbacks change the table under it (`Walking`): `next` is below
  `count`, a slot at or below `next` has no events but those its item asked for,
  and the handle whose callback runs is above `next`. A callback that changes
  its own handle therefore works behind the walk (`PlacedAbove`,
  `RemovingSimple`), and a turn takes one from the slots due (`DueServed`).
- `PollerImplementsReactor`: `ImplementsReactor`. A table without duplicates is a
  function from handles to masks (`AskedAt`); one lemma per action maps its step
  to a step of `Reactor` or a stutter.

Model-checked only: liveness (`ReadyIsServed`).

Not modelled: event masks of 0 and the reserved mask `FREE` that marks free
slots; a handle closed while registered (the context module's sockets would
have to be composed in); `start` called from a callback; a `realloc` that fails
(the code does not check); `poller:close` of the bare C object.

## Contexts and sockets: `ZContext`, `Lifecycle`

| model | code |
|---|---|
| `closed`, `borrowed`, `shut` | `LUAZMQ_FLAG_CLOSED`, `_DONT_DESTROY`, `_CTX_SHUTDOWN` |
| `native`, `handle`, `ctx` | `zcontext.ctx`, `zsocket.skt`, `zsocket.ctx`; a native object has the name of the Lua object that created it |
| `ctx_ref`, `onclose`, `autoclose` | the registry references of the structs in `lzmq.h`; `autoclose` is the table with weak keys |
| `leaked` | a callback reference that was overwritten without being released |
| `socket_count` | the field; the linger argument of `close` and `destroy` only sets an option of the native socket and is left out |
| `held`, `finalized` | the application's references; objects whose `__gc` ran |
| `running`, `terminated`, `opened` | libzmq |
| `stack` | C functions that wait: `close` for its callback; `destroy` and `shutdown` in the `lua_next` walk; then in `zmq_ctx_term` (`term`) or before `zmq_ctx_shutdown` (`stop`) |
| `Close`, `CallbackReturns` | `luazmq_skt_destroy` before and after the callback (`BeginClose`, `EndClose`): the reference to the context is released first, the CLOSED flag is set last |
| `NewContext`, `NewContextFails`, `InitCtx` | `luazmq_context_init`, `luazmq_init_ctx` |
| `NewSocket`, `NewSocketFails`, `NewSocketRaises`, `InitSocket` | `luazmq_ctx_socket` with its option, bind, connect, autoclose phases; `luazmq_init_socket` |
| `OnClose`, `OnCloseNil`, `ResetHandle`, `Autoclose` | methods |
| `Destroy`, `Shutdown`, `CloseListed`, `WalkEnds`, `Term`, `TermInterrupted`, `Stop` | `luazmq_ctx_destroy`, `luazmq_ctx_shutdown` and `luazmq_ctx_close_sockets` one key at a time; a key stored during the walk makes `lua_next` miss any of the keys it has not reached |
| `Drop`, `CollectSocket`, `CollectContext` | the collector: unreachable objects, each once, sockets before their contexts |

`Lifecycle` is the promise: a context is created and destroyed; a socket is
opened in a context, is announced to its owner at most once while it is open
and its context is, and is closed once; a context is gone only after its
sockets. `ImplementsLifecycle` is the refinement.

| run | what it shows |
|---|---|
| `zc_simple` | a context and three sockets whose callbacks open and close sockets, their own too, and destroy the context they are in, while the collector runs at any point of application code, the callback of a close that has given up its reference included (`"reenter"`, `"orphan"`): types; destroy finds nothing open; an assertion of the code fails only when a call returns to an object that was closed meanwhile in its own callback (`FailsOnlyNested`); `socket_count` is exact; the registry keeps nothing for closed sockets; the refinement; and a destroy that was called returns, with the context closed, or interrupted by a signal and with a context that makes no more sockets |
| `zc_anyuse` | two context objects, possibly for one native context, two sockets, possibly one native socket, callbacks that open sockets in a context that is being destroyed, setters that raise: the collector never takes a context while a socket of it is open, unless that socket's close has begun (`ContextOutlivesSocket`) |

Bounds. Objects are a finite supply: an object created is never unborn again,
so the system stops when all were used (no deadlock check). Three sockets are
needed for a walk with one socket closing, one still listed, and one being
opened by the callback; two where the other uses are on. `MaxDepth` bounds the
waiting calls, 4 in `zc_simple`, which is a close inside a close inside a destroy
inside a close; a call that would nest deeper is not made. `zc_anyuse` leaves
out what adds states and can only close more (`"reenter"`), or has no part in
what keeps a context (`"override"`, `"adopt"`); the theorem covers these too.
Objects of a kind are interchangeable there (symmetry), and it has no liveness
property.

Known to fail, and not runs:

- A close inside the socket's own callback (`"reenter"`), or a destroy inside a
  callback of a socket it closes, ends with `zmq_close` of a closed socket, and
  the assertion of `zsocket.c:640` fails. So does a collection: `close` releases
  its reference to the context (`zsocket.c:601`) before the callback (`607`), so
  a context that nobody else holds may be finalized in the callback, and its
  destroy closes the socket under the call that waits (`"orphan"`). Both are in
  `zc_simple`, where `FailsOnlyNested` says that there is no third way.
- A socket left open by an option setter that raises (`"raise"`) is missed by
  `destroy`, which waits for it forever. So is one that `lua_next` misses because
  a callback opened a socket in the context whose list is being walked
  (`"create"`), or one listed by a context it was not made by (`"adopt"`), whose
  own context finds it no more.
- `on_close` on a socket that has a callback (`"override"`) leaks the first one:
  `leaked` is then not empty and `RefsReleased` is false.
- `zmq_ctx_term` fails with EINTR when a signal arrives while it waits, for
  sockets or, when all are closed, for libzmq's own thread. `destroy` then answers
  nil and the context is not closed (`zcontext.c:262-263`); it has to be called
  again. That it ends closed can therefore not be claimed of one call, and
  `DestroyEnds` does not.

Fairness. C code runs on, and a callback returns in the end, whatever it calls
before: `CallbackReturns` is strongly fair, because a callback may call and
return from other methods again and again. Neither the application nor the
collector owes anything, nor is a signal owed. `Term` is weakly fair and enabled
only when the context has no open socket: libzmq promises no more.

Proved in `ZContextProofs` for any sets of contexts and sockets and any uses:

- `TypeCorrect`: `TypeOK`, including that every waiting call is a call on an
  object of its kind that was created (`FramesFit`).
- `CountExact`: unless native sockets are shared between objects, `socket_count`
  is the number of open sockets. `CountInv` strengthens it with the fact that
  handles are then never exchanged, so a second `EndClose` of a socket always
  meets the assertion of `zmq_close` before the count goes wrong.
- `NothingRetained`: unless a callback is replaced by another, the registry
  holds nothing for a closed socket. `RefsInv` adds `GaveUp`: a socket with a
  waiting close has given up its context reference already.

- `FailuresAreNested`: `FailsOnlyNested`, unless native sockets are shared.
  `NativesOK` says that what is not closed is open in libzmq and what libzmq has
  given up is closed, so that `EndClose` and `Term` can only fail on an object
  that is closed.
- `ContextsOutliveSockets`: `ContextOutlivesSocket`, for every use.
  `KeepsContext` adds why: the socket has its `ctx_ref`, or it is unreachable
  itself, and then the collector takes it before its context.

Proved in `ZContextLifeProofs`, each under the hypothesis it names:

- `NoAssertionFails`: `fault` is always `"none"`, for `Orderly` uses: no object is
  closed, destroyed or collected in a callback of its own close or destroy (no
  `"reenter"`, no `"orphan"`), no native sockets are shared, no socket is adopted
  (`Plain`), and not `"wrap"` together with `"create"` or `"raise"`.
- `TermWaitsForNothing`: `TermFindsNothingOpen`, for `Plain` uses, when besides
  no callback opens a socket in a context that is being destroyed (`"create"`),
  no setter raises (`"raise"`) and no second object has the native context
  (`"wrap"`): each leaves a socket the walk does not find.
- `LifeAsPromised`: `ImplementsLifecycle`, step by step, when native objects are
  not shared (no `"handles"`, no `"wrap"`). Re-entrant closes, orphaned contexts
  and everything else are included: what runs nested in the close of a socket is
  a stutter, and the notification comes while the context is there.

`LifeInv` is `CountInv` and five facts. `StackOK`: an object has one waiting call
at most and is not closed before it returns; no context is walked above the
callback of one of its sockets, so what a walk finds is never in the middle of a
close. `ListInv`: a socket that is not closed is in the list of its context, or,
while the context is being destroyed, among the keys the walk has still to visit
or in a callback; so none is left when the walk ends. `KeptOK`: it is held by
`ctx_ref`, or its close waits on the stack, or nobody has it because a setter
raised, and then the collector finds it before the context. `HandlesOK`: native
objects are those their objects created. `FaultOK`: an `EndClose` meets an open
handle and, by `CountInv`, a count that is positive. The refinement
rests on `NativeInv` and on `HomeOpen`: the context of a socket that is not
closed is not closed either, so `Term` finds no socket of its context alive.

Model-checked only: liveness (`DestroyEnds`).

Not modelled: `LUAZMQ_FLAG_CLOSE_ON_ETERM` (nothing sets it); options, `bind`
and `connect` (no state of the binding); `lua_close`, which finalizes
everything in reverse order of creation; finalization inside a C function
rather than between application instructions; `zmq_socket` on a context that is
gone; several Lua states.

## The event loop: `EventLoop`, `Alarms`

| model | code |
|---|---|
| `events`, `lock` | `event_list.private_.events`; the `lock` field of the `time_event` objects, which are numbered in the order they are made |
| `started`, `rest`, `interval`, `once` | the event's timer: `timer:started()`, `timer:rest()`, what it was last started with; `once` and absolute timers, which `restart` treats alike |
| `sockets`, `closed`, `io` | `zmq_loop.private_.sockets`; closed sockets; what the poller has still to dispatch in the innermost poll that found something |
| `interrupted`, `life` | `private_.interrupt`; whether `destroy` ran, and failed |
| `stack` | running `start`, `sleep_ex`, `poll`, `flush`: where they are (`enter`, `wait` in the poller, `io` callbacks, `fire`, `time` for start's own function), the rest of their interval, the timeout of the poll, the index `i` of the pass, the callback running |
| `AddEvent`, `SetInterval`, `Reset`, `Restart` | `add_time`, `add_interval`, `add_once` and the methods of `time_event` |
| `AddSocket`, `RemoveSocket`, `CloseSocket`, `Interrupt`, `Destroy` | methods of the loop, and a close behind its back |
| `Run`, `Enter`, `PollReturns`, `PollFails`, `DispatchSocket`, `SocketReturns`, `SocketsDone` | `poll`, and `flush`, which polls without the events |
| `FireNext`, `EventReturns`, `PassEnds` | one turn of `event_list:fire`, its second half after the callback, and `purge` with the return of `poll` into `sleep_ex` and `start` |
| `OnTimeReturns`, `CallbackRaises` | start's own function; an error caught in an outer callback or below all |

Time is relative: `Tick` takes one unit from everything that is left, at any
moment, also between the steps of a pass, so every interleaving of deadlines
with the pass is explored, and no clock grows. `interval` is what is left to
`restart`. What a clock does to a rest is the matter of the module `Timer`, whose
`Countdown` is what this module takes its timers for.

`Alarms` is the promise: an event is armed, becomes due, is called when due and
never inside itself, and a one-shot event is disarmed when its call returns.
`ImplementsAlarms` is the refinement; the index of the pass, the list, nested
methods and purges are invisible in it.

| run | what it shows |
|---|---|
| `el_simple` | `Uses = {}`, three events: types; an event is locked exactly while its callback runs; a started event is in the list once, whatever nested passes removed (`StartedIsListed`); a poll never waits past an event it could fire (`NeverOversleeps`); the refinement to `Alarms`; under `start` a due event is called although a pass may skip it (`DueIsCalled`), which is what the long comment in `event_list:fire` argues; `interrupt` ends every nested method |
| `el_anyuse` | two sockets and an event with all uses (errors, polls nested in callbacks of sockets, sockets closed or removed while due, events re-armed after they left the list): no event is called inside itself |

Bounds. The skip that the comment in `event_list:fire` describes takes three
events: one that finished, one whose callback runs the loop, and one that is
skipped. `MaxDepth = 2` is one method nested in a callback of another; a deeper
one repeats what the nested one does to the outer. Intervals and waits of 1 are
the least for which an event is at one time not due and later is, and a wait
ends before, with or after an event. Two sockets are the least for which a
nested poll or a removal leaves the outer poll with turns and nothing to
dispatch. Events are a finite supply, so the system may stop (no deadlock
check).

Fairness. The thread runs on (`LoopStep`, of which one disjunct at most is
enabled at a time) and time passes (weak fairness). A callback returns, however
often it runs the loop before it does: its return is disabled while a nested
method runs, so this is strong fairness. Nothing is assumed of the application
otherwise, nor of sockets; `InterruptEnds` holds since `interrupt` refuses all
later runs.

Proved in `EventLoopProofs` for any number of events and sockets, any intervals
and nesting, and all uses:

- `NoReentry`: `NotInItself` is invariant.
- `WakesInTime`: `NeverOversleeps` is invariant.
- `LoopImplementsAlarms`: the refinement. Each step that changes a timer arms,
  disarms, calls or returns one event; every other change of the stack takes
  callbacks away at most, which `Alarms` allows as `Abort`.
- `LockFollowsCall`: `LockedWhileCalled` is invariant, where no callback raises
  an error, runs the loop while sockets are dispatched or removes one of those
  (`Orderly`). The extra invariant, `IoFits`, says that only the innermost
  method dispatches, and as many sockets as the poller has left: without it
  `DispatchSocket` could call nil and unwind past a locked event.
- `NoEventLost`: `StartedIsListed` is invariant, where no event that left the
  list is started anew (`"rearm" \notin Uses`).
- `TypesAreRight`: `TypeOK` is invariant.

The first four follow from `IInv`. Its `GoodStack` says that the events whose
callbacks are on the stack are pairwise different and all locked, so `FireNext`,
which takes an unlocked one, cannot repeat one, and `EventReturns` unlocks one
that no other frame needs; that a frame which polls is the innermost and runs no
callback, so nothing re-arms a timer while a poll waits; and that `flush` has no
timeout. That `SleepInterval` is a minimum rests on the well-foundedness of the
naturals.

The other two follow from `ListInv`: the list holds events that were made, each
once, and every started one. A pass removes an event by the index it keeps
across callbacks, and `RemoveAtKeeps` says that `RemoveAt` drops no other; that
the event at the index is a stopped one is what `FireNext` tests. `purge` walks
the list from its end, which `Purged` does with a recursive function;
`PurgeKeeps` proves by induction over the list (by a least counterexample, as
the library's induction rule takes an operator) that the list after each turn
has distinct events and every started one.

Model-checked only: liveness (`DueIsCalled`, `InterruptEnds`).

Not modelled: `destroy` inside a callback (the pass that called it then indexes
nil, whatever else happens); `pfire` and `on_error`, which nothing calls;
`create_*` and `add_new_*`, which call the context and `add_socket`; a socket
added twice; `loop.sleep`. Known to fail, and not a run: with `"raise"`, an
event whose callback raised stays locked and is never called again
(`LockedWhileCalled`); with `"rearm"`, an event armed after it left the list is
not listed (`StartedIsListed`).

## Timers: `Timer`, `Countdown`

| model | code |
|---|---|
| `build` | the choice of `USE_TICK_COUNT`, `USE_TICK_COUNT64`, `USE_PERF_COUNT`, `clock_gettime` or nothing but the system clock (`ztimer.c:20-46`) |
| `now`, `utc` | true time and the system clock, in units finer than a millisecond; only `utc` can be set |
| `GetMonotonicTime`, `GetMonotonicDelta`, `GetUtcTime`, `GetUtcDelta` | the functions of these names, one disjunct for each build; the tick counter has `Period` values where a DWORD has 2^32 |
| `mon`, `abs` | the `zmonotonic_timer` and `zabsolute_timer` objects: `start`, `fire` and the three flags |
| `began` | true time of the last `start`, which the code does not know |
| `MonElapsed`, `MonRest`, `AbsElapsed`, `AbsRest` | what the methods that only look answer |
| `CreateMonotonic` ... `AbsStop` | the methods |
| `Sleep` | `luazmq_timer_sleep`, which a signal cuts short where it is `nanosleep` |

`Countdown` is what the event loop takes a monotonic timer for: armed with its
whole interval to go, its rest only falls and stays at zero.

The run `tm` has one timer of each kind, the four ways a build can read the
clock (`tick64` reads it as `posix` does), milliseconds of two units, a counter
of three ticks that wraps twice in seven units, and a system clock that is set
to any millisecond. It shows that `elapsed` of a started timer is within a
millisecond of true time (`ElapsedIsTrue`), that who waits as long as `rest`
answers finds it at zero (`WaitIsEnough`, which is what `loop.lua:147-158`
does), and the refinement to `Countdown`. Two facts of the code are part of the
statements: a difference across the wrap of the 32-bit counter is one tick
short (`ztimer.c:81` adds `MAXDWORD - start` and `end`, and not 1), and after a
whole period nothing can be told (`Lost`). A build without a monotonic clock
(`utc`) keeps none of this when the clock is set, so it is not `Steady`.

Proved in `TimerProofs` for any timers, intervals, unit of time and width of the
counter:

- `TypeCorrect`: `TypeOK` is invariant.
- `ElapsedFollowsTime`: `ElapsedIsTrue` is invariant. The inductive invariant
  adds `StartsKept`: a started timer holds the reading of the moment `began`.
  What remains is arithmetic: quotients differ by what the numbers differ to
  less than one (`Rounding`), and residues less than a period apart differ by
  the same or by one period less (`Residues`).
- `WaitingSuffices`: `WaitIsEnough`. A step moves a clock or a timer, not both
  (`OneMoves`); when a clock moves by k milliseconds the elapsed time grows by
  k at least, by k - 1 when the tick counter wraps meanwhile (`DeltaAdds`).
- `TimersImplementCountdown`: the refinement. A method leaves the countdowns of
  the other timers as they are (`OthersCountOn`) and is an `Arm`, `Stretch` or
  `Disarm` of its own; a step of a clock lets no rest grow (`DeltaGrows`), also
  across the wrap.

Nothing is only model-checked. Not modelled: frequencies
of the performance counter that are no multiple of 1000 per second, whose
counts are here the units of time; the conversion of the readings to Lua
numbers; the LuaJIT twin.

## Messages: `Messages`, `Values`

| model | code |
|---|---|
| `msg` | the message objects: whether they are open, the bytes, the buffer they are in, the flag MORE |
| `buf`, `WriteInPlace` | a `zmq_msg_t` of more than `Small` bytes refers to a buffer, which `zmq_msg_copy` shares and `zmq_msg_send` hands on; a `memcpy` into it is seen by all who hold it |
| `Filled`, `Junk`, `Copied`, `Leaves` | `zmq_msg_init_size`, its undefined bytes, `memcpy`, and whether a `memcpy` leaves its buffers |
| `fault` | the method whose `memcpy` did |
| `queue` | parts between a pair of sockets of the application |
| `MsgInit` ... `MsgClose` | `zmq.msg_init` and its variants, `close` |
| `MsgMove`, `MsgCopy`, `MsgSetData`, `MsgSetSize`, `MsgSend`, `MsgSendMore`, `MsgRecv` | the methods |

`Values` is what a user may think: a message is a string of its own, editing one
touches no other, and what was sent arrives as it was.

| run | what it shows |
|---|---|
| `ms_simple` | two messages and a part in flight, every use but writing into a shared buffer: every `memcpy` stays within its buffers (`InBounds`), and the reallocations and copies of `set_data` and `set_size` are invisible (`ImplementsValues`) |
| `ms_shared` | a finding: with buffers that are shared, `set_data` on a copy changes the source (`CopiesAreIndependent` fails) |

Bounds. Messages of up to two bytes of which one fits into the `zmq_msg_t` cross
that limit in both directions; strings of one and two bytes are written at,
below and past the end of a message. Two messages and one in flight are the
least for which a buffer is held by another object and by a part.

Proved in `MessagesProofs` for any messages, strings of bounded length, size of
the `zmq_msg_t`, high water mark and number of parts:

- `CopiesInBounds`: `InBounds`. The inductive invariant adds which bytes and
  buffers a message may have (`Types`) and what the high water mark, which holds
  up only a first part, means for the queue (`Bounded`): while a message is
  begun there is room for its end, and every message ends within `MaxParts`
  parts. So `Buffers` has a name for every buffer that is held, and one more
  (`FreshBuffer`): the `CHOOSE` of `FreeBuffer` never runs out.
- `MessagesImplementValues`: the refinement, unless a buffer that something else
  holds is written (`"shared"`). `GrownData`, `WrittenData` and `ResizedData`
  say that the memcpy calls of `set_data` and `set_size` add up to `Overwrite`
  and `Resize`; `WritesOne` that a write in place is seen through one object; a
  call whose memcpy would leave its buffer is a stutter.

Model-checked only: `CopiesAreIndependent`, which TLC refutes.

`InBounds` names two inputs that slip past the checks of the code. Position 0 is
accepted by `set_data`, whose condition is `start_pos >= 0` (`zmsg.c:180`).
`msg_init_data_array` sums sizes with `lua_rawlen`, 0 of a number, and copies
with `luaL_checklstring`, which makes a string of it (`zmsg.c:76-92`). Also seen
on the way: a message that is resized loses the flag MORE, and with it the
answer of `more()`; `get` and `set` of options check their argument 1, which is
the message itself, so they always raise. Not modelled: these two and the
accessors; allocations that fail, before anything is changed; `send` and `recv`
between several Lua states.

## Socket input and output: `Multipart`

| model | code |
|---|---|
| `call` | the method in progress: `send_all`, `sendx`, `recv_all`, `recvx`, `recv_event`, or `recv_len` between its two calls; what it has to send or has received |
| `flag` | `LUAZMQ_FLAG_MORE` of the socket object, which `more()` answers |
| `inbox`, `reading`, `outbox` | libzmq: parts that arrived, RCVMORE, parts in flight |
| `meant`, `told`, `given` | the application: whether it is in the middle of a message it sends, or receives, and the parts it was handed |
| `dropped` | parts that a failing call had in hand and did not answer |
| `did` | failures and uses that the properties name |
| `Send`, `SendMsg`, `SendMore`, `Sendv`, `MsgSend` ... | methods that send one part |
| `SendAll`, `Sendx`, `SendPart`, `SendFails`, `SendStops` | the loops, one turn at a time, and how a turn fails |
| `Recv`, `RecvMsg`, `RecvNewMsg`, `MsgRecv`, `RecvLen`, `RecvLenMore` | methods that receive one part |
| `RecvAll`, `Recvx`, `RecvEvent`, `RecvPart`, `RecvEventPart`, `RecvFails` | the loops, the assertions of `recv_event`, and what each method answers when a turn fails |
| `Arrive`, `PeerReads`, `ContextShutsDown` | what happens between two calls of libzmq |

Parts are numbered as they arrive; 0 is the socket object, which `recvx` answers
among the parts when it fails.

The run `mp`, with messages of up to three parts, four parts that arrive, three
in flight and room for one message, shows:

- `SentAsMeant`: the messages on the wire begin where the application began
  one. An element of a list that is no string, or a part that cannot be
  allocated, in the middle of `send_all` leaves half a message to which the next
  is glued; an empty list sends nothing, so it cannot end a message either.
- `HandsOver`: of the parts that arrived each is handed over once and in order,
  is held by the call that collects it, or waits. `recv_all` answers with what it
  has when it fails; `recv_event` and `recv_len` drop what they had; so does
  `recvx` with its last part. Missing are only these (`dropped`), and what is
  given besides is the socket object.
- `FlagIsTrue`: `more()` is right between calls. `recv_all`, `recvx`,
  `recv_event` and `msg:recv` do not maintain the flag; the first three need
  not, when they are given messages from their start. The test of it
  (`test/utest.lua:1178-1214`) also passes for `msg:recv` because the flag
  happens to be right already.
- `AssertionsHold`: so are the two assertions of `recv_event`, if it is called
  between events.
- `BegunEnds`: a call that has moved a part ends.

The run `mp_recvx` shows what `recvx` does against its documentation. When it
fails, `doc/lzmq.ldoc:592-595` promises nil, the error and the received parts. The
code moves one value too many from the top of the stack to its bottom
(`zsocket.c:489-491`, where `j` goes down to 0), so it answers nil, the error, the
socket object and the parts without the last. `RecvxAnswers` states the promise, as a property of
the step that fails.

Fairness. `CallStep`: the thread runs on. Messages arrive whole and the high
water mark counts whole messages, so a call that has begun one waits for nobody.
Timeouts, signals and peers owe nothing; a first part may wait forever.

Proved in `MultipartProofs` for any bounds: `BoundariesAreMeant`, `NoAbort`,
`MoreIsRight`, `PartsHandedOver` and `TypesAreRight`, which are `SentAsMeant`,
`AssertionsHold`, `FlagIsTrue`, `HandsOver` and `TypeOK`. The inductive
invariant says that the wire is at a boundary exactly when the application is
(`SendInv`); that messages have arrived whole and the parts of events alternate
(`Whole`); and that the application knows RCVMORE, or holds the parts it has not
been told of (`Knows`).

`HandsOver` puts what was given, what the call holds and what waits one after the
other (`Held`), and says that this is increasing and is all that arrived, but for
what was dropped. `HeldInv` adds what its steps need: that the numbers are no
larger than what arrived, and that only receiving calls hold parts. `TypeOK` is
not inductive: it bounds what is in flight, and only the first part of a message
waits for room. `FitInv` counts whole messages: at most `Hwm`, and fewer while
one is being sent.

Of `BegunEnds`, a liveness property, the two safety halves are proved.
`BegunNeverWaits`: a call in the middle of a message has a turn of its loop that
is possible. `GoInv` is the invariant it needs: the wire is in the middle of the
message that is sent (so that there is room), or the library has promised the
next part of the one that is received (so that, with `Whole`, the part is
there). `BegunCountsDown`: each turn lowers `MovesLeft`, which is the parts
still to be sent, or the parts up to the first one without a successor in the
inbox (`EndOf`); no step of a peer or another thread changes it, since what
arrives comes after that part. That a turn which stays possible is taken is the
fairness of `CallStep`; the conclusion from these three, `BegunEnds` itself, is
model-checked.

Not modelled: the bytes; binding and connecting; `poll` of one socket; a
receive in the middle of `recv_len`'s second call by another thread, which
sockets do not allow.

## Threads and actors: `Actors`

| model | code |
|---|---|
| `context` | the native context: open, in `zmq_ctx_term`, gone |
| `parent` | what the parent's Lua state waits for; `exit` is its end, with the objects left to finalize |
| `thread` | `prelude` of `threads.lua:31-45`; then the function, `running`, `receiving` or `sending`; and `leaving`, when the child's Lua state is being closed |
| `attached`, `joined` | how `thread_mt:start` started a thread; whether it was joined |
| `pipe`, `socket`, `queue`, `replies` | the two ends of the pipe and what is in it, to the child and back |
| `asked`, `early` | which threads were told to stop; whether the context was ended upon a thread that had no socket yet |
| `Fork`, `Start`, `Send`, `Recv`, `ThreadJoin`, `CloseActor`, `Destroy`, `Exit` | the parent's calls, to actors in any state; `SendReturns`, `RecvReturns`, `JoinReturns`, `Terminated`, `FinalizeActor`, `FinalizeContext` are where they wait |
| `Connect`, `PreludeRaises` | the prelude of the child |
| `CallRecv`, `Receives`, `CallSend`, `Sends`, `CallFails`, `BodyEnds`, `StateCloses` | its function, and the end of its Lua state |

Pipes are what `make_pipe` makes by default: a PAIR socket at an inproc address.
A send waits for a peer and for room; what was sent is still received after the
sender closed its end. `actor_mt.__index` passes `send` and `recv` to the pipe in
whatever state the thread is (`threads.lua:68-73`), so the model does too.

The run `act`, with two actors and pipes of one message in each direction, shows
that no thread uses a context that is gone (`UsesLiveContext`), that the end of
the context reaches every child (`ChildrenEnd`), and that whatever the parent
waits for comes, or never can (`WaitsEnd`). The exceptions are states, not flags:
`Stuck` names the pairs that wait for each other at this moment.

- A send or recv whose peer is not there: the thread was not started, or its
  prelude raised, or it has ended, and for a recv has left no message.
- A send to a thread that is itself sending into a full pipe, and a recv from a
  thread that is itself receiving.
- A join or close of a thread that receives and was not told to stop, or sends
  into a full or closed pipe. A thread that was told is joined with success,
  although `close` closes the pipe before it joins (`threads.lua:90-93`).
- The same at the end of the parent's Lua state, for a thread that was started
  attached: its finalizer joins it, and the context, whose end would release it,
  is finalized later. This is the deadlock that `ex.lua:16-27` describes.

Everything else ends, `destroy` always. `UsesLiveContext` leaves out `early`:
`zmq_ctx_term` waits for sockets and not for threads, so a thread that was
started and is still in its prelude can find the context it was given by address
gone (`threads.lua:39`).

Bounds. Two actors are the least for which one child ends while another uses the
context, and for which the order of finalization matters. `MaxQueue = 1` has a
pipe that is empty and one that is full; a longer pipe adds states in between,
which the theorems cover. An actor is made once.

Fairness. The thread of the parent and those of the children run on
(`ParentStep`, `ChildStep`). The application owes no call; the function of a
thread need not end by itself (`BodyEnds`) nor send (`CallSend`), but it goes back
to receive from its pipe, which is what a thread with a pipe is for. Without this
a join of it would of course not return.

Proved in `ActorsProofs` for any number of actors and any length of a pipe:
`LiveContext`, that is, `UsesLiveContext` is invariant. It needs that a child that
has a use for the context has a socket in it, that `zmq_ctx_term` returns only
when there is none, and that no thread is in its prelude then unless the context
was ended `early`. `TypesAreRight` (`TypeOK`) adds that the socket of a child is
open only while its thread is alive, that the pipes keep their limit, and that
what was told to stop, attached or joined was started (`TypeInv`).

`WaitsEnd` and `ChildrenEnd` are liveness properties; what is proved is this.
`NobodyIsStuck`: while the parent waits, and is not `Stuck`, either its own step
is possible or that of a thread it waits for. Its invariant, `WaitInv`, adds to
the types that a thread that was told to stop has the message in its pipe or is
ending (`AskedHear`), that a context that is gone has no sockets (`GoneEmpty`),
what the parent's waits refer to (`WaitsMeant`, `PipesMade`), and that pipes are
closed and objects finalized before the context is ended (`EndsInOrder`).
`StuckForGood`: what is `Stuck` stays so, whatever anybody does, so that the
exceptions are waits that hang and no more than that. `WaitsCountDown`: every step
made while the parent waits ends the wait, or lowers `StepsLeft` of the thread
that makes it and of no other - two for each message it can still read or send,
and a few for its state - or finalizes one more object, or begins to end the
context. That steps that stay possible are taken is the fairness of `FairSpec`;
`WaitsEnd` and `ChildrenEnd` themselves are model-checked.

Not modelled: `run` and `xrun`, which fork without a pipe; threads that cannot be
joined, for which a join fails at once; pipes over TCP, timeouts and `recv` or
`send` with DONTWAIT; a thread that sends and receives on sockets other than its
pipe; a context of the child's own; the serialization of code.

## Findings

`PROJECT.json` lists the two that runs show: `set_data` writes into a buffer
that a copy of the message shares (`ms_shared`), and a `recvx` that fails does not
answer the parts it received (`mp_recvx`). What else the code does against a
reader's expectation is described where it was met: under "known to fail" for
the poller, the contexts and the event loop, and with the properties of
messages, sockets and actors.

The members of the constants `Uses` are uses some property does not survive: for
the poller, `modify` of a descriptor, a second registration of a handle, the
removal of a handle that is not registered, a callback that changes another
handle or polls; for contexts, a close in the socket's own callback, a collection
of a context whose socket's callback runs, a socket opened by a callback of
`destroy`, a setter that raises, two objects for one native context or socket, a
second `on_close`, and `autoclose` of another context's socket.

## Not modelled

Socket options and errors are single calls of libzmq and tables of names. The
LuaJIT twins (`ffi.lua`, `ffi/timer.lua`) keep state of their own and are left.
One difference was met: `ffi.lua:1120-1147` removes an item by copying the last
one into its place without its `revents`, so a removal in a callback can leave
the item moved with the events found for the one removed.

## What a proof cannot reach here

Liveness under fairness and ENABLED stay with TLC: `ReadyIsServed`,
`DestroyEnds`, `DueIsCalled`, `InterruptEnds`, `BegunEnds`, `WaitsEnd` and
`ChildrenEnd`. For `BegunEnds` and `WaitsEnd`, theorems say that a step is possible, by the
guards of the actions instead of ENABLED, and that a measure falls. For
`InterruptEnds` there is no such measure of steps: a flush polls as often as
sockets are ready until its time is over. The library's induction rules take an
operator as a parameter, which the provers cannot instantiate; where an
induction was needed (over `purge`, over minima) the proof takes a least
counterexample instead. What `SelectSeq`, a recursive operator, returns cannot
be reached at all, so modules with theorems use recursive functions.

## Running

| configurations | module | time on two cores |
|---|---|---|
| `zp_*.cfg` | `MCZPoller` | `zp_simple` two minutes |
| `zc_*.cfg` | `MCZContext` | `zc_anyuse` three minutes |
| `el_*.cfg` | `MCEventLoop` | `el_simple` two minutes |
| `tm.cfg` | `MCTimer` | two minutes |
| `ms_*.cfg` | `MCMessages` | one and a half |
| `mp*.cfg` | `Multipart` | one |
| `act.cfg` | `Actors` | less than one |

For example `tlc -config zp_simple.cfg MCZPoller`. `tlapm` checks
`ZPollerProofs`, `ZContextProofs`, `ZContextLifeProofs`, `EventLoopProofs`,
`TimerProofs`, `MessagesProofs`, `MultipartProofs` and `ActorsProofs`.
