# mybmm in TLA+

mybmm is a battery management daemon.  Once every `interval` seconds it reads an
inverter and a set of battery packs, looks at every cell, decides whether and how
the battery is to be charged, and sends the result to the inverter.  This directory
holds a model of it: TLA+ modules, TLC configurations that check them on small
instances, and proofs that hold for every instance.

    tlc -config MCPackUpdate_safety.cfg MCPackUpdate
    tlapm PackUpdateProofs.tla

`PROJECT.json` maps every definition to the lines of the source it stands for, and
lists runs, mutants (a plausible bug each property must notice), hazards and theorems.

## 1. The system

| component | source | state it keeps | operations |
|---|---|---|---|
| control loop | `main.c`, `config.c` | `conf` (one record for everything), `startup`, `reconf`, the totals of a pass | `main`, `usr1_handler`, `reconfig`, `read_config` |
| charge controller | `battery.c` | in `conf`: CHARGING, `charge_mode`, voltages, currents, `cv_start_time`, `start_temp`, `capacity` | `battery_init`, `charge_start`, `charge_stop`, `charge_check` |
| pack updates | `pack.c` | a list of packs, each with its driver handle, state bits and readings | `pack_add`, `pack_init`, `pack_update`, `pack_update_all` |
| worker pool | `worker.c` | per slot a mutex, condition, flags, item and thread | `worker_create_pool`, `worker`, `worker_exec`, `worker_wait`, `worker_killbusy` |
| inverter | `inverter.c` | its driver handle, readings, UPDATED | `inverter_init`, `inverter_read`, `inverter_write` |
| inverter driver | `si.c` | mailbox of CAN frames with a bitmap, filled by a thread | `si_open`, `si_read`, `si_write`, `si_close`, `si_thread` |
| BMS drivers | `jbd.c`, `jk.c`, `preh.c` | a transport handle, the pack; `preh.c` a mailbox like `si.c`'s | open, read (request, check, retry, decode), close |
| transports | `can.c`, `can_ip.c` (with `dsfuncs.c`), `ip.c`, `serial.c`, `bt.c` | a descriptor, or -1; `bt.c` a buffer that a callback fills | new, open, read, write, close |
| lists | `list.c` | items and one cursor | add, delete, reset, next, count |
| configuration file | `cfg.c`, `stredit.c` | sections and items | read, get, set, write |
| modules | `module.c` | the loaded modules | load by name and type |
| MQTT, logging, conversions | `mqtt.c`, `utils.c`, `db.c` | - | - |
| vendored | `parson.c`, `uuid.c`, `can.c` 63-742 | - | - |

How they interact.  `main` calls the inverter, then `pack_update_all`, which hands one
call of `pack_update` per pack to the worker pool and waits up to 30 seconds for all of
them.  `pack_update` calls the pack's driver, and that its transport.  What is still
running after the wait is killed: the pool sends the thread SIGINT, whose handler calls
`pthread_exit` wherever the thread happens to be, and creates another thread for the slot.
Then `main` walks over the packs without a lock, calls the charge controller, and hands
`conf` to the inverter's driver.  SIGUSR1 sets a flag that `main` polls.

What is hard.

- *Threads that are killed anywhere*: with a mutex held, inside `pthread_cond_wait`, with
  a session open; and re-created without being joined.
- *Flags with two writers*: `worker_killbusy` sets KILL without the lock while the worker
  clears BUSY with it.
- *State that outlives its pass*: UPDATED marks, sessions, CRIT_CELLVOLT and FORCE_SOC,
  the capacity, the charge mode and its start time.
- *Sources that come and go*: any pack, and the inverter, may report in one pass and not in
  the next; the charge controller must not be left with the state of another situation.
- *A signal against a flag* (`reconf`), and a re-read that may fail half-way.
- *Answers that come late*: a request is made again while the answer to the one before is on
  its way; little in an answer says to what it is one.
- *A file that the daemon and the operator both write*, and a daemon that may end at any
  point of writing it.

The full list, each at its line, is "hazards" in `PROJECT.json`.  What makes each
component correct:

- *pool*: one thread at a time works for a slot, except one that its signal is about to end;
  the slot of a thread that works is BUSY and keeps its item; no wakeup is lost; after a kill
  every slot can serve again.
- *pack updates*: a round ends with nobody inside `pack_update`, no session open and only
  this round's marks; a pack is updated once a round.
- *charge controller and loop*: no charge without a capacity; outside of a charge nothing
  of one is sent; voltage and time of a charge are bounded; freezing ends it; the
  critical state sent is that of the pass; the capacity comes from all packs.
- *link to the inverter*: its session is closed outside of its functions; a value reported
  was received in this pass; the control loop always gets out of it.
- *BMS drivers and transports*: no connection outlives the update it was made for; what a pack
  that is UPDATED holds belongs to this update's requests, and is in the right places; every
  update ends, whatever the far end does.
- *configuration*: what is in memory is what the file says; writing the file loses no item;
  a generated UUID survives; the lists hold each pack once, and the pool has a slot for each.

## 2. The modules

| module | stands for |
|---|---|
| `WorkerPool` | `worker.c`: threads and caller, program point by program point |
| `PackUpdate` | `pack_update` and `pack_update_all`, on top of `WorkerPool` (EXTENDS: each of its steps is a step of the pool or leaves it alone) |
| `UpdateRound` | what `pack_update_all` promises: the abstract specification that `PackUpdate` implements |
| `Battery` | `battery.c` as operators on the record `conf` |
| `ControlLoop` | `main()`, `reconfig()` and the signal, on top of `Battery`; `pack_update_all` appears in it as its promise: a set of readings, taken at one point |
| `InverterLink` | `inverter_read` and `inverter_write` against the receiving thread of `si.c`, over the handle of `can.c` |
| `Transport` | one handle of any of the five transports: open, write, read, close, and what is on the line |
| `Driver` | what the drivers share: requests, tries, acceptance |
| `JbdDriver`, `JkDriver`, `RemoteCan`, `PrehCells` | `jbd.c`, `jk.c`, the reads of `preh.c` and `si.c` over `can_ip`, those of `preh.c` over `can`; each on top of `Driver` |
| `BmsSession` | one update after the other with any of the drivers over any of the transports: composes the five |
| `CfgFile` | `cfg.c` and `list.c` as operators on lines, sections and items |
| `Reconfig` | `get_config`, `init`, `read_config` and `reconfig` with `inverter_init`, `pack_init` and the module loader, on top of `CfgFile` |
| `WorkerPoolProofs`, `PackUpdateProofs` | the theorems about the pool, about the rounds on top of it, and that these implement `UpdateRound` |
| `ControlLoopProofs`, `InverterLinkProofs` | the theorems about the loop and its charge controller, about the link |
| `BmsSessionProofs`, `BmsAnswersProofs` | the theorems about sessions, and about what is read in them |
| `CfgFileProofs`, `ReconfigProofs` | lemmas about reading and writing a file, and the theorems about the configuration |
| `MC...` | the values TLC uses |

### WorkerPool

`flags`, `lock`, `arg`, `tid` are the fields of `struct worker_info`; `pc[t]` is the place
of thread `t` in `worker()`, and `mpc`, `mx`, `marg`, `mtmp` that of the one thread that
calls the pool (the daemon's main thread).  A thread is a model value; a dead one that
holds no mutex and is in no slot is used again for the next thread that is created.

What is one step.  Everything the caller does between locking and unlocking a slot is one
step, guarded by the mutex being free: the other side touches the slot only with the mutex,
or (the thread that reads its item after unlocking) only what the caller does not change
then.  A worker's critical sections are split, because the signal may arrive inside them.
`flags &= ~FLAG_BUSY` and `flags |= FLAG_KILL` are a load and a store each, because the
second is not under the lock.  A condition variable may wake up without a signal.

The signal.  `pthread_kill` puts the thread into `sig`; `Die` is the handler, which runs at any
step after that, and until then the thread goes on with its program.  Nothing comes between
`pthread_kill` and `flags |= FLAG_KILL`, so that the thread may store the flags before, between
or after the load and the store of the caller: BUSY may come back, and KILL may be lost
(`lost`, history, has the slots to which that has happened).  POSIX promises nothing about the
time a signal takes; on Linux a thread that is blocked or running takes it within
microseconds.  `Prompt` is the one assumption about it: a signal has taken effect when
`worker_killbusy` returns (`KillReturn`), that is, after the second loop of that function.
What holds only with it says so.  `Die` leaves a mutex locked if the thread holds it.  From
`pthread_cond_wait` it may go through "unwind": the C library's cleanup takes the mutex back
and the thread ends with it locked.

Left out: `FLAG_DONE`, `worker_finish`, `worker_kill`, `worker_cancel`,
`worker_destroy_pool` (no caller), a `pthread_create` that fails, and SIGINT sent to the
process from outside.

### PackUpdate

`step` and `pp` are the place and the list cursor of `pack_update_all`; `body[t]` is the place
of thread `t` inside `pack_update`, `opened` and `updated` the packs with an open session and
with the UPDATED bit.  `opened` is what the driver notes: it is empty after the driver's close,
and what a failed or a killed open leaves behind in the transport is in `BmsSession`.
`outcome` is history: the best that came of the pack's updates in this round.
Opening may fail; reading may succeed, fail, or never return (unless `Timely`).  Opening a
session that is open uses it (`open` returns at once if the descriptor is set; `bt.c`'s does not
look).  Between rounds ("scan") the control loop runs.

### UpdateRound

Five variables: whether the loop is inside `pack_update_all`, which packs are being updated,
which sessions are open, which marks are set, and which have been cleared in this call.  Its
`Leave` is possible only when nothing runs, nothing is open and every mark has been cleared, and
a mark can be set only by an update that was started after it was cleared.  The refinement mapping
(at the end of `PackUpdate`) takes a pack for "running" as long as a thread is inside the update
of its slot's pack or will take it from there; so it ends when that thread returns or is killed,
and may start again when a thread that is about to be ended takes it a second time.

### Battery and ControlLoop

`conf` is the part of `mybmm_config_t` that decisions use.  Voltages are integers in hundredths
of a volt, so that the code's `+= 0.1` is `+ 10` and may overshoot a maximum; currents and
temperatures are in tenths; `charge_amps` divided by four over and over is kept exactly as the
pair `amps`, `cuts`.  Nothing is assumed of the configured voltages but that a discharge ends
below where a charge starts (the code divides by the difference): the maximum of a charge may
be below the float voltage, or unset.  Time is ticks of which only those of the
constant-voltage phase count (`cv_age`).  `user_discharge_amps` is taken as unset.  A pack's
report is a record of its extremes, sum, current, capacity and the temperature that each of its
probes has: what main's loop over the cells works out from the cell voltages.  Which of several
critical cells is met first is left open.

A pass is `ReadAll`, a step of the scan per pack, `Evaluate`, `Check`, `Send`, `EndPass`;
`NothingReported` is its early end.  When `pc = "sent"` the values in `conf` are those that
`si_write` puts on the bus.  `highest` and `warmest` are history for the properties.

`ReconfigEnd` is `reconfig()` with its ways to fail (the file cannot be read; the inverter or
a pack cannot be set up), which main does not look at.  `ReconfigCrash` is the other thing
that may come of it: `reconfig` cancels `conf->inverter_tid` and `conf->pack_tid`
(`config.c:110-111`), but the code that creates those threads is disabled, both are 0, and
what `pthread_cancel` does with a thread that never existed is undefined.  A re-read gives
the same parameters again: constants do not change.

### InverterLink

`ControlLoop` takes a reading of the inverter as one step; here are the steps of it.  `fd` is
the descriptor of the CAN handle, `open` the session's flag, `bitmap` and `messages` the
mailbox.  `tpc` is the place of `si_thread` (with `can_read`, which it calls: "enter",
"calling", "reading"), `mpc` that of the control loop, which is in `inverter_read` or
`inverter_write` (`job`), or with the packs in between, or idle.  What a frame says is left
out but for its age: received in this pass, earlier, or never.

No lock is shared, so every access is a step of its own: the thread tests `open`, calls
`can_read`, tests the descriptor, blocks in `read()`, stores the data, sets the bit.  A
message is stored and taken in one step; that the eight bytes taken may be half of each of
two frames is not distinguished.  `read()` has no time limit on this socket, and closing the
descriptor does not end it.  When it fails, `can_read` notes it in `bytes` and returns `len`
(`can.c:912`), which is the size of a frame; so the thread stores what was on the stack
(`ReceiveError`).  The only error that it sees is a handle without descriptor.

`si_read` asks for five ids and looks only at three of the results.  `stale` (history) says
whether one of these three was not of this pass.  `noticed` (history) says whether the
thread has looked at the session since it was closed, which clears the bits: it looks once a
second, if it is not waiting for a frame, and main sleeps for what is left of the interval, so
that a pass may start without.  `muted` (history) is that, for this pass, or that a read has
failed in it.

### Transport, the drivers and BmsSession

`PackUpdate` takes an update as "opening may fail; reading may succeed, fail or never
return".  Here is what happens inside: `pc` is the place of the thread that uses the handle,
`conn` and `peer` the connection, `line` what the far end has sent and nobody has read.  An
answer is two pieces over a byte stream and one over a CAN bus; a piece says to which
request it is an answer, which part of it, and whether that request was made in this update.
The far end may answer in full, in part or not at all, and what it sends is read when the
program reads, or later.

The five transports differ where the code does.  `bt_open` does not look whether the handle
is in use, the others do.  `can_ip_open` leaves its descriptor in the handle when connecting
or the server's reply fails (`conn = "bare"` or "up" after an error); `bt_open` keeps what it
has disconnected.  `can_read` and `can_ip_read` return the length of a frame on the stack that
may never have been received (`ReadHollow`).  A serial line keeps over a close what is on it.
The callback of `bt.c` (`CbCopy`, `CbAdd`) is a thread of gattlib's that runs between any two
steps, `s->len++` being a load and a store against `bt_read`'s and `bt_write`'s `s->len = 0`.

A driver is its loop of tries around a request: `jbd_rw` and `jbd_can_get`, the two phases of
`jk_read`, `preh_get_remote_can_data` and `si_get_remote_can_data`, `preh_read`'s walk through
the mailbox.  `got` is the answers accepted.  What they decode to is left out; which bytes are
taken for an answer is not: `Verified` is `jbd_verify`, `VoltsAt` is the search of `getdata`.
`PrehCells` has the index arithmetic of `preh.c:249-273`, with monitors of fewer cells, frames that
are missing, cells whose mark reads zero, and more or fewer cells than the pack's count.

`Kill` may come at every place of a pack's update; `Halfway` is what it can leave of an open.
`masked` says whether the thread blocks SIGPIPE, which depends on when it was created.
`crossed`, `hollow` and `missed` are history: a request was written with an earlier answer
outstanding; a frame was used that was never received; a frame of a monitor was not there, or a
cell in it had no mark.  At the end of an update the driver's local variables are forgotten
(`Forgotten`), as they are in the code.

### CfgFile and Reconfig

A file is a sequence of lines: header, item, remark, blank.  `ReadLine` is the body of
`cfg_read`'s loop, folded over the lines; `cfg_write` gives the lines it writes.  Names are
compared in upper case, a second item of a name is put at the end and the first deleted, a
blank line ends a section, a remark goes with the next item.  Lists are sequences: each search
and each loop of the program begins with `list_reset`, and none runs inside another over the
same list, so that the one cursor of a list is not state.

`pc` is the stage of `read_config` or `init` that the main thread is in, `caller` who called.
Every stage may fail, and `Fails` is what the callers do then: `get_config` gives up,
`reconfig` and `-p` go on.  `Reread` keeps what `reconfig` keeps: the pool, the inverter, the
capabilities, the dirty bit.  `Truncate` and `WriteOut` are two steps, with a crash or a
full disk in between.  `Edit` is the operator, at the stages that look at the file.  A
crash and another start with any command line may come at any time.

## 3. Runs

| run | instance | what it shows |
|---|---|---|
| `pool` | 1 slot, 3 threads, 2 items, signals late, any order of calls | mutual exclusion of the old and the new thread of a slot; only a thread that is about to end works beside the slot's own |
| `packs` | 2 packs, 2 slots, 4 threads, signals in effect when `worker_killbusy` returns | what the control loop relies on after a round, and the refinement of `UpdateRound` |
| `packs_timely` | 2 packs, 2 slots, every read returns | no update is lost, rounds recur |
| `loop` | 1 pack with 2 probes, inverter, 9 readings | the commands agree with charge state, limits and critical state |
| `loop_packs` | 2 packs with 2 probes each, inverter, 5 readings, charge at maximum voltage | capacity, freezing, the end of constant voltage |
| `link` | 2 ids that are needed, 1 that is not, 2 tries | session closed, values of this pass, the loop returns |
| `session` | 10 pairs of driver and transport, 3 pieces on the line, 2 or 3 tries, 2 monitors of 4 cells for a pack of 5 | no connection kept, answers belong to their requests and their update, cells in place, updates end |
| `config` | 37 files of up to 14 lines, 3 command lines | the file is read as it says and written back without loss, UUIDs are kept, lists and pool fit |
| `packs_kill`, `loop_crithigh`, `loop_signal`, `session_pipe` | the smallest that suffices | the disagreements of section 6: TLC finds the property violated |

Why the bounds are enough.  In the pool, slots interact only through the caller; one slot has
every race between a thread, its successor and the caller, two slots add that the caller is
busy with another one.  Three threads per slot are needed for an old one that lingers, one that
owns an abandoned mutex and a new one; with `Prompt` two per slot.  Two packs are the least for
which a round is part done.  In the loop, the readings take every comparison of the scan and of
`charge_check` both ways (`MCControlLoop` names them); two ticks per pass against three ticks
of constant voltage make it end between passes and in them; two divisions by four show the
repeated one.  A float voltage of 7.16 V and a maximum of 7.30 V let a raise overstep it.  Two
probes are the least for which a sum is not a mean.  One pack and one inverter give all four
combinations of reporting; the second pack adds passes in which some report.

On the link, ids differ only in whether `si_read` looks at the result: two that matter give a
first and a next one, the third is both the unseen and the last; with two tries an id can be
missed once and found, or given up.

In a session, two requests give an answer to an earlier request of the same update and one to
an earlier update; three pieces hold an answer and a half, so that every cut of two answers
that meet can be read.  `jbd_rw` has three tries (an answer to the first can be read at the
second, with one to go), the others two: a first and a last.  `s->data` of `bt.c` takes two
pieces where three can be on the line, so that it overruns.  Two monitors of four cells,
asked in two frames each, for a pack of five: a full frame and one that ends a monitor; the
count is reached with the second monitor's first cell, or later when a frame or a mark was
missing.

The files of `config` are none, one and two packs with an inverter, a section that is cut off,
one that comes twice, and one pack with each of eight kinds of line at each place: blank
lines, both remarks, a UUID, an empty one, a type that does not exist, the value of a line
without "=", a second header.  The command lines are the file alone, the file with `-i` and `-p`,
`-p` alone.

Symmetry (threads, and items of the bare pool) is used only in runs of invariants and
properties about single steps: their specifications treat all threads alike.  Liveness is
checked without it.  Deadlock is not checked in `pool`, `packs` and `packs_kill`, because the system can really get stuck there: a thread that is killed with
the mutex locked stops the caller for ever (that is `packs_kill`).  Everywhere else it is
checked; a daemon that a signal has ended stutters (`Ended`).

## 4. Fairness

`PackUpdate`: main gets on and obtains a mutex that is free again and again (strong fairness:
it sleeps 100 us between its polls, so the worker always gets out of its critical section; the
same for workers' locks, since main's sections are short); every step of a worker that can be
taken is taken (weak); the time limit of `worker_wait` passes; with `Timely`, a read returns.
Nothing is assumed about a read that is not timely, about spurious wakeups or about which way a
read or an open turns out.  A signal sent is handled (Die is among the weakly fair steps).  No
time is assumed for it there but what `Prompt` says.  `ControlLoop`: main runs (weak fairness
of its steps).  Nothing is assumed about who reports: `SaturationEnds` has "something reports
again and again" as its hypothesis, for with nobody reporting `charge_check` is never called.
`InverterLink`: the control loop runs inside a pass (weak fairness of `InPass`); nothing is
assumed about the receiving thread or the bus, nor about how long main sleeps between two
passes.  `BmsSession`: the thread that updates runs (weak fairness of `Program`, its steps);
nothing is assumed of the far end, the peer, the callback or the kills.  `UpdateReturns` is
therefore not about `jbd.c` over a CAN bus: there `can_read` waits without a time limit.
(`ReadFrame`, `ReadHollow` are always possible in the model, but the code ensures neither.)
`Reconfig` has safety properties only, and no fairness.

## 5. Proofs

All for any number of slots, threads, items, packs, and any battery, readings and limits
that satisfy the named ASSUMEs.

*WorkerPoolProofs.*  `TypeInv` strengthens `TypeOK` with what ties the caller's place to its
variables (its index is a slot's wherever it indexes).  `LockInv` says that a thread at a place
between lock and unlock is the one recorded in its slot's mutex; mutual exclusion follows.
`OneWorkerPerSlot` is not inductive: when a slot is re-created it depends on what the signal
has done to the old thread.  `OwnInv` adds that: a slot that has KILL set, or whose KILL is
about to be set or which is about to be re-created, has a thread that has ended or that its
signal is on the way to (`Doomed`); what a thread is about to store in the flags is a part of
what is there, and what the caller is about to store is all of it (`FlagWrites`: so a store may
bring BUSY back or take KILL away, and nothing else); no thread is in two slots (`Distinct`).
`KillInv` follows the two loops of `worker_killbusy`: slots behind the cursor of the first are
not busy or have KILL set, slots behind the cursor of the second have no flag, and every slot
has a running thread that no signal is on its way to, or is to be replaced, or is one whose
KILL was lost.  None of these needs an assumption on the time of signals.

`PromptInv` is for what does: no signal is outstanding outside of `worker_killbusy`, and a
thread that was replaced while it was still under way is the only such one of its slot, which
is not used before that thread is gone.  `PoolBusyWhileWorking` follows.

*PackUpdateProofs.*  `PacksUseThePool` shows that every behaviour of the rounds is one of the
pool, which gives the pool's theorems for free.  `InStep` ties `step` to the pool function
the main thread is in; `Idle` says that from the return of `worker_killbusy` to the next
`worker_exec` no slot has a flag.  These two, one worker per slot and the pool that can serve again
(`PoolIsReady`) need nothing of signals.  From here on `Prompt` is a hypothesis of the
theorems.  Quiescence follows, since a thread inside `pack_update` that no signal is on its way
to keeps its slot BUSY.  `BodyInv` places the thread inside `pack_update` (`body`) at "run",
with an item; closed sessions follow from quiescence and from the closing loop's progress
(`ClosedSoFar`).

`ItemsInv` is the account of the items, from which marks that are fresh and updates that happen
once follow.  A slot holds its item (`Held`) while it is busy, while any thread works on it,
and while the caller is about to store back a BUSY that the thread has cleared.  No two slots
hold the same pack (`OwnItem`), none holds a pack that is still to be handed out (`Handed`),
threads run their slot's item (`RunsArg`), and what the update of a busy slot's pack has come
to is what the place of its thread says, unless a signal is on its way to it (`Accounted`).

The refinement (`PacksImplementRound`: initial states and every step).  `UpdateRound`'s
variable for the packs under way is a function of the whole state: the items of the slots whose
threads serve them (`Serving`, `Underway`), of which a step changes one.  Each step then is a
step of `UpdateRound` or changes nothing of it.

`NoneIsLost` has `Timely` as its hypothesis, as the property's run, and no assumption on
signals: none is sent.  `Calm` says so, and that what `worker_wait` has seen idle stays so, since
nobody hands out a pack meanwhile; `Kept` that a pack that has been handed out has an outcome
or is still in a busy slot.

*ControlLoopProofs.*  `LoopInv` has three parts: `Sound(conf)`, about the fields of `conf`
(idle means trickle and float voltage; charging means capacity; a voltage above the float
voltage means constant current, and the maximum above it too), which each operator of `Battery`
preserves by a lemma of its own; `InTime`, about the constant-voltage phase between `Check` and
the end of the pass; `Critical`, about the critical state after the scan.  `VoltageBounded` has
no hypothesis on the configured voltages: a raise needs a maximum above the voltage it starts
from, and is cut down to it.  `ColdInv` is for `FreezingEnds`: while no probe is above 0
degrees, the sum that main makes of them is not either, however many there are, nor is what it
divides that by.

*InverterLinkProofs.*  `TypeInv` adds to the types that a frame about to set its bit has an
id with a message.  `SessionInv` says at which places of the control loop the session is open:
`si_close` does its work because nothing between `si_open` and it clears the flag.  `FreshInv`
says that, unless `muted`, every bit set belongs to a message of this pass, and so does a frame
on its way; and that with the session closed and `noticed`, no bit is set and no frame is on its
way, which is what a pass that is not `muted` starts from.

*BmsSessionProofs.*  `SessionInv`: while no driver's read is under way, none has noted its
session as open, and between two updates there is no connection, or it is one of `preh.c` or
`si.c` whose open failed.  It is inductive because the closing loop closes every pack, whatever
became of its update, which is the argument.  `MadeUpInv` says that over `can_ip` these
drivers get past the request they cannot do without only by a frame that was not received.
Each module that `BmsSession` composes has one lemma: what its steps leave alone, and from where to
where they go (`TransportStep`, `JbdStep`, `JkStep`, `RemoteStep`, `PrehStep`).

*BmsAnswersProofs.*  `TypeInv` needs some more than types: that the index `getdata` works out
is one in the buffer (`VoltsFound`), and that an answer is taken only while one is asked for.
`WalkInv` and `FillInv` follow `preh_read` through the monitors.  At the frame it looks at, the
cells written come from the frames before it, in their order; after the pack's count is reached
each monitor adds one at the most; and when no frame and no mark was missing they are exactly
the first places.  `CellsPlaced` has a hypothesis, `EnoughCells`: the monitors together have
the cells of the pack, and no monitor has more than the frames asked for hold.  It is how a
pack is wired; with fewer there are cells that nobody reports.  That `preh_read` then writes
them all is what is proved.

Nothing in an answer says to what it is one, so the theorems on answers are about order.
`LineInv`: a line other than the serial one holds nothing of an earlier session.
`OrderInv`: as long as no request crossed an earlier answer, what is on the line, in the buffer
of `bt.c` (with the callback at any of its points) and in that of the read are pieces of one
answer, in order.  `BufferInv` is the same for frames, `TakenInv` for what was accepted.  With
these `AnswersTheirs` and `AnswersFresh` hold for any number of tries and sizes of buffers.

*CfgFileProofs.*  `cfg_read` is a fold over the lines, and what it computes is proved for any
lines.  `BoundedInduction` (from the well-foundedness of strict inclusion) does induction for
sets of numbers up to a bound, which is all that a sequence needs.  The fold is taken apart into
the state after each line (`Reads`); `Faithful` says that after each line what is in memory is
what the lines so far say; `ReadsTheFile` follows.  `FileReadBack` goes the other way: the lines
of an item are read as that item, those of a section as that section, those of the file as the
configuration that was written.  It needs `Tidy` (names in upper case, no name twice), which
`cfg_read` and `cfg_set_item` preserve.  `SetsItem` says that `cfg_set_item` changes one item
and no other.

*ReconfigProofs.*  `SlotInv`: from the creation of the pool until the next read the list is no
longer than the pool, unless a read failed.  `OnceInv`: without `-p`, while `pack_init` is at
section `n` each listed pack has the name of an earlier section, and no two the same; that
`reconfig` destroys the list before is what makes it inductive.  `MemoryInv` keeps the
configuration tidy, which gives `ReadFaithfully` and `WriteReadBack`.  `KeepsInv` compares
memory with the file read, from reading to writing: only devices without a UUID get one
(`WriteKeeps`).  `ReadingInv` and `SavedInv` are two halves of one argument: until the file is
written, the devices' UUIDs are those in memory (and those in the file, if nothing was
added); once it has been written, or did not have to be, they are those in the file
(`UuidsSaved`).  `CountInv` bounds the list and the pool (`ConfTypeCorrect`).

What the constants are assumed to be: texts are strings other than the mark for "none"; upper
case is a fixed point of `Upper`, and the names the code looks for have the upper-case form
that `toupper` gives them; the UUIDs in files are among those that there are; the numbered
sections `pack_01` and so on have different names.  None of it speaks of the order, number or
contents of lines.

Only checked by TLC are the four liveness properties: `RoundsRecur`, `SaturationEnds`,
`InverterReturns` and `UpdateReturns`.  The prover has no ENABLED, so nothing that rests on
fairness can be proved with it.

## 6. Where code and comments disagree

Each is a run that TLC ends with a counterexample, listed under "findings".

1. *A killed thread can stop the daemon* (`packs_kill`).  It may hold its slot's mutex when
   the signal arrives; `worker_killbusy` then waits for that mutex for ever.
2. *The critical cell voltage is replaced by 9.9 V* at the start of each round
   (`loop_crithigh`), so that no cell reaches it.
3. *A SIGUSR1 during a re-read is lost* (`loop_signal`).
4. *SIGPIPE is not ignored by the pool's first threads* (`session_pipe`): it is blocked after
   they were created.

Smaller ones, seen while modelling and kept in the model as they are.

*Rounds and pool.*  A thread that handles its signal late may open a session after the loop
"Make sure all closed" (`pack.c:256`); that holds only with `Prompt`.  `flags |= FLAG_KILL` may
bring back the BUSY that the thread has just cleared, and the thread may then begin the same update
again before its signal arrives.  The thread's store of the flags, read before KILL was set,
may take KILL away: the slot then keeps a thread that has ended, the pack that the next round
hands to it is not updated, and the slot is re-created when that round kills it again
(`worker.c:169` against `286`; the exception in `PoolReadyAfterKill`).

*Controller and loop.* The SoC of 101 that goes with a critical cell is overwritten at
`main.c:361`; a charge is started at 0 degrees, because the temperature is looked at only while
a charge is under way (`battery.c:125`, `178`); `charge_max_voltage` of the configuration is
used only if `charge_voltage` is given too, and is -1, below any voltage sent, if
`charge_voltage` is given without it (`battery.c:50`; then the voltage is never raised, and
with `charge_at_max` a charge is started at -1 V); "reduce charge rate by 1/4" divides by 4 and
does so in every pass again (`battery.c:132`); the probes of a pack are added instead of
averaged (`main.c:274`), so that two probes at 4 degrees are not cold, and two at 25 degrees
are 50; a critical-low cell has no effect but the state bit; when no pack reports at all the
critical state is cleared as if all cells were in range; the capacity of option `-b` is
replaced by `battery_init`; the inverter's temperature is always 25.

*Link to the inverter* (the two exceptions in `StaleOnlyIfMuted`).  When the bus falls silent
the thread stays in `read()`, the bits stay set, and a dead inverter is reported as UPDATED
with its last values for ever; so it is, for a pass, when the thread does not look between two
passes; a failed read is stored as a frame.  A failed `si_write` is not
noticed (`inverter.c:114` looks for a negative value; `si_write` returns 0 or 1, and takes the
eight bytes written for a failure in its last frame, `si.c:291`).

*Transports.*  A connect that fails leaves its descriptor in the handle of `can_ip.c` (`126`), and
the next open takes it for a session; `bt.c:98-99` keeps a connection it has given back.
`preh_close` and `si_close` leave alone a transport whose open failed, or was killed before
`info->open` was set (the exception in `NoSessionKept`).

*Drivers.*  The register in an answer is not compared (`jbd.c:55`), `jk.c` has no checksum, and
`jbd_can_get` accepts a checksum of 0.  Both branches of `jbd.c:364` set DISCHARGING.  A
`jk_read` that gets its cells at the last try returns failure (`jk.c:203`); so does
`si_get_remote_can_data` (`si.c:106`).  A frame over `can_ip` is at most eight bytes
(`can_ip.c:184`) where `preh.c` and `si.c` want sixteen, so that only one that was never
received is accepted (`RemoteUpdatesAreMadeUp`).  A missing frame of `preh.c` moves the cells
after it (`preh.c:251`), and so does a cell under 256 mV or from 4.096 to 4.351 V, whose mark reads
zero (`252`); each monitor after the count is reached writes one more cell; with no
valid probe the temperature is 0/0 (`preh.c:244`).

*Configuration.*  A pack without charge control hides that it has no discharge control either
(`else if`, `pack.c:398`); capabilities are never taken back.  `-p` calls `pack_init` a second
time, so that the file's packs are listed twice (`main.c:166`), and after a re-read the pack of
`-p` is gone.  A re-read that fails midway leaves packs with the old pool, which may have fewer
slots (`worker.c:200` waits then); the inverter stays the old one.  Pools, threads and handles
that are replaced are never freed.  A key without a default that is no longer in the file
keeps its old value.  A UUID that was generated before `pack_init` failed is not saved.
`cfg_write`'s result is not looked at, the file is cut to nothing first, and what the operator
saved since it was read is overwritten.  Remarks at the end and lines outside of a section are
lost, and a `#` remark becomes `;#`.  A line without `=` gets for a value what follows in memory
(`cfg.c:496`).  The module loader does not compare the type of a module it has just looked up.

## 7. Not modelled, and the plan

Next, in this order:

1. An abstract specification of an update that `BmsSession` implements, and by which
   `PackUpdate`'s body can be replaced; proved with `SessionInv` and `TakenInv`.
2. New parameters in a charge: `ControlLoop` with the values that `Reconfig` reads.
3. The safety half of the liveness arguments: for each of the four, a measure that every step
   of the component lowers or keeps, as an action property with a theorem.

Not planned: option parsing, logging, conversions for display, MQTT reports (`mqtt.c`: nothing
depends on them), functions without a caller (`worker_finish`, `worker_kill`, `worker_cancel`,
`worker_destroy_pool`, `list_dup`, `list_add_list`, `list_sort`, `mybmm_get_module`, the typed
variants of `cfg_get_item`), the decoding of values out of frames, and vendored libraries
(`parson.c`, `uuid.c`, `can.c` 63-742).
