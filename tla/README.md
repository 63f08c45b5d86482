# Verification of rcpud

TLA+ models, model-checking configurations and machine-checked proofs for
rcpud: a daemon that lets a 9front terminal log in to a Linux machine with
`rcpu`, with a file tree of shell agents (`/gortns`), a terminal program for
such agents (`l9term`) and a server for the graphical protocol (`drawsrv`).
Everything here is translated from the Go source; line numbers are in
`PROJECT.json` under `map`.

1. [The system](#1-the-system)
2. [The modules](#2-the-modules)
3. [The runs](#3-the-runs)
4. [Fairness](#4-fairness)
5. [The proofs](#5-the-proofs)
6. [Where the code and its words disagree](#6-where-the-code-and-its-words-disagree)
7. [What is not modelled](#7-what-is-not-modelled)
8. [Plan](#8-plan)
9. [How to run it](#9-how-to-run-it)

## 1. The system

```
 9front client --tcp--> handleRcpu -- Negotiate, proxyAuth <--rpc--> factotum
      ^                   |            wrapTlsPsk, readClientEnv
      |                   v
      |                 9P client <-- 9pfuse (mount) <-- shell on a pty
      |                   |                                 ^
      +-- notes --> monitorNotes --> noteCh --> relayNotes --+ SIGINT

 9P clients --> /gortns: ctl, clone   --> GortnManager (gm.mu)
                /gortns/<id>: ctl,in,out,arg,status --> Gortn: goroutine `run`,
                                          outBuf + readers, commands and pumps
 wsysmsg clients --> drawsrv: one goroutine per connection --> uinput pointer
 scan codes -------> drawsrv: one goroutine per connection --> uinput keyboard
```

The components, the state each keeps, and what makes it correct:

| component | source | state | operations | correct means |
|---|---|---|---|---|
| agent output stream | `cmd/rcpud/gortns.go` | `outBuf`, `readers` (a cursor per fid), `closed`, the one-token channel `outWake` | `writeOut`, `openReader`, `closeReader`, `readOut`, the end of `run` | one append-only log; each fid reads it in order without gaps; the end is told last; nobody sleeps on data for ever |
| agent manager and lifecycle | `cmd/rcpud/gortns.go` | `gm.agents`, the directory under `/gortns`, `gm.mu`; per agent the channels `ctl` (8) and `stop` (0) and its goroutine | `Spawn`, `Remove`, writes to `ctl`, `arg`, `/gortns/ctl`; the command table | registry and directory agree; no dead or unreachable entry; no deadlock; a stopped agent goes away |
| agent command execution | `cmd/rcpud/gortns.go` | the child and its pipes, two output pumps, `g.in` (256), a stdin goroutine for every command there has been | `execCommand`, writes to `in` | all output comes to the log before the next command's; input in order, to one command only; the command's end is the call's end |
| authentication proxy | `cmd/rcpud/authproxy.go` | `buf`, how much of it is filled and asked for, `ai` | `fauthProxy`, `rpc`, `getInfo` | takes from the connection exactly the conversation; success only on factotum's word; cannot be kept busy |
| session | `cmd/rcpud/main.go` | per connection: what it acquired, the deferred releases, the shell's process, `noteCh` (4) | `handleRcpu`, `launchShell`, `monitorNotes`, `relayNotes` | the namespace is there as long as it is used; what it acquired is released; notes reach the right shell |
| console pipes | `cmd/rcpud/main.go` | both ends of the pty, a chunk and a line under way, the client's `/dev/cons` | `runShellPty`, `pipeConsToPty`, `pipePtyToCons`, `ansiRegexp`, `ProxyFile.Read` | the user sees the output without its escapes, the shell gets the lines; the goroutines end with the session |
| TLS-PSK connection | `cmd/rcpud/ssl_psk.go` | an OpenSSL object, a duplicated descriptor, locks | `wrapTlsPsk`, `Read`, `Write`, `Close` | no use after free; nothing blocked for ever |
| local mounts | `cmd/rcpud/mount.go` | open files by fid | `mountFile`'s `Open`, `Read`, `Write`, `Close` | a fid's file is its own; modes are respected |
| draw server | `drawsrv.go` (an older copy is `cmd/drawsrv`) | per connection the frame being read; the pointer device they share; per keyboard connection a buffer of four bytes; the keyboard device they share | `handleDraw`, the codec, `injectMove`, `injectMouse`, `handleKbd` | frames answered one for one; place in the stream kept; each device reports every event; keys that are down were pressed, unless a code came in pieces |
| l9term | `cmd/l9term/main.go` | `agentBuf` and a tab's agent, as in the daemon but with one lock | `Write`, `OpenRead`, `Read`, `runAgent`, files | as the output stream; "idle" means that all output is in, but what closing a pipe cut |
| o9draw, draw proxy, frame buffer, ticket conversion, SDL trials | see `PROJECT.json` | | | not modelled: section 7 |

Interaction is by Go channels and mutexes inside the daemon, by connections
and 9P at its edges; 9P requests reach the handlers on goroutines of the go9p
library, so handlers of one file may run at the same time.

What is hard here, and hard to test:

* **State read under one lock and used under another.** `readOut` reads a
  cursor under `readersMu`, copies from the buffer under `mu` and stores the
  new cursor under `readersMu` again; a clunk, a reopening or a second request
  may come between.
* **One token for many waiters.** `outWake` holds one wake-up; a 30 s timer is
  the only other thing that wakes a reader.
* **An unbuffered `stop` channel with several kinds of receivers** (the agent's
  goroutine, parked readers, stdin goroutines) and a non-blocking sender.
* **Calls back into the manager from an agent's own goroutine**: `spawn` and
  the deferred `Remove` want `gm.mu`, and the holder of `gm.mu` stops agents.
* **One step of many failing**: `handleRcpu` and
  `launchShell` have a dozen stages and defer their releases as they go.
* **Goroutines that outlive what they serve**: `relayNotes` after the shell's
  process id was reaped; stdin goroutines after their command; the console's
  output pump, in a system call that closing the pty does not interrupt.
* **Pipes closed under their readers**: `cmd.Wait` closes the child's pipes
  while a pump may be reading one or holding a piece of it.
* **Reads that return part of what was sent**: `drawsrv`'s length word and its
  scan codes, the proxy's phases, escape sequences cut by a read.

`PROJECT.json` lists each of these at its line under `hazards`, with the
properties that cover it or the reason why none does.

## 2. The modules

| module | models | its state ↔ the code's |
|---|---|---|
| `OutLog` | the promise of an output file, without locks, tokens or goroutines | `len`, `ended`: the log; `next[f]`, `slice[f]`: a fid's cursor and the last interval it was given |
| `AgentTable` | the promise of the manager, without a mutex: a table changed a whole call at a time | `table`, `idOf`, `stage[g]`: new, running, stopped, gone |
| `CommandLog` | the promise of an agent's log, without pipes or pumps: one command at a time begins, adds pieces, ends | `log`, `cmd`, `stage` |
| `GortnOut` | the output stream of a daemon's agent; implements `OutLog` | `outLen` = `outBuf.Len()`, `readers`, `closed`, `outWake`; `req[r]`, `off[r]`: where a request stands in `readOut` and its local offset; `run`, `pumps`, `writing`: who may write and whose wake-up is due |
| `Gortns` | manager, registry, lives of agents, `ctl` and `stop`; implements `AgentTable` | `agents`, `dirs`, `mu`; `op[t]`: the call a goroutine is in; `life`, `ctl`, `helpers` (stdin goroutines), `parked` (readers in the select) |
| `GortnExec` | one agent's commands: the child, its pipes, pumps, stdin goroutines and the in file; implements `CommandLog` | `phase`: where `execCommand` stands; `pump[c][s]`, `feeder[c]`: the goroutines of command c, which may outlive it; `piped`, `unread`: what is in the pipes; `log`: the command and the stream each piece of `outBuf` is from; `stdin[c]`: the lines c's stdin was given |
| `AuthProxy` | the conversation with factotum | `n`, `need`: how much of `buf` is filled and wanted; `consumed`/`arrived`: bytes taken off and sent on the connection; `taken`: accepted by factotum |
| `RcpuSession` | `handleRcpu` from accept to return, several at once | `stage`, `defers` (a stack), `held`, `procs` (the kernel's process ids), `monitor`, `notes`, `relay`; `fuse`: the 9pfuse process, which mounts, ends and dies in its own time; `mounted`: whether the kernel has it on nsDir; `reached`: whether `RemoveAll` went through it |
| `Console` | one session's terminal: the two pumps between the client's `/dev/cons` and the pty, the filter, others reading the same `/dev/cons` | `pty`, `taken`, `shown`: what the shell wrote, on its way and at the user's; `cons`, `line`, `input`: what the user typed; `slave`, `ptm`: the daemon's ends of the pty; `cuts`, `missed`: where a read ended inside a sequence, which writes failed |
| `L9Agent` | a tab of l9term; implements `OutLog` | as `GortnOut`, with one lock, plus `ctl`, `client`, and `state` as the status file shows it; `wrote`, `piped`, `held`, `put`, `cut`: where the pieces of the command's output are |
| `DrawWire` | `drawsrv.go`'s draw connections and pointer device | `sent`/`seen`/`cut`: frames sent, frames and bytes taken; `m`, `todo`: the request being served and the device events it still owes; `report`, `shown`: the device; `split`: a length word came in pieces, and what is read from then on are requests nobody made |
| `DrawKbd` | its keyboard connections and keyboard device | `stream`: bytes not yet read; `h`: `handleKbd`'s buffer, old bytes included; `pressed`, `synced`: the device |
| `DrawServer` | the process: `DrawWire` and `DrawKbd` side by side | the states of both |
| `GortnOutProofs`, `GortnsProofs`, `GortnExecProofs`, `AuthProxyProofs`, `RcpuSessionProofs`, `ConsoleProofs`, `L9AgentProofs`, `DrawServerProofs` | theorems about the module of that name (`DrawServer`'s: about both kinds of connection) | |
| `MC…` | constants for TLC | |

**Granularity.** A step is what other goroutines cannot see the inside of: one
critical section, one channel operation, one system call that can block or
fail. So `readOut` is three actions (`FetchOffset`, `ReadBuffer` and the select
with its outcomes), `writeOut` is two (`Append`, then `Wake` after the unlock),
and `Spawn` is `Lock`, `Register` and `Publish`, because the directory is
changed by a call of its own while `gm.mu` is held.

**Data.** Bytes are counted; a delivery is the interval of positions it was
copied from, which determines its content because buffers only grow. Commands
are kept as far as the code branches on them (`stop`, `exec`, `spawn`, and the
ones that only print). Text, numbers in device events and environment variables
are left out.

**Abstraction and refinement.** `GortnOut` and `L9Agent` both implement
`OutLog` (`Log == INSTANCE OutLog WITH …`; the property `ImplementsOutLog`).
They descend from the same idea but not from the same code: `GortnOut` promises
the log only to fids with one request at a time (`Solo`), because two requests
on a fid may both copy from the same cursor; `L9Agent`, whose single lock covers
the cursor too, promises it to every fid and is checked with two requests on
one.

`Gortns` implements `AgentTable`. A Spawn takes effect at `Register`, when the
map has the entry; the directory and the goroutine follow under the same lock,
so an agent counts as running although its goroutine is not started yet. A Remove
takes effect at `RemoveDelete`, except for the stop it sends, which is a step of
its own (`Stop`) of an agent that is still in the table. The Remove that an
agent defers is the agent's end, whether or not it finds an entry. `AgentTable`
does not say that taking an entry out stops the agent, because the code does not
do it (section 6). It contains that no Spawn takes the place of an agent
(`EntriesStay`) and that ids of the time are given once.

`GortnExec` implements `CommandLog`: a command begins with `ExecCommand`, each
`PumpWrites` is a piece, `Join` is its end, and all else is invisible: the
child, the pipes, and the goroutines that stay behind.
It says that the log is in order (`CommandsStayInOrder`), and also that
nothing is written between two commands or after the stop.

**Composition.** `DrawServer` is the conjunction of the two kinds of connection
of one process. The three views of a daemon's agent are cut along the state
they share. `Gortns` knows a command as a stay in `exec` and its stdin goroutines
as `helpers`, whose number is what a `stop` can go astray to; `GortnExec` opens
that stay up, down to the pipes; `GortnOut` knows it as the pumps that may write
to the stream. Each leaves the part that another has open to any behaviour: in
`GortnOut` a pump may end at any time, in `Gortns` a command may return at any
time, in `GortnExec` a command and a stop may come at any time the agent takes
one. Likewise `Console` is `RcpuSession` from a shell's start to the deferred
closes of its pty, and `AuthProxy` is what `ProxyAuth` does there.

**Mutants.** Every property has a mutated definition of the code beside the
original (for instance `openReaderKeepsCursor`, `JoinAtOnce`, `KillOnce`:
"Mutant:" in its comment) under which the run finds it violated. They are
listed in `PROJECT.json` and not used by any specification.

## 3. The runs

| run | instance | shows |
|---|---|---|
| `gortn_out` | 2 fids, one request each; f2 is used again (reopened, clunked) while its request is out; one pump; 3 bytes, writes of 1–2, counts up to 2 | `NoOverrun`, `EofMeansDrained`, `NoOutputAfterClose`, `ReadReturns`; `ImplementsOutLog` for f1 |
| `gortn_out_wake` | the same | `PromptWake` is **violated**: section 6 |
| `gortns` | 2 agents, 1 caller, 2 ids: one as the files make them, one that callers of `Spawn` give again at will; ctl of 1; the first agent is sent `stop`, `exec` and `spawn`, the second `exec` and `echo`; the first one's output has a reader | `NoZombie`, `DirMatches`, `OwnRemoval`, `OpsReturn`, `StoppedDies`, `CtlWriteReturns`; `ImplementsAgentTable` |
| `gortns_remove` | 1 agent that executes commands | `RemoveStops` is **violated** |
| `gortns_stop_verb` | 1 agent that is sent `stop` | `StopVerbStops` is **violated** |
| `gortn_exec` | 2 commands, 2 streams, 3 input lines, `in` of 2, pipes of 1; commands that read their input and commands that do not, that leave a process behind, that do not start | `OutputComplete`, `InputSafe`, `ExecReturns`; `ImplementsCommandLog` |
| `auth_proxy` | buffer of 4, overhead 1, 7 bytes on the wire | `WithinBuf`, `ExactWire`, `DoneIsAuthenticated`, `PhaseEnds` |
| `session` | 2 connections, 2 process ids, one client with a note file, `noteCh` of 1; one 9pfuse that may end by itself | `NamespaceServed`, `LeavesNothing`, `OwnGroup`, `NoteRelayed` |
| `session_signal` | the same, `noteCh` of 2 | `SignalsOwnShell` is **violated** |
| `console` | ESC, `[`, `P` in any order, 3 characters; 2 lines or ends of file; another reader of `/dev/cons` | `CleanUnlessCut`, `PumpsSafe` (every line in one place, the shell's in order; output read in order), `OutputArrives`, `OutputPumpEnds` |
| `l9_agent` | 1 fid with 2 requests, 1 pump, 1 writer of ctl, ctl of 1, a pipe of 1, 2 pieces of output in each command, 3 bytes in all | `ImplementsOutLog`, `TabSafe` (nothing after the end; idle means complete but for what a closed pipe held), `ReadReturns`, `CtlWriteReturns` |
| `draw_server` | 2 draw connections with 2 frames each, length word of 2 bytes, buffer of 4, one frame nobody sent after a split length word; 2 keyboards with 2 codes of 2 bytes each; any 2 of the four in use | `StreamSafe`, `RepliesMatch`, `PointerSafe`, `KeysFollow`, `KeysSafe`, `Answered` |

Types and capacities (channels, pipes, buffers) are checked with them: as
`TypeOK` in `session`, as `WithinBuf` in `auth_proxy`, as the first conjunct of
`InputSafe`, `PumpsSafe`, `TabSafe`, `StreamSafe` and `KeysSafe` elsewhere.
Those of `GortnOut` and `Gortns` are proved (`TypeCorrect` in `GortnOutProofs`, `Types`
in `GortnsProofs`). In `Console` the types
of what the filter computes are part of `CleanUnlessCut`.

**Why the bounds are enough.**

* *Output streams.* Three bytes with writes and counts of up to two give every
  relation of a cursor to the end: behind by more than a read, behind by one,
  level, and level while more is being written. Two requests are what a race
  for one token needs. `NoOverrun` and the others are proved for any number.
* *Manager.* Two agents let each be the parent, the victim and the remover of
  the other, while a third goroutine (a caller) holds or wants the mutex. The
  code's ctl capacity of 8 becomes 1: what matters is that it fills. `Spawn`
  takes any id, so one id (`i2`) may be given any number of times; the two files
  that spawn make theirs from the clock, so the other (`Minted`) is given once,
  and `OwnRemoval` is claimed of such ids. Each agent is sent the commands that
  differ in what they do to the manager (`SentTo`); the proofs take any
  commands to any agent, any number of callers and of ids.
* *Commands.* Two commands: a stale stdin goroutine and a late pump need a
  first and a second, and a third adds no kind of meeting. Three lines overfill
  `in`, and two keep a stdin goroutine waiting on a full pipe. One piece
  for each stream, with pipes of one, can lie in the pipe, be held by a pump or
  be in the log when the command ends.
* *Console.* ESC, `[` and `P` make the filter's hard cases: a sequence within a
  sequence, and one cut by a read. That the filter leaves out exactly the escape
  sequences (`StripIsText`, evaluated before the run) is checked for all strings
  of up to four of the eight kinds of characters that `ansiRegexp` tells apart,
  and proved for any (`StripLeavesText`). Two lines are what an order needs;
  `PumpsSafe` and `CleanUnlessCut` are proved for any number and any length.
* *Proxy.* A buffer of four with an overhead of one has every case: a demand
  within the buffer, one that fills it, one that is too large, and answers that
  fit one limit and not the other. Seven bytes are more than a phase can take.
* *Sessions.* Two, since a process id has to be given again for a signal to go
  astray. With a `noteCh` of one the second note keeps its sender waiting (the
  run that looks for a trace has two). One 9pfuse stays until it is
  killed and one may end by itself, before or after the kill, mounted or not.
* *Tabs.* A pipe of one holds a piece while the copier has another in hand: when
  `cmd.Run` closes it, there is one to be lost and one to be appended.
* *Draw server.* A length word of two bytes can arrive in two pieces (its four
  have no other kind of case), and so can a scan code; bodies of 1–4 bytes are
  cut anywhere; one frame is larger than the buffer; one position is cut short.
  Both draw connections can write device events (`Tmoveto`, `Tbouncemouse`), or
  one of them alone, which is what `PointerFollows` is about. What a server that lost
  its place takes for a frame is one of `Strays`, at most `MaxStrays` times: in the run a
  `Tmoveto`, the request that has events and a reply; the proofs take any. Codes are
  any bytes; the run has the press and the release of one key, and a code of no key
  (256 and more) with the byte that, alone, is that key's. `MaxUsed` leaves two connections in use at
  a time: two that draw, two keyboards, or one of each, every pair that can meet.

Deadlock is checked in `gortn_out`, where a client may always act. It is
switched off where the system really stops: connections end, proxies return,
shells exit, and writers of a full `ctl` of an agent that has ended wait for ever (section 6).

## 4. Fairness

Fairness is assumed of what the Go runtime and the kernel give, and of nobody
who uses the program:

* *Goroutines run*: WF of a goroutine's next step that needs nobody
  (`Locked`, `Run`, `Proxy`, `Unwind`, …).
* *Mutexes and channels are served in turn*: SF of `Lock` and `Send`. A Go
  mutex hands itself to a waiter that starves, and senders blocked on a channel
  queue first-come first-served.
* *Timers fire*: WF of `WaitTimeout` (the 30 s of `readOut`). `ReadReturns`
  rests on it; that it must is the finding about `PromptWake`.
* *Commands need not end*, in any module. `CtlWriteReturns` of `Gortns` and of
  `L9Agent` asks whether a ctl write can be kept waiting by anything else, and has as its
  premise that no command runs for ever (in `L9Agent`, that the agent comes back to
  its select).
* *A child that reads its input reads on, and ends at its end* (`GortnExec`):
  so a command like `cat` ends if its stdin is closed. Any other may run for ever,
  and so may what it leaves behind; `ExecReturns` has the child's exit as its
  premise and asks whether the daemon lets go of it.
* *The console's goroutines run, and the client answers its writes* (`Console`):
  WF of the output pump's next step. That a chunk arrives means that its write was
  answered; the answer may be an error. A user need not type, a shell need not exit.
* *factotum answers* (`AuthProxy`), and *what was sent on a connection arrives*
  (`DrawServer`). A client may stop sending, and does: `PhaseEnds` ends in
  `Waiting`.
* Clients, shells, users and 9pfuse owe nothing: 9pfuse may never mount, and never
  die of its kill.

## 5. The proofs

TLAPS checks the theorems for every value of the constants that the modules'
assumptions allow: any number of fids, requests, agents, ids, callers, sessions,
process ids, any buffer size.

**GortnOut** (`GortnOutProofs`). The invariant is `TypeOK`, `NoOverrun`,
`EofMeansDrained` with two parts that make it inductive: *WritersInv*, pumps
live only while a command is executed, a wake-up is due only to a living
writer, and `closed` says exactly that the goroutine is at its end (why nothing
is written afterwards); and *AnswerInv*, an unanswered request was not told of
an end. It does not say that an offset equals its cursor, which is false with
overlapping requests; that offsets never pass the end survives because the
buffer only grows. For the refinement of `OutLog` a second invariant is added,
*OneRequest*: on a fid with one request at a time the local offset is the cursor
while the buffer is read. From it every step of `GortnOut` is a step of
`OutLog` or a stutter. `NoLostWakeup` is `PromptWake` with one request as
hypothesis: the token is enough for one reader, and only for one.

**Gortns** (`GortnsProofs`). The properties speak of states in which nobody is
in the manager, or of the moment before a deletion; the invariant has to hold
in between. *Exclusive*: a thread is between Lock and Unlock exactly if it holds
`mu` — this is `MutualExclusion`, and it is needed for all the rest, since every
argument about an operation's second half assumes that the registry is as its
first half left it. *DirFollows*: the directory lacks at most the entry that a
Spawn is about to add. *LivesAgree*: a registered agent knows its id and is not
dead; an agent is in its handler of `spawn`, or in its deferred `Remove`,
exactly when its call is. *Found*: a Remove about to delete found something.
*IdsUnique*: an id that the files make belongs to one agent, also against
requests already under way, whatever ids callers of `Spawn` give. `Types` is the
module's type invariant but for the ctl queues' lengths and the number of stdin
goroutines, which no proof needs.
`ManagerIsATable` takes every step to one of `AgentTable` or to none: *IdsUnique*
is the guard of `Enter`, and *LivesAgree* says that the agent a Remove finds has
been entered, and that the Remove on an agent's own goroutine is its end.
Of the liveness properties the parts that are about single steps are proved:
`HoldersLetGo` (whoever holds `mu` is at most two steps of its own from its Unlock,
and nobody else moves it) for `OpsReturn`, and `StopsAreKept` (after a received stop
an agent's next step is the Remove of its own id, which ends it, with no entry left)
for `StoppedDies`. What fairness adds is that each of these steps is taken.

**AuthProxy** (`AuthProxyProofs`). `ExactWire` needs *PhaseInv*: at the start of
a phase's call, `buf` holds exactly what the last demand asked for; while it is
filled it lacks something; elsewhere it is empty. With it, what is consumed
outside a phase is exactly what factotum accepted (`NothingLeftOver`).
`PhasesAreBounded` is the step part of `PhaseEnds`: demands grow, each within `buf`,
so a number that is always a natural falls with every step inside a phase.

**RcpuSession** (`RcpuSessionProofs`). The property holds at the end of an
unwinding, so the invariant describes the deferred stack in the middle of it
(*StackInv*): by stage, which resources are held (*ByStage*); that everything
held, but what the code forgets, has its release on the stack (*Covered*); and
that the kill of 9pfuse lies above what 9pfuse depends on (*FuseOnServer*), which is
why the unwinding never takes the server away under one that was not told to die.
*FuseFacts* follows the process itself: it runs only while its kill is still to come;
the mount is there only from its start on; and `RemoveAll` went
through it only after the kill. More is not true (section 6).

**GortnExec** (`GortnExecProofs`). `CommandsInOrder` speaks of the log alone and
is not inductive: a pump of an earlier command that lived on would append behind
a later prompt. *PumpsInv* rules that out (a living pump is the last command's,
and `execCommand` has not joined it), *LogInv* that the log runs ahead. With
*PumpsInv* every step is one of `CommandLog` or a stutter (`CommandsFollow`).
`OutputComplete` is the moment of `execCommand`'s return in a sum that holds
throughout, stream by stream (*CountInv*): what the command wrote is in the log, in
a pump's hands, in the pipe, or was cut; *PipesInv* says when pipes are empty
and when nothing can have been cut. For the input, *OrderInv* puts what a command was given, what
its feeder holds, what is in the queue and what is yet to be written behind one
another, *ApartInv* keeps two commands' lines apart although their feeders take
from one queue, and *QueueInv* carries what was accepted before there was any
command up to the first one (`FirstCommandOwnsInput`). `JoinIsNear` is the step part
of `ExecReturns`: at `wg.Wait` every pipe is closed on our side, so that a pump has
at most its chunk to write and its error to see, even if a background process
keeps the other ends.

**Console** (`ConsoleProofs`). `NoLineLost` speaks of one long sequence, `ForShell`;
*LineInv* says the same of its parts, which is what a step changes: every line
is in one of five places, each ascends, and each comes before the next
(`JoinLines` takes it back together). Two facts are added: what others took comes before
all that is still in `cons`, or the next line taken could be out of order, and the
pump has a line exactly while it writes. The output is *OutInv*: what was written is
what was read, then what the pty holds, then what was lost with the master, which
is nothing while a descriptor or a read under way keeps the master.

`CleanUnlessCut` relates what was shown, from every read on until one ends inside
a sequence (`cuts`) or a write fails (`missed`), to what was read since: a cut
spoils what is shown until the next read, not the rest of the session.
*FilterInv* adds only that nothing is in the pump's hands unless it writes, and
where cuts can lie; the work is in what the filter computes, for strings of any length. `Strip`, which
rewrites from left to right, and `Text`, which asks of each character whether
an escape sequence covers it, are recursive functions: `StripIs` and `TextIs` prove
that they exist and satisfy their equations, and `Induction` is over the
naturals in the form the provers can use, of a set that contains 0 and with each n
the next. `MatchIsOne` and `MatchesAreApart` say that at a place only one sequence
begins and that two do not overlap: only because of this does a match that
`ReplaceAll` takes hide no other, and `Strip(s) = Text(s)` (`StripLeavesText`).
`MatchMoves` and `TextOfPieces` take it to reads: if no sequence crosses the
border of two strings, the text of both together is the one's text and the
other's. `OutputPumpIsEnding` is the step part of `OutputPumpEnds`: with the master
closed each step of the output pump lowers its rank, at most three of them.

**L9Agent** (`L9AgentProofs`). *AgentInv* (the loop does nothing while its own write is
under way, copiers live in a command only, the buffer is closed exactly when the
loop has left) and *PieceInv* (every piece of the command's output is in the buffer, in a
living copier's hands, in its pipe, or was cut with the pipe) carry `TabSafe`. With *CursorInv* every step is one of `OutLog`
or a stutter, for every fid and without the restriction to one request that
`GortnOut` needs: the cursor is read and moved under one lock.

**DrawServer** (`DrawServerProofs`). The two kinds of connection take steps apart, so
each has an invariant of its own. The draw connections' is built on *StreamInv* (where
a goroutine stands: at a frame's start, or inside a body it takes for what it is;
anywhere else only after a split length word) and *ServeInv* (without one, the
request being served is the last frame taken, and as many replies were given as
frames served; with one, at least as many as frames taken, since those before it
were answered). The device needs *TodoInv*, that a
synchronisation ends every series of events and is nowhere else; from it, when no client has more to tell the
device's report is empty (*SettleInv*), and a client that alone points finds its
events, in order, in the report and what is still to do, as long as no connection
has lost its place (*AloneInv*). For the keyboards,
*BytesInv* says that a byte that is not 0, in the stream or in a buffer with old
bytes in it, was sent on that connection, and *FollowInv* that of a keyboard whose
codes came whole some number was read and the stream holds exactly the bytes of the
others: so the number in its buffer is a code it sent, and only torn codes can
name a key that is but a byte of one (`NoGhostKeys`). Of a keyboard that is alone it says
too that the device was told of all that were read but for the one in hand;
`OneMoreCode` says what a code does to the keys that are down. `FramesAreServed` is
the step part of `Answered`: with each of its steps a goroutine replies, ends, or
has fewer to go, of at most `HdrLen + BufLen + 6`, and nobody else sets it back.

**What the theorems assume.** The named assumptions of the modules, and no other:
sizes and capacities are naturals (buffers and pipes not empty where the code
makes them so), requests are frames of the protocol, there is a tag, what
is read from a wrong place is some frame, codes are `CodeLen` bytes, no output stream has the prompt's name. TLC evaluates each of them in a run.

**Model-checked only.**

* All liveness (`ReadReturns`, `OpsReturn`, `StoppedDies`, `CtlWriteReturns`,
  `ExecReturns`, `PhaseEnds`, `NoteRelayed`, `OutputArrives`, `OutputPumpEnds`,
  `Answered`): fairness and ENABLED are beyond the prover. What six of them need of
  every single step is proved (`HoldersLetGo`, `StopsAreKept`, `JoinIsNear`,
  `PhasesAreBounded`, `OutputPumpIsEnding`, `FramesAreServed`); that the steps are taken is not.
* `ImplementsOutLog` of `GortnOut` for fids with several requests at a time is
  not claimed: it is false there.

## 6. Where the code and its words disagree

Four runs end in a violation, each of something the repository says:

| run | what is said | what happens |
|---|---|---|
| `gortn_out_wake` | "Wake anyone waiting for data" (`gortns.go:234`) | one token wakes one reader; the second sleeps up to 30 s on data that is there |
| `gortns_remove` | "Remove stops an agent and deletes its directory entry." (`gortns.go:68`) | `stopAgent` is a non-blocking send: an agent that runs a command misses it, and a reader or a stdin goroutine may take it instead; the agent lives on outside the registry |
| `gortns_stop_verb` | the loop's test expects a stopped agent to be removed (`gortns_test.go:275`) | the `stop` command is handled by the very goroutine that would have to receive; nothing happens |
| `session_signal` | "Delete -> SIGINT to shell's process group" (`main.go:471`) | nobody closes `noteCh`; the relay outlives the shell, and after the process id is reused a late note interrupts another session's shell |

Met while reading, and not the subject of a run:

* A write to `arg` is dropped silently when ctl is full, and the "arg:" prefix
  of the comment at `gortns.go:470` does not exist. `WriteArg` models the code.
* `CtlWriteReturns` excepts stopped agents because a write to the full ctl of
  an agent that has ended blocks for ever.
* stdio mode cannot work: `wrapTlsPsk` wants a `*net.TCPConn`, which the stdio
  connection is not.
* `getInfo` means to refuse an authinfo message that lacks a field, and tests for nil
  (`authproxy.go:133-140`); what it tests is never nil. A message cut short passes, and
  `ProxyAuth` succeeds without a secret. `DoneIsAuthenticated` says what the caller has.
* 9pfuse is killed at the end of a session, and neither waited for nor unmounted
  (`main.go:260-265`); `RemoveAll` of the mount point follows at once and may go
  through the live mount, into the files the client serves. The test unmounts first
  (`rcpud_test.go:62-66`). `NamespaceServed` says that it happens after the kill only;
  `LeavesNothing` excepts a mount point that something is still mounted on, and the
  process that nobody waits for.
* `session`'s `LeavesNothing` excepts `"tls"`: the duplicate descriptor under the
  TLS connection is not closed by any deferred release, so closing the connection
  at a session's end does not end it on the client's side.
* PLAN.md:28 says that Trdmouse and Trdkbd block until an event is there;
  `drawsrv.go` answers at once with an empty one.
* A length word that arrives in two pieces makes `drawsrv` lose its place,
  because it is read with one `Read`, where the body is read in a loop. It does not
  notice: it goes on and serves, with device events and replies, whatever it reads
  from there. `KeepsPlace` says that nothing else makes it lose its place, and
  `RepliesMatch` that what was taken before has its answers.
* A scan code that arrives in pieces is taken for other codes, with bytes of
  the last one in it, and shifts every code after it: a release can be lost, and
  the key stays down. It also stays down when its client goes away. A torn code
  can even press a key that nobody pressed: 0x1E00 is a code of no key and ignored,
  but less its first byte it is 30, the key A. `KeysFollow` is claimed of codes that
  arrive whole; `NoGhostKeys` excepts a key that is a byte of a torn client's code.
* The goroutine that feeds a command's stdin stays when the command ends
  (`gortns.go:303`): it takes lines meant for the next command, finds its pipe
  closed and loses them. So only the first command has all its input
  (`FirstCommandOwnsInput`); for the others `InputInOrder` is what holds.
* What lies in a pipe when `cmd.Run` closes it is lost (`gortns.go:334`, and
  package exec's own documentation forbids reading from the pipe across `Run`).
  `OutputComplete` subtracts it (`cut`), and says that nothing else is missing.
* An end of file on the console ends `pipeConsToPty` for ever, and the shell is
  not told: the session has no input from then on. `NoLineLost` says where the
  lines are then: in `cons`, where others may still ask for them.
* A process in the session's namespace that reads `/dev/cons` competes with the
  daemon's own pump for the user's lines; after the shell's end a line may still
  be taken by a pump and be lost (`dropped`).
* An escape sequence cut by a read, at most 4096 bytes long, shows on the
  terminal (`main.go:532`), and a chunk whose write fails is dropped without a word
  (`main.go:534`); `CleanUnlessCut` says that the rest is clean and complete.
* `l9term` closes the command's pipes under its copiers as the daemon does
  (`cmd/l9term/main.go:218`): its status file says idle, and some output is lost.
  `IdleMeansComplete` subtracts it.
* l9term's out file starts at the end of what was written, where its header
  comment says one reads the output; nobody sends on its stop channel.

## 7. What is not modelled

* The contents of messages, scripts, environments and listings; logging.
* Start-up and flags; `List` and the status file of the daemon (they read only).
* go9p, factotum, 9pfuse, OpenSSL, the pty driver, uinput: external, modelled
  by what the source expects of them (they may fail wherever a call can).
* `drawproxy.go`: nothing calls it. `fb.go` and `internal/fb`: one device read
  at an offset. `auth_drawterm.go`: a conversion in C nobody calls. The SDL
  trials under `o9draw/`.
* `drawsrv`'s screen capture and the creation of its devices: ioctls and one
  file read.
* The TLS wrapper (`ssl_psk.go`): its two locks keep reads from reads and writes
  from writes, and its only change of state is `Close`, which nothing in the
  repository calls. What a `SSL_read` beside a `SSL_write` may do is OpenSSL's.
  That nobody closes it is in `RcpuSession` (`LeavesNothing`).
* Local mounts (`mount.go`): a table of open files by fid, entered by `Open`,
  left by `Close`, used by `Read` and `Write`, each one step on the file system. What
  could go wrong is that requests on one file run in parallel, which go9p
  decides, and that read-write opens are read-only, a single test of a mask. The
  children of a directory are made anew for every walk, so their tables are not
  shared between clients.
* `o9draw`: one lock around a table of images; SDL does the rest. A model would
  be the two maps and a queue that drops the newest motion when it is full.
* In `Console`: sessions without `/dev/cons` (no pumps) and with `-no-strip` (no
  filter). In `L9Agent`: the in file, whose stdin goroutine is the daemon's
  without a stop; the prompt; output pipes that cannot be made. In `GortnExec`: a
  stdin pipe that cannot be made (a command without a feeder).

## 8. Plan

The order so far: the agents first (`GortnOut`, `Gortns`), as the part with most
concurrency, then the two halves of a connection (`AuthProxy`, `RcpuSession`),
then the two other programs (`L9Agent`, `DrawWire`), then what goes through
pipes: commands (`GortnExec`), the terminal (`Console`) and keyboards (`DrawKbd`,
composed in `DrawServer`).

Every safety property of the runs is proved for all values of the constants, the
four refinements included. What is left:

1. Refinements between the three views of an agent: a `GortnExec` command as the
   pumps of `GortnOut`, and as the stay in `exec` of `Gortns`.
2. The safety half of the other liveness properties, as the six of section 5:
   `CtlWriteReturns`, where an agent that has not ended makes room; `NoteRelayed`.

Then, if their code grows: `MountFile`, `o9draw`'s image table and mouse queue.

## 9. How to run it

```
tlc -workers 2 -config GortnOut.cfg MCGortnOut      # any of the .cfg files
tlapm GortnsProofs.tla                              # any of the *Proofs modules
```

The configuration `X.cfg` belongs to the module named with it under `runs` in
`PROJECT.json`. Most runs end within a minute or two on two cores; `session`,
`l9_agent` and `draw_server` take about three. The proofs take some ten minutes together.
