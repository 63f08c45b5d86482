---------------------------- MODULE RcpuSession ----------------------------
(***************************************************************************)
(* One daemon serving rcpu connections (cmd/rcpud/main.go): handleRcpu     *)
(* from accept to return, launchShell and its two ways of running a shell, *)
(* the deferred releases, and the two goroutines that carry interrupt      *)
(* notes from the client to the shell.                                     *)
(*                                                                         *)
(* Every step that can fail in the code may fail here.  The authentication *)
(* conversation is in AuthProxy.  Sessions share the machine's process     *)
(* ids and nothing else.  9pfuse is a process of its own: it mounts when   *)
(* it gets to it, may end by itself, and dies some time after it is killed.*)
(***************************************************************************)
EXTENDS Naturals, Sequences, SequencesExt

CONSTANTS
  Sessions,         \* connections
  NoteServers,      \* the sessions whose client serves a note file
  Unsteady,         \* the sessions whose 9pfuse may end by itself
  Pids,             \* process ids the kernel can give a shell
  NoteCap,          \* capacity of noteCh (4 in the code)
  None              \* no session

ASSUME NoteCapPositive == NoteCap \in Nat \ {0}
ASSUME NoteServersAreSessions == NoteServers \subseteq Sessions
ASSUME UnsteadyAreSessions == Unsteady \subseteq Sessions
ASSUME PidsExist == Pids # {}
ASSUME NoneIsNoSession == None \notin Sessions

VARIABLES
  stage,            \* stage[s]: where handleRcpu stands
  defers,           \* defers[s]: the releases deferred, the last one to run first
  held,             \* held[s]: what the session holds on to
  mode,             \* mode[s]: how the shell is run
  pid,              \* pid[s]: cmd.Process.Pid
  procs,            \* procs[p]: the session whose shell's group has id p
  monitor,          \* monitor[s]: the goroutine of monitorNotes, or the note it sends
  notes,            \* notes[s]: what is in noteCh, oldest first
  relay,            \* relay[s]: the goroutine of relayNotes
  fuse,             \* fuse[s]: the 9pfuse process; "gone" is ended, and never waited for
  mounted,          \* mounted[s]: whether the kernel has a mount on nsDir
  reached           \* reached[s]: history, RemoveAll(nsDir) went through a live mount

noteVars == <<monitor, notes, relay>>
procVars == <<pid, procs>>
fuseVars == <<fuse, mounted, reached>>
vars == <<stage, defers, held, mode, procVars, noteVars, fuseVars>>

Stages == {"listening", "negotiate", "auth", "tls", "env", "client", "serve",
           "fuse", "pty", "slave", "start", "direct", "running", "unwind", "done"}

(* Notes the relay serves ("interrupt" and "del"), and all others. *)
NoteKinds == {"interrupt", "other"}

(* What a session can hold: the connection, its TLS wrapping (a duplicate  *)
(* of the descriptor), the socket's directory, the listener, the mount     *)
(* point, the 9pfuse it has to kill, both ends of the pty, the console     *)
(* file.                                                                   *)
Resources == {"conn", "tls", "sockdir", "listener", "nsdir", "fuse",
              "ptym", "slave", "cons"}

Init ==
  /\ stage = [s \in Sessions |-> "listening"]
  /\ defers = [s \in Sessions |-> <<>>]
  /\ held = [s \in Sessions |-> {}]
  /\ mode = [s \in Sessions |-> "none"]
  /\ pid = [s \in Sessions |-> CHOOSE p \in Pids : TRUE]
  /\ procs = [p \in Pids |-> None]
  /\ monitor = [s \in Sessions |-> "none"]
  /\ notes = [s \in Sessions |-> <<>>]
  /\ relay = [s \in Sessions |-> "none"]
  /\ fuse = [s \in Sessions |-> "none"]
  /\ mounted = [s \in Sessions |-> FALSE]
  /\ reached = [s \in Sessions |-> FALSE]

-----------------------------------------------------------------------------
(* handleRcpu. *)

Goto(s, to) == stage' = [stage EXCEPT ![s] = to]

(* Any return: the deferred releases run. *)
Return(s) == Goto(s, "unwind")

Hold(s, new) == held' = [held EXCEPT ![s] = @ \union new]

(* The releases of rs are deferred in this order. *)
Defer(s, rs) == defers' = [defers EXCEPT ![s] = @ \o rs]

HoldsNoMore(s) == UNCHANGED <<held, defers>>

Accept(s) ==
  /\ stage[s] = "listening"
  /\ Hold(s, {"conn"})
  /\ Defer(s, <<"conn">>)
  /\ Goto(s, "negotiate")
  /\ UNCHANGED <<mode, procVars, noteVars, fuseVars>>

(* negotiateProtocol, proxyAuth, readClientEnv: they succeed or fail.      *)
Converse(s, from, to) ==
  /\ stage[s] = from
  /\ Goto(s, to) \/ Return(s)
  /\ HoldsNoMore(s)
  /\ UNCHANGED <<mode, procVars, noteVars, fuseVars>>

Negotiate(s)     == Converse(s, "negotiate", "auth")
ProxyAuth(s)     == Converse(s, "auth", "tls")
ReadClientEnv(s) == Converse(s, "env", "client")

(* Nobody defers a Close of the TLS connection. *)
WrapTls(s) ==
  /\ stage[s] = "tls"
  /\ \/ Hold(s, {"tls"}) /\ Goto(s, "env")
     \/ UNCHANGED held /\ Return(s)
  /\ UNCHANGED <<defers, mode, procVars, noteVars, fuseVars>>

(* The 9P client, the namespace, and the note watcher if the client serves *)
(* a note file.                                                            *)
New9PClient(s) ==
  /\ stage[s] = "client"
  /\ \/ /\ Goto(s, "serve")
        /\ monitor' = [monitor EXCEPT ![s] = IF s \in NoteServers THEN "reading" ELSE @]
     \/ /\ Return(s)
        /\ UNCHANGED monitor
  /\ HoldsNoMore(s)
  /\ UNCHANGED <<mode, procVars, notes, relay, fuseVars>>

(* The socket's directory is made first, and stays if Listen fails. *)
StartUnix9PServer(s) ==
  /\ stage[s] = "serve"
  /\ \/ /\ Hold(s, {"sockdir", "listener"})
        /\ Defer(s, <<"listener", "sockdir">>)
        /\ Goto(s, "fuse")
     \/ /\ Hold(s, {"sockdir"})
        /\ UNCHANGED defers
        /\ Return(s)
  /\ UNCHANGED <<mode, procVars, noteVars, fuseVars>>

StartFuse(s) ==
  /\ fuse' = [fuse EXCEPT ![s] = "running"]
  /\ UNCHANGED <<mounted, reached>>

(* Mutant: the mount point is removed under the running 9pfuse. *)
MountFUSESwapped(s) ==
  /\ stage[s] = "fuse"
  /\ Hold(s, {"nsdir", "fuse"})
  /\ Defer(s, <<"fuse", "nsdir">>)
  /\ StartFuse(s)
  /\ Goto(s, "pty")
  /\ UNCHANGED <<mode, procVars, noteVars>>

(* Mutant: 9pfuse is left running. *)
MountFUSENotKilled(s) ==
  /\ stage[s] = "fuse"
  /\ Hold(s, {"nsdir", "fuse"})
  /\ Defer(s, <<"nsdir">>)
  /\ StartFuse(s)
  /\ Goto(s, "pty")
  /\ UNCHANGED <<mode, procVars, noteVars>>

(* Likewise the mount point, if 9pfuse does not start. *)
MountFUSE(s) ==
  /\ stage[s] = "fuse"
  /\ \/ /\ Hold(s, {"nsdir", "fuse"})
        /\ Defer(s, <<"nsdir", "fuse">>)
        /\ StartFuse(s)
        /\ Goto(s, "pty")
     \/ /\ Hold(s, {"nsdir"})
        /\ UNCHANGED <<defers, fuseVars>>
        /\ Return(s)
  /\ UNCHANGED <<mode, procVars, noteVars>>

(* launchShell: a pty if there is one. *)
OpenPty(s) ==
  /\ stage[s] = "pty"
  /\ \/ /\ Hold(s, {"ptym"})
        /\ Defer(s, <<"ptym">>)
        /\ Goto(s, "slave")
     \/ /\ HoldsNoMore(s)
        /\ Goto(s, "direct")
  /\ UNCHANGED <<mode, procVars, noteVars, fuseVars>>

(* After five failures the pty is given up (and closed once more later). *)
OpenSlave(s) ==
  /\ stage[s] = "slave"
  /\ \/ /\ Hold(s, {"slave"})
        /\ Defer(s, <<"slave">>)
        /\ Goto(s, "start")
     \/ /\ held' = [held EXCEPT ![s] = @ \ {"ptym"}]
        /\ UNCHANGED defers
        /\ Goto(s, "direct")
  /\ UNCHANGED <<mode, procVars, noteVars, fuseVars>>

(* The shell leads a process group of its own; its id is free until the    *)
(* kernel gives it out, and again once the shell has been waited for.      *)
Spawned(s, p) ==
  /\ procs[p] = None
  /\ procs' = [procs EXCEPT ![p] = s]
  /\ pid' = [pid EXCEPT ![s] = p]

(* runShellPty. *)
StartShellPty(s) ==
  /\ stage[s] = "start"
  /\ mode' = [mode EXCEPT ![s] = "pty"]
  /\ \/ /\ \E p \in Pids : Spawned(s, p)
        /\ relay' = [relay EXCEPT ![s] = "waiting"]
        /\ Goto(s, "running")
     \/ /\ UNCHANGED <<procVars, relay>>
        /\ Return(s)
  /\ HoldsNoMore(s)
  /\ UNCHANGED <<monitor, notes, fuseVars>>

(* runShellDirect: no relay.  The console is opened through the mount,     *)
(* which may not be there yet, or no longer.                               *)
StartShellDirect(s) ==
  /\ stage[s] = "direct"
  /\ mode' = [mode EXCEPT ![s] = "direct"]
  /\ \/ /\ mounted[s] /\ fuse[s] = "running"
        /\ Hold(s, {"cons"})
        /\ Defer(s, <<"cons">>)
        /\ \/ (\E p \in Pids : Spawned(s, p)) /\ Goto(s, "running")
           \/ UNCHANGED procVars /\ Return(s)
     \/ /\ HoldsNoMore(s)
        /\ UNCHANGED procVars
        /\ Return(s)
  /\ UNCHANGED <<noteVars, fuseVars>>

(* Mutant: the shell is left for another to wait for. *)
WaitShellUnreaped(s) ==
  /\ stage[s] = "running"
  /\ Return(s)
  /\ HoldsNoMore(s)
  /\ UNCHANGED <<mode, procVars, noteVars, fuseVars>>

(* The shell exits and is waited for. *)
WaitShell(s) ==
  /\ stage[s] = "running"
  /\ procs' = [procs EXCEPT ![pid[s]] = None]
  /\ Return(s)
  /\ HoldsNoMore(s)
  /\ UNCHANGED <<mode, pid, noteVars, fuseVars>>

Drop(s, r) == held' = [held EXCEPT ![s] = @ \ {r}]

(* Process.Kill: a signal.  Nobody waits for 9pfuse, and nobody unmounts.  *)
KillFuse(s) ==
  /\ Drop(s, "fuse")
  /\ fuse' = [fuse EXCEPT ![s] = IF @ = "running" THEN "killed" ELSE @]
  /\ UNCHANGED <<mounted, reached>>

(* RemoveAll(nsDir), its error ignored: a mount point stays, and while its *)
(* 9pfuse lives RemoveAll has gone into the files served there.            *)
RemoveNsDir(s) ==
  /\ IF mounted[s] THEN UNCHANGED held ELSE Drop(s, "nsdir")
  /\ reached' = [reached EXCEPT ![s] = @ \/ (mounted[s] /\ fuse[s] # "gone")]
  /\ UNCHANGED <<fuse, mounted>>

(* Closing twice is harmless. *)
Release(s, r) ==
  \/ r = "fuse" /\ KillFuse(s)
  \/ r = "nsdir" /\ RemoveNsDir(s)
  \/ r \notin {"fuse", "nsdir"} /\ Drop(s, r) /\ UNCHANGED fuseVars

(* The deferred releases, last one first. *)
Unwind(s) ==
  /\ stage[s] = "unwind"
  /\ IF defers[s] = <<>>
       THEN Goto(s, "done") /\ HoldsNoMore(s) /\ UNCHANGED fuseVars
       ELSE LET k == Len(defers[s]) IN
            /\ Release(s, defers[s][k])
            /\ defers' = [defers EXCEPT ![s] = SubSeq(@, 1, k - 1)]
            /\ UNCHANGED stage
  /\ UNCHANGED <<mode, procVars, noteVars>>

-----------------------------------------------------------------------------
(* 9pfuse, which is not part of the repository. *)

(* It mounts some time after it was started. *)
FuseMounts(s) ==
  /\ fuse[s] \in {"running", "killed"}
  /\ ~mounted[s] /\ "nsdir" \in held[s]
  /\ mounted' = [mounted EXCEPT ![s] = TRUE]
  /\ UNCHANGED <<stage, defers, held, mode, procVars, noteVars, fuse, reached>>

(* It dies of the kill, which leaves its mount behind, or ends by itself,  *)
(* and may then unmount.                                                   *)
FuseEnds(s) ==
  /\ \/ fuse[s] = "killed" /\ UNCHANGED mounted
     \/ /\ fuse[s] = "running" /\ s \in Unsteady
        /\ UNCHANGED mounted \/ mounted' = [mounted EXCEPT ![s] = FALSE]
  /\ fuse' = [fuse EXCEPT ![s] = "gone"]
  /\ UNCHANGED <<stage, defers, held, mode, procVars, noteVars, reached>>

-----------------------------------------------------------------------------
(* Notes. *)

(* monitorNotes: ReadAt returns a note, or fails; the goroutine outlives   *)
(* handleRcpu for as long as the client's file does.                       *)
ReadNote(s) ==
  /\ monitor[s] = "reading"
  /\ \E m \in NoteKinds \union {"ended"} : monitor' = [monitor EXCEPT ![s] = m]
  /\ UNCHANGED <<stage, defers, held, mode, procVars, notes, relay, fuseVars>>

(* Mutant: noteCh never blocks its sender. *)
SendNoteUnbounded(s) ==
  /\ monitor[s] \in NoteKinds
  /\ notes' = [notes EXCEPT ![s] = Append(@, monitor[s])]
  /\ monitor' = [monitor EXCEPT ![s] = "reading"]
  /\ UNCHANGED <<stage, defers, held, mode, procVars, relay, fuseVars>>

SendNote(s) ==
  /\ monitor[s] \in NoteKinds
  /\ Len(notes[s]) < NoteCap
  /\ notes' = [notes EXCEPT ![s] = Append(@, monitor[s])]
  /\ monitor' = [monitor EXCEPT ![s] = "reading"]
  /\ UNCHANGED <<stage, defers, held, mode, procVars, relay, fuseVars>>

(* relayNotes: its range over noteCh never ends, because nobody closes it. *)
TakeNote(s) ==
  /\ relay[s] = "waiting"
  /\ notes[s] # <<>>
  /\ notes' = [notes EXCEPT ![s] = Tail(@)]
  /\ relay' = [relay EXCEPT ![s] = IF Head(notes[s]) = "interrupt" THEN "getpgid" ELSE @]
  /\ UNCHANGED <<stage, defers, held, mode, procVars, monitor, fuseVars>>

(* Getpgid fails when no process has the id. *)
Getpgid(s) ==
  /\ relay[s] = "getpgid"
  /\ relay' = [relay EXCEPT ![s] = IF procs[pid[s]] = None THEN "waiting" ELSE "kill"]
  /\ UNCHANGED <<stage, defers, held, mode, procVars, monitor, notes, fuseVars>>

(* Mutant: the relay serves one note. *)
KillOnce(s) ==
  /\ relay[s] = "kill"
  /\ relay' = [relay EXCEPT ![s] = "ended"]
  /\ UNCHANGED <<stage, defers, held, mode, procVars, monitor, notes, fuseVars>>

(* The signal; what a shell does with it is its business. *)
Kill(s) ==
  /\ relay[s] = "kill"
  /\ relay' = [relay EXCEPT ![s] = "waiting"]
  /\ UNCHANGED <<stage, defers, held, mode, procVars, monitor, notes, fuseVars>>

-----------------------------------------------------------------------------
Handshake(s) == Negotiate(s) \/ ProxyAuth(s) \/ WrapTls(s) \/ ReadClientEnv(s)

Setup(s) ==
  \/ New9PClient(s) \/ StartUnix9PServer(s) \/ MountFUSE(s)
  \/ OpenPty(s) \/ OpenSlave(s)
  \/ StartShellPty(s) \/ StartShellDirect(s)

Notes(s) == SendNote(s) \/ TakeNote(s) \/ Getpgid(s) \/ Kill(s)

Next ==
  \E s \in Sessions :
    \/ Accept(s) \/ Handshake(s) \/ Setup(s) \/ WaitShell(s) \/ Unwind(s)
    \/ FuseMounts(s) \/ FuseEnds(s)
    \/ ReadNote(s) \/ Notes(s)

Spec == Init /\ [][Next]_vars

(* The goroutines run.  Clients and 9pfuse owe nothing; a shell need not   *)
(* exit.                                                                   *)
FairSpec ==
  /\ Spec
  /\ \A s \in Sessions :
        /\ WF_vars(Unwind(s)) /\ WF_vars(Setup(s))
        /\ WF_vars(SendNote(s))
        /\ WF_vars(TakeNote(s) \/ Getpgid(s) \/ Kill(s))

-----------------------------------------------------------------------------
(* Properties. *)

(* Every variable keeps to its type; noteCh to its capacity. *)
TypeOK ==
  /\ stage \in [Sessions -> Stages]
  /\ defers \in [Sessions -> Seq(Resources)]
  /\ held \in [Sessions -> SUBSET Resources]
  /\ mode \in [Sessions -> {"none", "pty", "direct"}]
  /\ pid \in [Sessions -> Pids]
  /\ procs \in [Pids -> Sessions \union {None}]
  /\ monitor \in [Sessions -> {"none", "reading", "ended"} \union NoteKinds]
  /\ notes \in [Sessions -> Seq(NoteKinds)]
  /\ \A s \in Sessions : Len(notes[s]) <= NoteCap
  /\ relay \in [Sessions -> {"none", "waiting", "getpgid", "kill", "ended"}]
  /\ fuse \in [Sessions -> {"none", "running", "killed", "gone"}]
  /\ mounted \in [Sessions -> BOOLEAN]
  /\ reached \in [Sessions -> BOOLEAN]

(* A 9pfuse that nobody has told to die has its mount point and the server *)
(* it mounts, in the unwinding too; a running shell has its connection, its*)
(* terminal, and a 9pfuse that the daemon has not told to die (it may have *)
(* died by itself).  RemoveAll may go through the mount into the served    *)
(* files, since nobody unmounts or waits, but only in the time a 9pfuse    *)
(* already killed takes to die.                                            *)
NamespaceServed ==
  \A s \in Sessions :
    /\ fuse[s] = "running" => {"nsdir", "sockdir", "listener"} \subseteq held[s]
    /\ stage[s] = "running" =>
         /\ fuse[s] \in {"running", "gone"}
         /\ {"conn"} \union (IF mode[s] = "pty" THEN {"ptym", "slave"} ELSE {"cons"})
              \subseteq held[s]
    /\ reached[s] => fuse[s] \in {"killed", "gone"}

(* Of what a session that came as far as a shell acquired, whichever step  *)
(* failed, there is left: the duplicate descriptor under its TLS           *)
(* connection; the mount point, but only if something is mounted there; a  *)
(* 9pfuse that has ended or is dying of the kill, and that nobody waits    *)
(* for.  (The watcher and the relay live on too: see monitor and relay.)   *)
LeavesNothing ==
  \A s \in Sessions :
    stage[s] = "done" /\ mode[s] # "none" =>
      /\ held[s] \subseteq {"tls", "nsdir"}
      /\ "nsdir" \in held[s] => mounted[s]
      /\ fuse[s] # "running"

(* A shell that is waited for has given up its process id, and no two      *)
(* running shells have the same.                                           *)
OwnGroup ==
  \A s \in Sessions : stage[s] = "running" <=> procs[pid[s]] = s

(* An interrupt note that reached the daemon is turned into a signal while *)
(* a shell on a pty runs, however many notes came before it.               *)
NoteRelayed ==
  \A s \in Sessions :
    stage[s] = "running" /\ mode[s] = "pty" /\ Contains(notes[s], "interrupt")
      ~> relay[s] = "kill" \/ stage[s] # "running"

(* The comment at relayNotes' start: the signal goes to the shell's        *)
(* process group.                                                          *)
SignalsOwnShell ==
  \A s \in Sessions : relay[s] = "kill" => procs[pid[s]] \in {s, None}
=============================================================================
