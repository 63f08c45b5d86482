------------------------- MODULE RcpuSessionProofs -------------------------
(***************************************************************************)
(* Proofs about RcpuSession for any number of sessions and process ids.    *)
(***************************************************************************)
EXTENDS RcpuSession, SequenceTheorems, TLAPS

(* What a step of a session does to the releases it has deferred, and to   *)
(* what it holds: nothing, more of both, or one release less.              *)
LEMMA SeqTypes ==
  ASSUME NEW x \in Seq(Resources)
  PROVE  /\ Len(x) \in Nat
         /\ \A y \in Seq(Resources) :
              /\ x \o y \in Seq(Resources)
              /\ Len(x \o y) = Len(x) + Len(y)
              /\ \A i \in 1 .. Len(x) + Len(y) :
                   (x \o y)[i] = IF i <= Len(x) THEN x[i] ELSE y[i - Len(x)]
         /\ x # <<>> =>
              /\ Len(x) >= 1
              /\ x[Len(x)] \in Resources
              /\ SubSeq(x, 1, Len(x) - 1) \in Seq(Resources)
              /\ Len(SubSeq(x, 1, Len(x) - 1)) = Len(x) - 1
              /\ \A i \in 1 .. Len(x) - 1 : SubSeq(x, 1, Len(x) - 1)[i] = x[i]
  <1>1. Len(x) \in Nat
    OBVIOUS
  <1>2. ASSUME NEW y \in Seq(Resources)
        PROVE /\ x \o y \in Seq(Resources)
              /\ Len(x \o y) = Len(x) + Len(y)
              /\ \A i \in 1 .. Len(x) + Len(y) :
                   (x \o y)[i] = IF i <= Len(x) THEN x[i] ELSE y[i - Len(x)]
    OBVIOUS
  <1>3. ASSUME x # <<>>
        PROVE /\ Len(x) >= 1
              /\ x[Len(x)] \in Resources
              /\ SubSeq(x, 1, Len(x) - 1) \in Seq(Resources)
              /\ Len(SubSeq(x, 1, Len(x) - 1)) = Len(x) - 1
              /\ \A i \in 1 .. Len(x) - 1 : SubSeq(x, 1, Len(x) - 1)[i] = x[i]
    BY <1>3
  <1> QED
    BY <1>1, <1>2, <1>3

-----------------------------------------------------------------------------
(* Type correctness. *)

(* The stage, the deferred releases and what is held. *)
StackType ==
  /\ stage \in [Sessions -> Stages]
  /\ defers \in [Sessions -> Seq(Resources)]
  /\ held \in [Sessions -> SUBSET Resources]

(* Everything else. *)
RestType ==
  /\ mode \in [Sessions -> {"none", "pty", "direct"}]
  /\ pid \in [Sessions -> Pids]
  /\ procs \in [Pids -> Sessions \union {None}]
  /\ monitor \in [Sessions -> {"none", "reading", "ended"} \union NoteKinds]
  /\ notes \in [Sessions -> Seq(NoteKinds)]
  /\ \A s \in Sessions : Len(notes[s]) <= NoteCap
  /\ relay \in [Sessions -> {"none", "waiting", "getpgid", "kill", "ended"}]
  /\ fuse \in [Sessions -> {"none", "running", "killed", "gone"}]
  /\ mounted \in [Sessions -> BOOLEAN]
  /\ reached \in [Sessions -> BOOLEAN]

LEMMA TypeParts == TypeOK <=> StackType /\ RestType
  BY DEF TypeOK, StackType, RestType

LEMMA TypeInit == Init => TypeOK
  BY PidsExist, NoteCapPositive DEF Init, TypeOK, Stages

(* The building blocks of handleRcpu's steps keep the types. *)
LEMMA StageType ==
  ASSUME NEW s \in Sessions, NEW to \in Stages, StackType, Goto(s, to)
  PROVE  stage' \in [Sessions -> Stages]
  BY DEF StackType, Goto

LEMMA HoldType ==
  ASSUME NEW s \in Sessions, NEW new \in SUBSET Resources, StackType, Hold(s, new)
  PROVE  held' \in [Sessions -> SUBSET Resources]
  BY DEF StackType, Hold

LEMMA DeferType ==
  ASSUME NEW s \in Sessions, NEW rs \in Seq(Resources), StackType, Defer(s, rs)
  PROVE  defers' \in [Sessions -> Seq(Resources)]
  BY DEF StackType, Defer

LEMMA KeepType ==
  ASSUME StackType
  PROVE  /\ UNCHANGED held => held' \in [Sessions -> SUBSET Resources]
         /\ UNCHANGED defers => defers' \in [Sessions -> Seq(Resources)]
         /\ UNCHANGED stage => stage' \in [Sessions -> Stages]
  BY DEF StackType

(* Converse's three uses and WrapTls. *)
LEMMA HandshakeStackType ==
  ASSUME NEW s \in Sessions, StackType, Handshake(s)
  PROVE  StackType'
  <1>1. {"auth", "tls", "env", "client", "unwind"} \subseteq Stages
    BY DEF Stages
  <1>2. {"tls"} \in SUBSET Resources
    BY DEF Resources
  <1>3. stage' \in [Sessions -> Stages]
    BY <1>1, StageType DEF Handshake, Negotiate, ProxyAuth, ReadClientEnv, Converse, WrapTls, Return
  <1>4. held' \in [Sessions -> SUBSET Resources]
    BY <1>2, HoldType, KeepType
       DEF Handshake, Negotiate, ProxyAuth, ReadClientEnv, Converse, WrapTls, HoldsNoMore
  <1>5. defers' \in [Sessions -> Seq(Resources)]
    BY KeepType DEF Handshake, Negotiate, ProxyAuth, ReadClientEnv, Converse, WrapTls, HoldsNoMore
  <1> QED
    BY <1>3, <1>4, <1>5 DEF StackType

LEMMA SetupStackType ==
  ASSUME NEW s \in Sessions, StackType, Setup(s) \/ Accept(s)
  PROVE  StackType'
  <1> USE DEF Setup, Accept, New9PClient, StartUnix9PServer, MountFUSE, OpenPty, OpenSlave,
              StartShellPty, StartShellDirect
  <1>1. {"negotiate", "serve", "fuse", "pty", "slave", "start", "direct", "running", "unwind"}
          \subseteq Stages
    BY DEF Stages
  <1>2. /\ {"conn"} \in SUBSET Resources /\ {"sockdir"} \in SUBSET Resources
        /\ {"sockdir", "listener"} \in SUBSET Resources /\ {"nsdir"} \in SUBSET Resources
        /\ {"nsdir", "fuse"} \in SUBSET Resources /\ {"ptym"} \in SUBSET Resources
        /\ {"slave"} \in SUBSET Resources /\ {"cons"} \in SUBSET Resources
    BY DEF Resources
  <1>3. /\ <<"conn">> \in Seq(Resources) /\ <<"listener", "sockdir">> \in Seq(Resources)
        /\ <<"nsdir", "fuse">> \in Seq(Resources) /\ <<"ptym">> \in Seq(Resources)
        /\ <<"slave">> \in Seq(Resources) /\ <<"cons">> \in Seq(Resources)
    BY DEF Resources
  <1>4. stage' \in [Sessions -> Stages]
    BY <1>1, StageType DEF Return
  <1>5. held' \in [Sessions -> SUBSET Resources]
    <2>1. CASE held' = [held EXCEPT ![s] = @ \ {"ptym"}]
      BY <2>1 DEF StackType
    <2>2. CASE held' # [held EXCEPT ![s] = @ \ {"ptym"}]
      BY <1>2, <2>2, HoldType, KeepType DEF HoldsNoMore
    <2> QED
      BY <2>1, <2>2
  <1>6. defers' \in [Sessions -> Seq(Resources)]
    BY <1>3, DeferType, KeepType DEF HoldsNoMore
  <1> QED
    BY <1>4, <1>5, <1>6 DEF StackType

LEMMA UnwindStackType ==
  ASSUME NEW s \in Sessions, StackType, Unwind(s)
  PROVE  StackType'
  <1>1. {"done"} \subseteq Stages
    BY DEF Stages
  <1>2. CASE defers[s] = <<>>
    BY <1>1, <1>2, StageType, KeepType DEF Unwind, HoldsNoMore, StackType
  <1>3. CASE defers[s] # <<>>
    <2>1. SubSeq(defers[s], 1, Len(defers[s]) - 1) \in Seq(Resources)
      BY <1>3, SeqTypes DEF StackType
    <2>2. held' \in [Sessions -> SUBSET Resources]
      <3>1. UNCHANGED held \/ \E r : Drop(s, r)
        BY <1>3 DEF Unwind, Release, KillFuse, RemoveNsDir
      <3>2. ASSUME NEW r, Drop(s, r) PROVE held' \in [Sessions -> SUBSET Resources]
        BY <3>2 DEF Drop, StackType
      <3> QED
        BY <3>1, <3>2, KeepType
    <2>3. stage' = stage /\ defers' \in [Sessions -> Seq(Resources)]
      BY <1>3, <2>1 DEF Unwind, StackType
    <2> QED
      BY <2>2, <2>3 DEF StackType
  <1> QED
    BY <1>2, <1>3

LEMMA TypeNext == TypeOK /\ [Next]_vars => TypeOK'
  <1> SUFFICES ASSUME StackType, RestType, [Next]_vars PROVE StackType' /\ RestType'
    BY TypeParts, PTL
  <1> USE NoteCapPositive DEF NoteKinds, noteVars, procVars, fuseVars
  <1>1. ASSUME NEW s \in Sessions, Accept(s) PROVE StackType' /\ RestType'
    BY <1>1, SetupStackType DEF Accept, RestType
  <1>2. ASSUME NEW s \in Sessions, Handshake(s) PROVE StackType' /\ RestType'
    BY <1>2, HandshakeStackType
       DEF Handshake, Negotiate, ProxyAuth, ReadClientEnv, Converse, WrapTls, RestType
  <1>3. ASSUME NEW s \in Sessions, Setup(s) PROVE StackType' /\ RestType'
    <2>1. StackType'
      BY <1>3, SetupStackType
    <2>2. RestType'
      <3>1. CASE New9PClient(s)
        BY <3>1 DEF New9PClient, RestType
      <3>2. CASE StartUnix9PServer(s) \/ MountFUSE(s) \/ OpenPty(s) \/ OpenSlave(s)
        <4>1. CASE StartUnix9PServer(s) \/ OpenPty(s) \/ OpenSlave(s)
          <5>1. UNCHANGED <<mode, pid, procs, monitor, notes, relay, fuse, mounted, reached>>
            BY <4>1 DEF StartUnix9PServer, OpenPty, OpenSlave
          <5> QED
            BY <5>1 DEF RestType
        <4>2. CASE MountFUSE(s)
          <5>1. /\ UNCHANGED <<mode, pid, procs, monitor, notes, relay, mounted, reached>>
                /\ fuse' = fuse \/ fuse' = [fuse EXCEPT ![s] = "running"]
            BY <4>2 DEF MountFUSE, StartFuse
          <5> QED
            BY <5>1 DEF RestType
        <4> QED
          BY <3>2, <4>1, <4>2
      <3>3. CASE StartShellPty(s)
        <4>1. mode' = [mode EXCEPT ![s] = "pty"] /\ UNCHANGED <<monitor, notes, fuse, mounted, reached>>
          BY <3>3 DEF StartShellPty
        <4>2. /\ \/ UNCHANGED <<pid, procs>>
                 \/ \E p \in Pids : procs' = [procs EXCEPT ![p] = s] /\ pid' = [pid EXCEPT ![s] = p]
              /\ relay' = relay \/ relay' = [relay EXCEPT ![s] = "waiting"]
          BY <3>3 DEF StartShellPty, Spawned
        <4>3. /\ pid' \in [Sessions -> Pids] /\ procs' \in [Pids -> Sessions \union {None}]
              /\ relay' \in [Sessions -> {"none", "waiting", "getpgid", "kill", "ended"}]
          <5>1. /\ pid \in [Sessions -> Pids] /\ procs \in [Pids -> Sessions \union {None}]
                /\ relay \in [Sessions -> {"none", "waiting", "getpgid", "kill", "ended"}]
            BY DEF RestType
          <5>2. relay' \in [Sessions -> {"none", "waiting", "getpgid", "kill", "ended"}]
            BY <4>2, <5>1
          <5>3. pid' \in [Sessions -> Pids]
            BY <4>2, <5>1
          <5>4. procs' \in [Pids -> Sessions \union {None}]
            BY <4>2, <5>1
          <5> QED
            BY <5>2, <5>3, <5>4
        <4>4. mode' \in [Sessions -> {"none", "pty", "direct"}]
          BY <4>1 DEF RestType
        <4> QED
          BY <4>1, <4>3, <4>4 DEF RestType
      <3>4. CASE StartShellDirect(s)
        BY <3>4 DEF StartShellDirect, Spawned, RestType
      <3> QED
        BY <1>3, <3>1, <3>2, <3>3, <3>4 DEF Setup
    <2> QED
      BY <2>1, <2>2
  <1>4. ASSUME NEW s \in Sessions, WaitShell(s) PROVE StackType' /\ RestType'
    <2>1. {"unwind"} \subseteq Stages
      BY DEF Stages
    <2>2. StackType'
      BY <1>4, <2>1, StageType, KeepType DEF WaitShell, Return, HoldsNoMore, StackType
    <2>3. RestType'
      BY <1>4 DEF WaitShell, RestType
    <2> QED
      BY <2>2, <2>3
  <1>5. ASSUME NEW s \in Sessions, Unwind(s) PROVE StackType' /\ RestType'
    <2>1. StackType'
      BY <1>5, UnwindStackType
    <2>2. RestType'
      <3>1. UNCHANGED fuseVars \/ KillFuse(s) \/ RemoveNsDir(s)
        BY <1>5 DEF Unwind, Release
      <3>2. /\ fuse' \in [Sessions -> {"none", "running", "killed", "gone"}]
            /\ mounted' \in [Sessions -> BOOLEAN]
            /\ reached' \in [Sessions -> BOOLEAN]
        <4>1. CASE UNCHANGED fuseVars
          BY <4>1 DEF RestType
        <4>2. CASE KillFuse(s)
          BY <4>2 DEF KillFuse, RestType
        <4>3. CASE RemoveNsDir(s)
          BY <4>3 DEF RemoveNsDir, RestType
        <4> QED
          BY <3>1, <4>1, <4>2, <4>3
      <3>3. UNCHANGED <<mode, pid, procs, monitor, notes, relay>>
        BY <1>5 DEF Unwind
      <3> QED
        BY <3>2, <3>3 DEF RestType
    <2> QED
      BY <2>1, <2>2
  <1>6. ASSUME NEW s \in Sessions, ReadNote(s) \/ Notes(s) PROVE StackType' /\ RestType'
    <2>1. StackType'
      BY <1>6, KeepType DEF ReadNote, Notes, SendNote, TakeNote, Getpgid, Kill, StackType
    <2>2. CASE ReadNote(s)
      BY <2>1, <2>2 DEF ReadNote, RestType
    <2>3. CASE SendNote(s)
      BY <2>1, <2>3 DEF SendNote, RestType
    <2>4. CASE TakeNote(s)
      BY <2>1, <2>4 DEF TakeNote, RestType
    <2>5. CASE Getpgid(s) \/ Kill(s)
      BY <2>1, <2>5 DEF Getpgid, Kill, RestType
    <2> QED
      BY <1>6, <2>1, <2>2, <2>3, <2>4, <2>5 DEF Notes
  <1>7. ASSUME NEW s \in Sessions, FuseMounts(s) \/ FuseEnds(s) PROVE StackType' /\ RestType'
    <2>1. StackType'
      BY <1>7, KeepType DEF FuseMounts, FuseEnds, StackType
    <2>2. RestType'
      BY <1>7 DEF FuseMounts, FuseEnds, RestType
    <2> QED
      BY <2>1, <2>2
  <1>8. CASE UNCHANGED vars
    BY <1>8, KeepType DEF vars, RestType, StackType
  <1> QED
    BY <1>1, <1>2, <1>3, <1>4, <1>5, <1>6, <1>7, <1>8 DEF Next

(* Type correctness: noteCh, in particular, never holds more than it can.  *)
THEOREM TypeCorrect == Spec => []TypeOK
  <1> QED
    BY TypeInit, TypeNext, PTL DEF Spec

-----------------------------------------------------------------------------
(* Process groups. *)

(* A step that neither starts nor ends a shell. *)
LEMMA QuietGroup ==
  ASSUME NEW s \in Sessions, NEW to, TypeOK, OwnGroup,
         stage[s] # "running", to # "running", Goto(s, to), UNCHANGED procVars
  PROVE  OwnGroup'
  BY DEF TypeOK, OwnGroup, Goto, procVars

LEMMA StartGroup ==
  ASSUME NEW s \in Sessions, NEW p \in Pids, TypeOK, OwnGroup,
         stage[s] # "running", Spawned(s, p), Goto(s, "running")
  PROVE  OwnGroup'
  <1> SUFFICES ASSUME NEW t \in Sessions PROVE (stage[t] = "running" <=> procs[pid[t]] = t)'
    BY DEF OwnGroup
  <1>1. CASE t = s
    BY <1>1 DEF TypeOK, Goto, Spawned
  <1>2. CASE t # s
    <2>1. stage'[t] = stage[t] /\ pid'[t] = pid[t] /\ pid[t] \in Pids
      BY <1>2 DEF TypeOK, Goto, Spawned
    <2>2. CASE pid[t] = p
      <3>1. procs[pid[t]] # t /\ procs'[pid[t]] = s
        BY <2>2, NoneIsNoSession DEF TypeOK, Spawned
      <3> QED
        BY <1>2, <2>1, <3>1 DEF OwnGroup
    <2>3. CASE pid[t] # p
      BY <2>1, <2>3 DEF TypeOK, OwnGroup, Spawned
    <2> QED
      BY <2>2, <2>3
  <1> QED
    BY <1>1, <1>2

LEMMA OwnGroupNext == TypeOK /\ OwnGroup /\ [Next]_vars => OwnGroup'
  <1> SUFFICES ASSUME TypeOK, OwnGroup, [Next]_vars PROVE OwnGroup'
    OBVIOUS
  <1>1. ASSUME NEW s \in Sessions, Accept(s) PROVE OwnGroup'
    BY <1>1, QuietGroup DEF Accept
  <1>2. ASSUME NEW s \in Sessions, Handshake(s) PROVE OwnGroup'
    BY <1>2, QuietGroup
       DEF Handshake, Negotiate, ProxyAuth, ReadClientEnv, Converse, WrapTls, Return
  <1>3. ASSUME NEW s \in Sessions, Setup(s) PROVE OwnGroup'
    <2>1. CASE New9PClient(s) \/ StartUnix9PServer(s) \/ MountFUSE(s) \/ OpenPty(s) \/ OpenSlave(s)
      BY <2>1, QuietGroup
         DEF New9PClient, StartUnix9PServer, MountFUSE, OpenPty, OpenSlave, Return
    <2>2. CASE StartShellPty(s) \/ StartShellDirect(s)
      BY <2>2, QuietGroup, StartGroup DEF StartShellPty, StartShellDirect, Return
    <2> QED
      BY <1>3, <2>1, <2>2 DEF Setup
  <1>4. ASSUME NEW s \in Sessions, WaitShell(s) PROVE OwnGroup'
    <2> SUFFICES ASSUME NEW t \in Sessions PROVE (stage[t] = "running" <=> procs[pid[t]] = t)'
      BY DEF OwnGroup
    <2>1. procs[pid[s]] = s /\ pid[s] \in Pids /\ pid[t] \in Pids /\ pid' = pid
      BY <1>4 DEF WaitShell, OwnGroup, TypeOK
    <2>2. CASE t = s
      BY <1>4, <2>1, <2>2, NoneIsNoSession DEF WaitShell, Return, Goto, TypeOK
    <2>3. CASE t # s
      <3>1. stage'[t] = stage[t]
        BY <1>4, <2>3 DEF WaitShell, Return, Goto, TypeOK
      <3>2. CASE pid[t] = pid[s]
        BY <1>4, <2>1, <2>3, <3>1, <3>2, NoneIsNoSession DEF WaitShell, OwnGroup, TypeOK
      <3>3. CASE pid[t] # pid[s]
        BY <1>4, <2>1, <3>1, <3>3 DEF WaitShell, OwnGroup, TypeOK
      <3> QED
        BY <3>2, <3>3
    <2> QED
      BY <2>2, <2>3
  <1>5. ASSUME NEW s \in Sessions, Unwind(s) PROVE OwnGroup'
    <2>1. CASE defers[s] = <<>>
      BY <1>5, <2>1, QuietGroup DEF Unwind
    <2>2. CASE defers[s] # <<>>
      BY <1>5, <2>2 DEF Unwind, OwnGroup, procVars
    <2> QED
      BY <2>1, <2>2
  <1>6. ASSUME NEW s \in Sessions, ReadNote(s) \/ Notes(s) PROVE OwnGroup'
    BY <1>6 DEF ReadNote, Notes, SendNote, TakeNote, Getpgid, Kill, OwnGroup, procVars
  <1>7. ASSUME NEW s \in Sessions, FuseMounts(s) \/ FuseEnds(s) PROVE OwnGroup'
    BY <1>7 DEF FuseMounts, FuseEnds, OwnGroup, procVars
  <1>8. CASE UNCHANGED vars
    BY <1>8 DEF vars, procVars, OwnGroup
  <1> QED
    BY <1>1, <1>2, <1>3, <1>4, <1>5, <1>6, <1>7, <1>8 DEF Next

(* A session's process id is that of its shell for exactly as long as the  *)
(* shell has not been waited for: running shells never share a group, and  *)
(* a shell that was waited for has given its id back.                      *)
THEOREM GroupsAreOwn == Spec => []OwnGroup
  <1>1. Init => OwnGroup
    BY PidsExist, NoneIsNoSession DEF Init, OwnGroup
  <1> QED
    BY <1>1, TypeInit, TypeNext, OwnGroupNext, PTL DEF Spec

-----------------------------------------------------------------------------
(* The deferred releases. *)

Terminal == {"ptym", "slave", "cons"}

(* The release of r is deferred. *)
Deferred(s, r) == \E i \in 1 .. Len(defers[s]) : defers[s][i] = r

(* The five releases of handleRcpu lie under those of launchShell. *)
Bottom(s) ==
  /\ Len(defers[s]) >= 5
  /\ defers[s][1] = "conn" /\ defers[s][2] = "listener" /\ defers[s][3] = "sockdir"
  /\ defers[s][4] = "nsdir" /\ defers[s][5] = "fuse"
  /\ \A i \in 6 .. Len(defers[s]) : defers[s][i] \in Terminal

(* The releases deferred, and what is held, by stage. *)
Early == {"negotiate", "auth", "tls", "env", "client", "serve"}
Late  == {"pty", "slave", "start", "direct", "running"}

ByStage(s) ==
  /\ stage[s] = "listening" => defers[s] = <<>> /\ held[s] = {}
  /\ stage[s] \in Early =>
       defers[s] = <<"conn">> /\ "conn" \in held[s] /\ held[s] \subseteq {"conn", "tls"}
  /\ stage[s] = "fuse" =>
       /\ defers[s] = <<"conn", "listener", "sockdir">>
       /\ {"conn", "listener", "sockdir"} \subseteq held[s]
       /\ held[s] \subseteq {"conn", "listener", "sockdir", "tls"}
  /\ stage[s] \in Early \union {"listening", "fuse"} => fuse[s] = "none"
  /\ stage[s] \in Late => {"conn", "fuse"} \subseteq held[s]
  /\ stage[s] = "slave" => "ptym" \in held[s]
  /\ stage[s] = "start" => {"ptym", "slave"} \subseteq held[s]
  /\ stage[s] = "running" =>
       IF mode[s] = "pty" THEN {"ptym", "slave"} \subseteq held[s] ELSE "cons" \in held[s]
  /\ stage[s] = "done" => defers[s] = <<>>
  /\ stage[s] \notin {"running", "unwind", "done"} => mode[s] = "none"

Covered(s) ==
  stage[s] \notin {"unwind", "done"} \/ mode[s] # "none" =>
    \A r \in held[s] : r = "tls" \/ Deferred(s, r) \/ (r = "nsdir" /\ mounted[s])

FuseOnServer(s) ==
  "fuse" \in held[s] => Bottom(s) /\ {"nsdir", "sockdir", "listener"} \subseteq held[s]

(* The process: it runs only while the session has still to kill it, and   *)
(* is not gone through before it has been killed.                          *)
FuseFacts(s) ==
  /\ fuse[s] = "running" => "fuse" \in held[s]
  /\ "fuse" \in held[s] => fuse[s] \in {"running", "gone"}
  /\ mounted[s] => fuse[s] # "none"
  /\ reached[s] => fuse[s] \in {"killed", "gone"}

SessionInv(s) == ByStage(s) /\ Covered(s) /\ FuseOnServer(s) /\ FuseFacts(s)

StackInv == \A s \in Sessions : SessionInv(s)

(* Sessions do not touch each other's stacks. *)
LEMMA SessionFrame ==
  ASSUME NEW t \in Sessions, SessionInv(t),
         stage'[t] = stage[t], defers'[t] = defers[t], held'[t] = held[t], mode'[t] = mode[t],
         fuse'[t] = fuse[t], mounted'[t] = mounted[t], reached'[t] = reached[t]
  PROVE  SessionInv(t)'
  BY DEF SessionInv, ByStage, Covered, FuseOnServer, FuseFacts, Bottom, Deferred

LEMMA OneSession ==
  ASSUME NEW s \in Sessions, TypeOK, StackInv, SessionInv(s)',
         \A t \in Sessions \ {s} :
           /\ stage'[t] = stage[t] /\ defers'[t] = defers[t]
           /\ held'[t] = held[t] /\ mode'[t] = mode[t]
           /\ fuse'[t] = fuse[t] /\ mounted'[t] = mounted[t] /\ reached'[t] = reached[t]
  PROVE  StackInv'
  <1> SUFFICES ASSUME NEW t \in Sessions, t # s PROVE SessionInv(t)'
    BY DEF StackInv
  <1> QED
    BY SessionFrame DEF StackInv

(* Releases added on top leave those below where they were. *)
LEMMA DeferredKept ==
  ASSUME NEW s \in Sessions, NEW rs \in Seq(Resources), TypeOK, Defer(s, rs)
  PROVE  /\ Len(defers'[s]) = Len(defers[s]) + Len(rs)
         /\ \A i \in 1 .. Len(defers[s]) : defers'[s][i] = defers[s][i]
         /\ \A i \in 1 .. Len(rs) : defers'[s][Len(defers[s]) + i] = rs[i]
         /\ \A r : Deferred(s, r) => Deferred(s, r)'
         /\ \A i \in 1 .. Len(rs) : Deferred(s, rs[i])'
  <1>1. defers[s] \in Seq(Resources) /\ defers'[s] = defers[s] \o rs
    BY DEF TypeOK, Defer
  <1>2. Len(defers[s]) \in Nat /\ Len(rs) \in Nat
    BY <1>1, SeqTypes
  <1>3. Len(defers'[s]) = Len(defers[s]) + Len(rs)
    BY <1>1, SeqTypes
  <1>4. \A i \in 1 .. Len(defers[s]) : defers'[s][i] = defers[s][i]
    BY <1>1, <1>2, SeqTypes
  <1>5. \A i \in 1 .. Len(rs) : defers'[s][Len(defers[s]) + i] = rs[i]
    BY <1>1, <1>2, SeqTypes
  <1>6. \A r : Deferred(s, r) => Deferred(s, r)'
    BY <1>2, <1>3, <1>4 DEF Deferred
  <1>7. ASSUME NEW i \in 1 .. Len(rs) PROVE Deferred(s, rs[i])'
    <2>1. Len(defers[s]) + i \in 1 .. Len(defers'[s])
      BY <1>2, <1>3
    <2> QED
      BY <1>5, <2>1 DEF Deferred
  <1> QED
    BY <1>3, <1>4, <1>5, <1>6, <1>7

(* A terminal's release deferred: the bottom stays. *)
LEMMA BottomKept ==
  ASSUME NEW s \in Sessions, NEW r \in Terminal, TypeOK, Bottom(s), Defer(s, <<r>>)
  PROVE  Bottom(s)'
  <1>1. <<r>> \in Seq(Resources) /\ Len(<<r>>) = 1 /\ <<r>>[1] = r
    BY DEF Terminal, Resources
  <1>2. Len(defers[s]) \in Nat
    BY SeqTypes DEF TypeOK
  <1>3. /\ Len(defers'[s]) = Len(defers[s]) + 1
        /\ \A i \in 1 .. Len(defers[s]) : defers'[s][i] = defers[s][i]
        /\ defers'[s][Len(defers[s]) + 1] = r
    <2>1. 1 \in 1 .. Len(<<r>>)
      BY <1>1
    <2> QED
      BY <1>1, <2>1, DeferredKept
  <1>4. ASSUME NEW i \in 6 .. Len(defers'[s]) PROVE defers'[s][i] \in Terminal
    <2>1. CASE i = Len(defers[s]) + 1
      BY <1>3, <2>1
    <2>2. CASE i # Len(defers[s]) + 1
      <3>1. i \in 6 .. Len(defers[s]) /\ i \in 1 .. Len(defers[s])
        BY <1>2, <1>3, <2>2
      <3> QED
        BY <1>3, <3>1 DEF Bottom
    <2> QED
      BY <2>1, <2>2
  <1>5. Len(defers'[s]) >= 5 /\ \A i \in 1 .. 5 : defers'[s][i] = defers[s][i]
    BY <1>2, <1>3 DEF Bottom
  <1> QED
    BY <1>4, <1>5 DEF Bottom

(* Two concatenations spelt out. *)
LEMMA ConcatOneTwo ==
  ASSUME NEW S, NEW a \in S, NEW b \in S, NEW c \in S
  PROVE  <<a>> \o <<b, c>> = <<a, b, c>>
  <1>1. <<a>> \in Seq(S) /\ <<b, c>> \in Seq(S) /\ <<a, b, c>> \in Seq(S)
    OBVIOUS
  <1>2. <<a>> \o <<b, c>> \in Seq(S) /\ Len(<<a>> \o <<b, c>>) = 3
    BY <1>1
  <1>3. \A i \in 1 .. 3 : (<<a>> \o <<b, c>>)[i] = <<a, b, c>>[i]
    BY <1>1
  <1> QED
    BY <1>1, <1>2, <1>3, SeqEqual

LEMMA ConcatThreeTwo ==
  ASSUME NEW S, NEW a \in S, NEW b \in S, NEW c \in S, NEW d \in S, NEW e \in S
  PROVE  <<a, b, c>> \o <<d, e>> = <<a, b, c, d, e>>
  <1>1. <<a, b, c>> \in Seq(S) /\ <<d, e>> \in Seq(S) /\ <<a, b, c, d, e>> \in Seq(S)
    OBVIOUS
  <1>2. <<a, b, c>> \o <<d, e>> \in Seq(S) /\ Len(<<a, b, c>> \o <<d, e>>) = 5
    BY <1>1
  <1>3. \A i \in 1 .. 5 : (<<a, b, c>> \o <<d, e>>)[i] = <<a, b, c, d, e>>[i]
    BY <1>1
  <1> QED
    BY <1>1, <1>2, <1>3, SeqEqual

(* A return that changes nothing else. *)
LEMMA ReturnInv ==
  ASSUME NEW s \in Sessions, TypeOK, SessionInv(s), stage[s] \notin {"unwind", "done"},
         Return(s), held' = held, defers' = defers, UNCHANGED fuseVars
  PROVE  SessionInv(s)'
  <1>1. stage'[s] = "unwind"
    BY DEF Return, Goto, TypeOK
  <1>2. ByStage(s)'
    BY <1>1 DEF ByStage, Early, Late
  <1>3. Covered(s)'
    BY DEF SessionInv, Covered, Deferred, fuseVars
  <1>4. FuseOnServer(s)' /\ FuseFacts(s)'
    BY DEF SessionInv, FuseOnServer, FuseFacts, Bottom, fuseVars
  <1> QED
    BY <1>2, <1>3, <1>4 DEF SessionInv

LEMMA AcceptInv ==
  ASSUME NEW s \in Sessions, TypeOK, SessionInv(s), Accept(s)
  PROVE  SessionInv(s)'
  <1>1. /\ stage'[s] = "negotiate" /\ held'[s] = {"conn"} /\ defers'[s] = <<"conn">>
        /\ mode'[s] = "none" /\ fuse'[s] = "none" /\ ~reached'[s] /\ ~mounted'[s]
    BY DEF Accept, Hold, Defer, Goto, TypeOK, SessionInv, ByStage, FuseFacts, fuseVars
  <1>2. Deferred(s, "conn")'
    BY <1>1 DEF Deferred
  <1> QED
    BY <1>1, <1>2 DEF SessionInv, ByStage, Early, Late, Covered, FuseOnServer, FuseFacts

LEMMA HandshakeInv ==
  ASSUME NEW s \in Sessions, TypeOK, SessionInv(s), Handshake(s)
  PROVE  SessionInv(s)'
  <1>1. stage[s] \in Early /\ UNCHANGED <<defers, mode, fuseVars>>
    BY DEF Handshake, Negotiate, ProxyAuth, ReadClientEnv, Converse, WrapTls, HoldsNoMore, Early
  <1>2. CASE Return(s) /\ UNCHANGED held
    BY <1>1, <1>2, ReturnInv DEF Early
  <1>3. CASE ~ (Return(s) /\ UNCHANGED held)
    <2>1. stage'[s] \in Early
      BY <1>3 DEF Handshake, Negotiate, ProxyAuth, ReadClientEnv, Converse, WrapTls, HoldsNoMore,
                  Goto, TypeOK, Early
    <2>2. held'[s] \subseteq held[s] \union {"tls"} /\ held[s] \subseteq held'[s]
      BY DEF Handshake, Negotiate, ProxyAuth, ReadClientEnv, Converse, WrapTls, HoldsNoMore,
             Hold, TypeOK
    <2>3. ByStage(s)'
      BY <1>1, <2>1, <2>2 DEF SessionInv, ByStage, Early, Late, fuseVars
    <2>4. Covered(s)'
      BY <1>1, <2>2 DEF SessionInv, Covered, Deferred, Early, fuseVars
    <2>5. FuseOnServer(s)' /\ FuseFacts(s)'
      BY <1>1, <2>2 DEF SessionInv, ByStage, FuseOnServer, FuseFacts, fuseVars
    <2> QED
      BY <2>3, <2>4, <2>5 DEF SessionInv
  <1> QED
    BY <1>2, <1>3

LEMMA New9PClientInv ==
  ASSUME NEW s \in Sessions, TypeOK, SessionInv(s), New9PClient(s)
  PROVE  SessionInv(s)'
  <1>1. stage[s] = "client" /\ UNCHANGED <<held, defers, mode, fuseVars>>
    BY DEF New9PClient, HoldsNoMore
  <1>2. CASE Return(s)
    BY <1>1, <1>2, ReturnInv
  <1>3. CASE stage'[s] = "serve"
    BY <1>1, <1>3 DEF SessionInv, ByStage, Early, Late, Covered, Deferred, FuseOnServer, Bottom,
                      FuseFacts, fuseVars
  <1> QED
    BY <1>2, <1>3 DEF New9PClient, Goto, TypeOK

LEMMA StartUnix9PServerInv ==
  ASSUME NEW s \in Sessions, TypeOK, SessionInv(s), StartUnix9PServer(s)
  PROVE  SessionInv(s)'
  <1>1. /\ stage[s] = "serve" /\ mode'[s] = "none" /\ defers[s] = <<"conn">>
        /\ "conn" \in held[s] /\ held[s] \subseteq {"conn", "tls"}
        /\ fuse'[s] = "none" /\ ~reached'[s] /\ ~mounted'[s]
    BY DEF StartUnix9PServer, SessionInv, ByStage, Early, FuseFacts, fuseVars, TypeOK
  <1>2. CASE Goto(s, "fuse") /\ Hold(s, {"sockdir", "listener"})
             /\ Defer(s, <<"listener", "sockdir">>)
    <2>1. /\ stage'[s] = "fuse" /\ held'[s] = held[s] \union {"sockdir", "listener"}
          /\ defers'[s] = <<"conn">> \o <<"listener", "sockdir">>
      BY <1>1, <1>2 DEF Goto, Hold, Defer, TypeOK
    <2>2. defers'[s] = <<"conn", "listener", "sockdir">>
      BY <2>1, ConcatOneTwo, "conn" \in Resources, "listener" \in Resources,
         "sockdir" \in Resources DEF Resources
    <2>3. Deferred(s, "conn")' /\ Deferred(s, "listener")' /\ Deferred(s, "sockdir")'
      BY <2>2 DEF Deferred
    <2> QED
      BY <1>1, <2>1, <2>2, <2>3 DEF SessionInv, ByStage, Early, Late, Covered, FuseOnServer,
                                    FuseFacts
  <1>3. CASE Return(s) /\ Hold(s, {"sockdir"})
    <2>1. stage'[s] = "unwind" /\ held'[s] = held[s] \union {"sockdir"}
      BY <1>3 DEF Return, Goto, Hold, TypeOK
    <2> QED
      BY <1>1, <2>1 DEF SessionInv, ByStage, Early, Late, Covered, FuseOnServer, FuseFacts
  <1> QED
    BY <1>2, <1>3 DEF StartUnix9PServer

LEMMA MountFUSEInv ==
  ASSUME NEW s \in Sessions, TypeOK, SessionInv(s), MountFUSE(s)
  PROVE  SessionInv(s)'
  <1>1. /\ stage[s] = "fuse" /\ mode'[s] = "none"
        /\ defers[s] = <<"conn", "listener", "sockdir">>
        /\ {"conn", "listener", "sockdir"} \subseteq held[s]
        /\ held[s] \subseteq {"conn", "listener", "sockdir", "tls"}
        /\ fuse[s] = "none" /\ ~reached'[s] /\ ~mounted'[s]
    BY DEF MountFUSE, StartFuse, SessionInv, ByStage, FuseFacts, fuseVars, TypeOK
  <1>2. CASE Goto(s, "pty") /\ Hold(s, {"nsdir", "fuse"}) /\ Defer(s, <<"nsdir", "fuse">>)
             /\ StartFuse(s)
    <2>1. /\ stage'[s] = "pty" /\ held'[s] = held[s] \union {"nsdir", "fuse"}
          /\ defers'[s] = <<"conn", "listener", "sockdir">> \o <<"nsdir", "fuse">>
          /\ fuse'[s] = "running"
      BY <1>1, <1>2 DEF Goto, Hold, Defer, StartFuse, TypeOK
    <2>2. defers'[s] = <<"conn", "listener", "sockdir", "nsdir", "fuse">>
      <3>1. /\ "conn" \in Resources /\ "listener" \in Resources /\ "sockdir" \in Resources
            /\ "nsdir" \in Resources /\ "fuse" \in Resources
        BY DEF Resources
      <3>2. <<"conn", "listener", "sockdir">> \o <<"nsdir", "fuse">>
              = <<"conn", "listener", "sockdir", "nsdir", "fuse">>
        BY <3>1, ConcatThreeTwo
      <3> QED
        BY <2>1, <3>2
    <2>3. /\ Deferred(s, "conn")' /\ Deferred(s, "listener")' /\ Deferred(s, "sockdir")'
          /\ Deferred(s, "nsdir")' /\ Deferred(s, "fuse")'
      BY <2>2 DEF Deferred
    <2>4. Bottom(s)'
      BY <2>2 DEF Bottom
    <2> QED
      BY <1>1, <2>1, <2>3, <2>4 DEF SessionInv, ByStage, Early, Late, Covered, FuseOnServer,
                                    FuseFacts
  <1>3. CASE Return(s) /\ Hold(s, {"nsdir"}) /\ UNCHANGED fuseVars
    <2>1. stage'[s] = "unwind" /\ held'[s] = held[s] \union {"nsdir"} /\ fuse'[s] = "none"
      BY <1>1, <1>3 DEF Return, Goto, Hold, TypeOK, fuseVars
    <2> QED
      BY <1>1, <2>1 DEF SessionInv, ByStage, Early, Late, Covered, FuseOnServer, FuseFacts
  <1> QED
    BY <1>2, <1>3 DEF MountFUSE

(* launchShell holds one thing more, and defers its release. *)
LEMMA TerminalInv ==
  ASSUME NEW s \in Sessions, NEW r \in Terminal, TypeOK, SessionInv(s), stage[s] \in Late,
         Hold(s, {r}), Defer(s, <<r>>), UNCHANGED fuseVars
  PROVE  Covered(s)' /\ FuseOnServer(s)' /\ FuseFacts(s)' /\ held'[s] = held[s] \union {r}
  <1>1. held'[s] = held[s] \union {r}
    BY DEF Hold, TypeOK
  <1>2. <<r>> \in Seq(Resources) /\ 1 \in 1 .. Len(<<r>>) /\ <<r>>[1] = r
    BY DEF Terminal, Resources
  <1>3. Deferred(s, r)' /\ \A q : Deferred(s, q) => Deferred(s, q)'
    BY <1>2, DeferredKept
  <1>4. Covered(s)'
    BY <1>1, <1>3 DEF SessionInv, Covered, Late, fuseVars
  <1>5. "fuse" \in held[s] /\ Bottom(s)
    BY DEF SessionInv, ByStage, FuseOnServer
  <1>6. Bottom(s)'
    BY <1>5, BottomKept
  <1>7. FuseFacts(s)'
    BY <1>1 DEF SessionInv, FuseFacts, Terminal, fuseVars
  <1> QED
    BY <1>1, <1>4, <1>5, <1>6, <1>7 DEF SessionInv, FuseOnServer

LEMMA LaunchShellInv ==
  ASSUME NEW s \in Sessions, TypeOK, SessionInv(s), OpenPty(s) \/ OpenSlave(s)
  PROVE  SessionInv(s)'
  <1>1. /\ stage[s] \in Late /\ mode'[s] = "none" /\ {"conn", "fuse"} \subseteq held[s]
        /\ UNCHANGED fuseVars
    BY DEF OpenPty, OpenSlave, SessionInv, ByStage, Late
  <1>2. CASE OpenPty(s) /\ Goto(s, "slave") /\ Hold(s, {"ptym"}) /\ Defer(s, <<"ptym">>)
    <2>1. Covered(s)' /\ FuseOnServer(s)' /\ FuseFacts(s)' /\ held'[s] = held[s] \union {"ptym"}
      BY <1>1, <1>2, TerminalInv DEF Terminal
    <2>2. stage'[s] = "slave"
      BY <1>2 DEF Goto, TypeOK
    <2> QED
      BY <1>1, <2>1, <2>2 DEF SessionInv, ByStage, Early, Late
  <1>3. CASE OpenPty(s) /\ Goto(s, "direct") /\ HoldsNoMore(s)
    <2>1. stage'[s] = "direct" /\ held' = held /\ defers' = defers
      BY <1>3 DEF Goto, HoldsNoMore, TypeOK
    <2> QED
      <3>1. Covered(s)'
        BY <1>1, <2>1 DEF SessionInv, Covered, Deferred, Late, fuseVars
      <3>2. FuseOnServer(s)' /\ FuseFacts(s)'
        <4>1. FuseOnServer(s)'
          BY <2>1 DEF SessionInv, FuseOnServer, Bottom
        <4>2. FuseFacts(s)'
          BY <1>1, <2>1 DEF SessionInv, FuseFacts, fuseVars
        <4> QED
          BY <4>1, <4>2
      <3>3. ByStage(s)'
        BY <1>1, <2>1 DEF SessionInv, ByStage, Early, Late
      <3> QED
        BY <3>1, <3>2, <3>3 DEF SessionInv
  <1>4. CASE OpenSlave(s) /\ Goto(s, "start") /\ Hold(s, {"slave"}) /\ Defer(s, <<"slave">>)
    <2>1. Covered(s)' /\ FuseOnServer(s)' /\ FuseFacts(s)' /\ held'[s] = held[s] \union {"slave"}
      BY <1>1, <1>4, TerminalInv DEF Terminal
    <2>2. stage'[s] = "start" /\ "ptym" \in held[s]
      BY <1>4 DEF OpenSlave, Goto, TypeOK, SessionInv, ByStage
    <2> QED
      BY <1>1, <2>1, <2>2 DEF SessionInv, ByStage, Early, Late
  <1>5. CASE OpenSlave(s) /\ Goto(s, "direct") /\ UNCHANGED defers
             /\ held' = [held EXCEPT ![s] = @ \ {"ptym"}]
    <2>1. stage'[s] = "direct" /\ held'[s] = held[s] \ {"ptym"} /\ defers' = defers
      BY <1>5 DEF Goto, TypeOK
    <2>2. Covered(s)'
      BY <1>1, <2>1 DEF SessionInv, Covered, Deferred, Late, fuseVars
    <2>3. FuseOnServer(s)' /\ FuseFacts(s)'
      BY <1>1, <2>1 DEF SessionInv, FuseOnServer, FuseFacts, Bottom, fuseVars
    <2>4. ByStage(s)'
      BY <1>1, <2>1 DEF SessionInv, ByStage, Early, Late
    <2> QED
      BY <2>2, <2>3, <2>4 DEF SessionInv
  <1> QED
    BY <1>2, <1>3, <1>4, <1>5 DEF OpenPty, OpenSlave

LEMMA StartShellInv ==
  ASSUME NEW s \in Sessions, TypeOK, SessionInv(s), StartShellPty(s) \/ StartShellDirect(s)
  PROVE  SessionInv(s)'
  <1>1. /\ stage[s] \in Late /\ stage[s] # "running" /\ {"conn", "fuse"} \subseteq held[s]
        /\ UNCHANGED fuseVars
    BY DEF StartShellPty, StartShellDirect, SessionInv, ByStage, Late
  <1>2. CASE Return(s) /\ HoldsNoMore(s)
    BY <1>1, <1>2, ReturnInv DEF HoldsNoMore, Late
  <1>3. CASE StartShellPty(s) /\ Goto(s, "running")
    <2>1. /\ stage'[s] = "running" /\ mode'[s] = "pty" /\ held' = held /\ defers' = defers
          /\ {"ptym", "slave"} \subseteq held[s]
      BY <1>3 DEF StartShellPty, Goto, HoldsNoMore, TypeOK, SessionInv, ByStage
    <2> QED
      BY <1>1, <2>1 DEF SessionInv, ByStage, Early, Late, Covered, Deferred, FuseOnServer, Bottom,
                        FuseFacts, fuseVars
  <1>4. CASE StartShellDirect(s) /\ Hold(s, {"cons"}) /\ Defer(s, <<"cons">>)
    <2>1. Covered(s)' /\ FuseOnServer(s)' /\ FuseFacts(s)' /\ held'[s] = held[s] \union {"cons"}
      BY <1>1, <1>4, TerminalInv DEF Terminal
    <2>2. stage'[s] \in {"running", "unwind"} /\ mode'[s] = "direct"
      BY <1>4 DEF StartShellDirect, Return, Goto, TypeOK
    <2> QED
      BY <1>1, <2>1, <2>2 DEF SessionInv, ByStage, Early, Late
  <1> QED
    BY <1>2, <1>3, <1>4 DEF StartShellPty, StartShellDirect

LEMMA WaitShellInv ==
  ASSUME NEW s \in Sessions, TypeOK, SessionInv(s), WaitShell(s)
  PROVE  SessionInv(s)'
  BY ReturnInv DEF WaitShell, HoldsNoMore

(* The release on top is run: if it is not one of launchShell's, then it   *)
(* is that of 9pfuse, or 9pfuse is gone.                                   *)
LEMMA UnwindInv ==
  ASSUME NEW s \in Sessions, TypeOK, SessionInv(s), Unwind(s)
  PROVE  SessionInv(s)'
  <1>1. stage[s] = "unwind" /\ UNCHANGED mode
    BY DEF Unwind
  <1>2. CASE defers[s] = <<>>
    <2>1. stage'[s] = "done" /\ held' = held /\ defers' = defers
      BY <1>2 DEF Unwind, HoldsNoMore, Goto, TypeOK
    <2>2. ByStage(s)'
      BY <1>1, <1>2, <2>1 DEF ByStage, Early, Late
    <2>3. Covered(s)' /\ FuseOnServer(s)' /\ FuseFacts(s)'
      BY <1>1, <1>2, <2>1 DEF Unwind, SessionInv, Covered, Deferred, FuseOnServer, FuseFacts,
                              Bottom, fuseVars
    <2> QED
      BY <2>2, <2>3 DEF SessionInv
  <1>3. CASE defers[s] # <<>>
    <2> DEFINE k == Len(defers[s])
    <2>1. /\ k \in Nat /\ k >= 1
          /\ stage'[s] = "unwind"
          /\ Release(s, defers[s][k])
          /\ Len(defers'[s]) = k - 1
          /\ \A i \in 1 .. k - 1 : defers'[s][i] = defers[s][i]
      BY <1>1, <1>3, SeqTypes DEF Unwind, TypeOK
    <2>5. /\ held'[s] = held[s] \ {defers[s][k]} \/ (defers[s][k] = "nsdir" /\ held' = held)
          /\ mounted' = mounted
      BY <2>1 DEF Release, KillFuse, RemoveNsDir, Drop, fuseVars, TypeOK
    <2>6. "nsdir" \in held'[s] /\ defers[s][k] = "nsdir" => mounted[s]
      BY <2>1 DEF Release, RemoveNsDir, Drop, TypeOK
    <2>2. ByStage(s)'
      BY <2>1 DEF ByStage, Early, Late
    <2>3. Covered(s)'
      <3> SUFFICES ASSUME mode[s] # "none", NEW r \in held'[s], r # "tls",
                          ~ (r = "nsdir" /\ mounted[s])
                   PROVE  Deferred(s, r)'
        BY <1>1, <2>1, <2>5 DEF Covered
      <3>1. r \in held[s] /\ r # defers[s][k]
        <4>1. CASE defers[s][k] = "nsdir" /\ held' = held
          BY <2>6, <4>1
        <4>2. CASE held'[s] = held[s] \ {defers[s][k]}
          BY <4>2
        <4> QED
          BY <2>5, <4>1, <4>2
      <3>2. PICK i \in 1 .. k : defers[s][i] = r
        BY <2>1, <3>1 DEF SessionInv, Covered, Deferred
      <3>3. i \in 1 .. k - 1
        BY <2>1, <3>1, <3>2
      <3> QED
        BY <2>1, <3>2, <3>3 DEF Deferred
    <2>4. FuseOnServer(s)'
      <3> SUFFICES ASSUME "fuse" \in held'[s]
                   PROVE  Bottom(s)' /\ {"nsdir", "sockdir", "listener"} \subseteq held'[s]
        BY DEF FuseOnServer
      <3>1. Bottom(s) /\ {"nsdir", "sockdir", "listener"} \subseteq held[s]
        BY <2>5 DEF SessionInv, FuseOnServer
      <3>6. defers[s][k] # "fuse"
        BY <2>5
      <3>2. k > 5
        BY <2>1, <3>1, <3>6 DEF Bottom
      <3>3. defers[s][k] \in Terminal
        BY <2>1, <3>1, <3>2 DEF Bottom
      <3>4. {"nsdir", "sockdir", "listener"} \subseteq held'[s]
        BY <2>5, <3>1, <3>3 DEF Terminal
      <3>5. Bottom(s)'
        <4>1. \A i \in 1 .. 5 : defers'[s][i] = defers[s][i]
          BY <2>1, <3>2
        <4>2. \A i \in 6 .. Len(defers'[s]) :
                 i \in 6 .. Len(defers[s]) /\ defers'[s][i] = defers[s][i]
          BY <2>1, <3>2
        <4>3. Len(defers'[s]) >= 5
          BY <2>1, <3>2
        <4>4. /\ defers'[s][1] = "conn" /\ defers'[s][2] = "listener"
              /\ defers'[s][3] = "sockdir" /\ defers'[s][4] = "nsdir" /\ defers'[s][5] = "fuse"
          BY <3>1, <4>1 DEF Bottom
        <4>5. \A i \in 6 .. Len(defers'[s]) : defers'[s][i] \in Terminal
          BY <3>1, <4>2 DEF Bottom
        <4> QED
          BY <4>3, <4>4, <4>5 DEF Bottom
      <3> QED
        BY <3>4, <3>5
    <2>7. FuseFacts(s)'
      <3>1. CASE KillFuse(s)
        BY <3>1 DEF KillFuse, Drop, SessionInv, FuseFacts, TypeOK
      <3>2. CASE defers[s][k] = "nsdir" /\ RemoveNsDir(s)
        <4>1. "fuse" \notin held[s]
          <5> SUFFICES ASSUME Bottom(s) PROVE FALSE
            BY DEF SessionInv, FuseOnServer
          <5>1. CASE k = 5
            BY <3>2, <5>1 DEF Bottom
          <5>2. CASE k # 5
            <6>1. k \in Nat /\ k >= 5
              BY <2>1 DEF Bottom
            <6>2. \A n \in Nat : n >= 5 /\ n # 5 => n \in 6 .. n
              OBVIOUS
            <6>3. defers[s][k] \in Terminal
              BY <5>2, <6>1, <6>2 DEF Bottom
            <6> QED
              BY <3>2, <6>3 DEF Terminal
          <5> QED
            BY <5>1, <5>2
        <4>2. "fuse" \notin held'[s] /\ fuse' = fuse
          BY <3>2, <4>1 DEF RemoveNsDir, Drop, TypeOK
        <4>3. reached'[s] => fuse[s] \in {"killed", "gone"}
          <5>1. reached'[s] => reached[s] \/ mounted[s]
            BY <3>2 DEF RemoveNsDir, TypeOK
          <5> QED
            BY <4>1, <5>1 DEF SessionInv, FuseFacts, TypeOK
        <4> QED
          BY <3>2, <4>1, <4>2, <4>3 DEF RemoveNsDir, SessionInv, FuseFacts
      <3>3. CASE Drop(s, defers[s][k]) /\ defers[s][k] # "fuse" /\ UNCHANGED fuseVars
        BY <3>3 DEF Drop, SessionInv, FuseFacts, fuseVars, TypeOK
      <3> QED
        BY <2>1, <3>1, <3>2, <3>3 DEF Release
    <2> QED
      BY <2>2, <2>3, <2>4, <2>7 DEF SessionInv
  <1> QED
    BY <1>2, <1>3

(* 9pfuse's own steps: while it has not been killed its mount point is     *)
(* still to be removed, so that an end with an unmount leaves nothing.     *)
LEMMA FuseStepInv ==
  ASSUME NEW s \in Sessions, TypeOK, SessionInv(s), FuseMounts(s) \/ FuseEnds(s)
  PROVE  SessionInv(s)'
  <1>1. UNCHANGED <<stage, defers, held, mode, reached>> /\ fuse[s] \in {"running", "killed"}
    BY DEF FuseMounts, FuseEnds
  <1>2. ByStage(s)'
    BY <1>1 DEF SessionInv, ByStage, Early, Late
  <1>3. FuseOnServer(s)'
    BY <1>1 DEF SessionInv, FuseOnServer, Bottom
  <1>4. fuse'[s] \in {fuse[s], "gone"} /\ (fuse[s] = "killed" /\ mounted[s] => mounted'[s])
    BY DEF FuseMounts, FuseEnds, TypeOK
  <1>5. FuseFacts(s)'
    BY <1>1, <1>4 DEF SessionInv, FuseFacts
  <1>6. Covered(s)'
    <2>1. CASE fuse[s] = "killed"
      BY <1>1, <1>4, <2>1 DEF SessionInv, Covered, Deferred
    <2>2. CASE fuse[s] = "running"
      <3>1. Deferred(s, "nsdir")
        BY <2>2 DEF SessionInv, FuseFacts, FuseOnServer, Bottom, Deferred, TypeOK
      <3> QED
        BY <1>1, <3>1 DEF SessionInv, Covered, Deferred
    <2> QED
      BY <1>1, <2>1, <2>2
  <1> QED
    BY <1>2, <1>3, <1>5, <1>6 DEF SessionInv

LEMMA StackInit == Init => StackInv
  BY DEF Init, StackInv, SessionInv, ByStage, Early, Late, Covered, FuseOnServer, FuseFacts

LEMMA StackNext == TypeOK /\ StackInv /\ [Next]_vars => StackInv'
  <1> SUFFICES ASSUME TypeOK, StackInv, [Next]_vars PROVE StackInv'
    OBVIOUS
  <1> USE DEF noteVars, procVars, fuseVars
  <1>1. ASSUME NEW s \in Sessions, Accept(s) \/ Handshake(s) \/ Setup(s) \/ WaitShell(s) \/ Unwind(s)
        PROVE StackInv'
    <2>1. SessionInv(s)
      BY DEF StackInv
    <2>2. SessionInv(s)'
      BY <1>1, <2>1, AcceptInv, HandshakeInv, New9PClientInv, StartUnix9PServerInv, MountFUSEInv,
         LaunchShellInv, StartShellInv, WaitShellInv, UnwindInv DEF Setup
    <2>3. ASSUME NEW t \in Sessions \ {s}
          PROVE  /\ stage'[t] = stage[t] /\ defers'[t] = defers[t]
                 /\ held'[t] = held[t] /\ mode'[t] = mode[t]
                 /\ fuse'[t] = fuse[t] /\ mounted'[t] = mounted[t] /\ reached'[t] = reached[t]
      <3> USE DEF Goto, Return, Hold, Defer, HoldsNoMore, TypeOK
      <3>1. CASE Accept(s)
        BY <3>1 DEF Accept
      <3>2. CASE Handshake(s)
        BY <3>2 DEF Handshake, Negotiate, ProxyAuth, ReadClientEnv, Converse, WrapTls
      <3>3. CASE New9PClient(s) \/ StartUnix9PServer(s) \/ MountFUSE(s)
        BY <3>3 DEF New9PClient, StartUnix9PServer, MountFUSE, StartFuse
      <3>4. CASE OpenPty(s) \/ OpenSlave(s)
        BY <3>4 DEF OpenPty, OpenSlave
      <3>5. CASE StartShellPty(s) \/ StartShellDirect(s)
        BY <3>5 DEF StartShellPty, StartShellDirect
      <3>6. CASE WaitShell(s) \/ Unwind(s)
        BY <3>6 DEF WaitShell, Unwind, Release, KillFuse, RemoveNsDir, Drop
      <3> QED
        BY <1>1, <3>1, <3>2, <3>3, <3>4, <3>5, <3>6 DEF Setup
    <2> QED
      BY <2>2, <2>3, OneSession
  <1>2. ASSUME NEW s \in Sessions, ReadNote(s) \/ Notes(s) PROVE StackInv'
    <2>1. UNCHANGED <<stage, defers, held, mode, fuseVars>>
      BY <1>2 DEF ReadNote, Notes, SendNote, TakeNote, Getpgid, Kill
    <2> QED
      BY <2>1, SessionFrame DEF StackInv
  <1>3. ASSUME NEW s \in Sessions, FuseMounts(s) \/ FuseEnds(s) PROVE StackInv'
    <2>1. SessionInv(s)'
      BY <1>3, FuseStepInv DEF StackInv
    <2>2. ASSUME NEW t \in Sessions \ {s}
          PROVE  /\ stage'[t] = stage[t] /\ defers'[t] = defers[t]
                 /\ held'[t] = held[t] /\ mode'[t] = mode[t]
                 /\ fuse'[t] = fuse[t] /\ mounted'[t] = mounted[t] /\ reached'[t] = reached[t]
      BY <1>3 DEF FuseMounts, FuseEnds, TypeOK
    <2> QED
      BY <2>1, <2>2, OneSession
  <1>4. CASE UNCHANGED vars
    BY <1>4, SessionFrame DEF vars, StackInv
  <1> QED
    BY <1>1, <1>2, <1>3, <1>4 DEF Next

LEMMA StackFacts == TypeOK /\ StackInv => NamespaceServed /\ LeavesNothing
  <1> SUFFICES ASSUME TypeOK, StackInv, NEW s \in Sessions
               PROVE  /\ fuse[s] = "running" => {"nsdir", "sockdir", "listener"} \subseteq held[s]
                      /\ stage[s] = "running" =>
                           /\ fuse[s] \in {"running", "gone"}
                           /\ {"conn"} \union
                                (IF mode[s] = "pty" THEN {"ptym", "slave"} ELSE {"cons"})
                                \subseteq held[s]
                      /\ reached[s] => fuse[s] \in {"killed", "gone"}
                      /\ stage[s] = "done" /\ mode[s] # "none" =>
                           /\ held[s] \subseteq {"tls", "nsdir"}
                           /\ "nsdir" \in held[s] => mounted[s]
                           /\ fuse[s] # "running"
    BY DEF NamespaceServed, LeavesNothing
  <1>1. SessionInv(s)
    BY DEF StackInv
  <1>2. /\ fuse[s] = "running" => {"nsdir", "sockdir", "listener"} \subseteq held[s]
        /\ reached[s] => fuse[s] \in {"killed", "gone"}
    BY <1>1 DEF SessionInv, FuseOnServer, FuseFacts
  <1>3. ASSUME stage[s] = "running"
        PROVE  /\ fuse[s] \in {"running", "gone"}
               /\ {"conn"} \union (IF mode[s] = "pty" THEN {"ptym", "slave"} ELSE {"cons"})
                    \subseteq held[s]
    BY <1>1, <1>3 DEF SessionInv, ByStage, Late, FuseFacts
  <1>4. ASSUME stage[s] = "done", mode[s] # "none", NEW r \in held[s]
        PROVE  r = "tls" \/ (r = "nsdir" /\ mounted[s])
    <2>1. Len(defers[s]) = 0
      BY <1>1, <1>4 DEF SessionInv, ByStage
    <2> QED
      BY <1>1, <1>4, <2>1 DEF SessionInv, Covered, Deferred
  <1>5. ASSUME stage[s] = "done", mode[s] # "none" PROVE fuse[s] # "running"
    BY <1>1, <1>4, <1>5 DEF SessionInv, FuseFacts
  <1> QED
    BY <1>2, <1>3, <1>4, <1>5

LEMMA StackAlways == Spec => [](TypeOK /\ StackInv)
  <1> QED
    BY TypeInit, StackInit, TypeNext, StackNext, PTL DEF Spec

(* A 9pfuse that nobody has told to die has its mount point and its        *)
(* server, a running shell has its connection and terminal and a 9pfuse    *)
(* not told to die, and the removal of the mount point goes through the    *)
(* mount only after 9pfuse was killed: in the unwinding as before it.      *)
THEOREM ShellsAreServed == Spec => []NamespaceServed
  <1> QED
    BY StackAlways, StackFacts, PTL

(* Whatever fails once a shell has been tried for, what is left is the     *)
(* descriptor under TLS, a mount point that something is mounted on, and   *)
(* a 9pfuse that has ended or was told to.                                 *)
THEOREM NothingIsLeft == Spec => []LeavesNothing
  <1> QED
    BY StackAlways, StackFacts, PTL
=============================================================================
