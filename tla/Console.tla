------------------------------ MODULE Console -------------------------------
(***************************************************************************)
(* The terminal of one session (cmd/rcpud/main.go): runShellPty with the   *)
(* two goroutines between the client's /dev/cons and the shell's pty, the  *)
(* filter that strips escape sequences, and ProxyFile, through which the   *)
(* session's namespace offers the same /dev/cons to everybody in it.       *)
(*                                                                         *)
(* Output is a sequence of characters, as far as the filter tells them     *)
(* apart; input is lines, numbered as they are typed.                      *)
(***************************************************************************)
EXTENDS Naturals, Sequences

CONSTANTS
  Alphabet,         \* bound: the characters the shell writes
  MaxOut,           \* bound: how many of them
  MaxIn,            \* bound: lines the user types
  PtyCap            \* what the kernel keeps of a pty's output

(* One of each class in ansiRegexp: ESC, BEL, a parameter, a letter that   *)
(* only ends a sequence, a letter that also starts one.                    *)
Characters == {"esc", "[", "]", "\\", "bel", "0", "m", "P"}

ASSUME AlphabetIsKnown == Alphabet \subseteq Characters
ASSUME ConsoleBounds == MaxOut \in Nat /\ MaxIn \in Nat /\ PtyCap \in Nat \ {0}

VARIABLES
  shell,            \* the shell's process
  background,       \* whether something else holds the slave
  slave, ptm,       \* whether the daemon's ends of the pty are open
  wrote,            \* history: what was written to the slave
  pty,              \* what of it the kernel holds
  taken,            \* history: what of it the output pump has read
  cuts,             \* history: at each read, how much had been read and shown
  outPump,          \* the goroutine of pipePtyToCons
  chunk,            \* what it is about to write
  shown,            \* what the client's cons has been given
  missed,           \* history: how much had been read when a write failed
  typed,            \* history: what the user typed: lines, 0 for the end of the file
  cons,             \* what of it is in the client's cons
  inPump,           \* the goroutine of pipeConsToPty
  line,             \* the line it is about to write, 0 for none
  input,            \* history: lines written to the pty
  stolen,           \* history: lines that others in the namespace read
  dropped           \* history: lines written to a pty that was closed

shellVars == <<shell, background, slave, ptm>>
outVars   == <<wrote, pty, taken, cuts, outPump, chunk, shown, missed>>
inVars    == <<typed, cons, inPump, line, input, stolen, dropped>>
vars == <<shellVars, outVars, inVars>>

Init ==
  /\ shell = "running"
  /\ background = FALSE
  /\ slave = TRUE /\ ptm = TRUE
  /\ wrote = <<>> /\ pty = <<>> /\ taken = <<>>
  /\ cuts = {}
  /\ outPump = "loop"
  /\ chunk = <<>> /\ shown = <<>>
  /\ missed = {}
  /\ typed = <<>>
  /\ cons = <<>>
  /\ inPump = "asking"
  /\ line = 0
  /\ input = <<>> /\ stolen = <<>> /\ dropped = <<>>

-----------------------------------------------------------------------------
(* ansiRegexp. *)

Escape(s, i) == i < Len(s) /\ s[i] = "esc"

(* ESC [ [0-9;?]* [a-zA-Z] *)
Csi(s, i, j) ==
  /\ Escape(s, i) /\ s[i + 1] = "["
  /\ j \in i + 2 .. Len(s) /\ s[j] \in {"m", "P"}
  /\ \A k \in i + 2 .. j - 1 : s[k] = "0"

(* ESC ] [0-9;]* [^ESC BEL]* (BEL | ESC \) *)
Osc(s, i, j) ==
  /\ Escape(s, i) /\ s[i + 1] = "]"
  /\ j \in i + 2 .. Len(s)
  /\ \/ s[j] = "bel" /\ \A k \in i + 2 .. j - 1 : s[k] \notin {"esc", "bel"}
     \/ /\ s[j] = "\\" /\ s[j - 1] = "esc"
        /\ \A k \in i + 2 .. j - 2 : s[k] \notin {"esc", "bel"}

(* ESC [PX^_] *)
Introducer(s, i, j) == Escape(s, i) /\ s[i + 1] = "P" /\ j = i + 1

Match(s, i, j) == Csi(s, i, j) \/ Osc(s, i, j) \/ Introducer(s, i, j)

(* ReplaceAll: from the left, a match is left out and the search goes on    *)
(* behind it.                                                              *)
Strip(s) ==
  LET from[i \in 1 .. Len(s) + 1] ==
        IF i > Len(s) THEN <<>>
        ELSE IF \E j \in DOMAIN s : Match(s, i, j)
          THEN from[(CHOOSE j \in DOMAIN s : Match(s, i, j)) + 1]
          ELSE <<s[i]>> \o from[i + 1]
  IN  from[1]

-----------------------------------------------------------------------------
(* The processes on the slave. *)

(* A read that is under way when the file is closed keeps the master.      *)
MasterLives == ptm \/ outPump = "reading"

Writes(ch) ==
  /\ shell = "running" \/ background
  /\ MasterLives
  /\ Len(wrote) < MaxOut
  /\ Len(pty) < PtyCap
  /\ wrote' = Append(wrote, ch)
  /\ pty' = Append(pty, ch)
  /\ UNCHANGED <<shellVars, taken, cuts, outPump, chunk, shown, missed, inVars>>

(* The shell exits, perhaps with a job in the background. *)
ShellExits ==
  /\ shell = "running"
  /\ shell' = "exited"
  /\ background' \in BOOLEAN
  /\ UNCHANGED <<slave, ptm, outVars, inVars>>

BackgroundExits ==
  /\ background
  /\ background' = FALSE
  /\ UNCHANGED <<shell, slave, ptm, outVars, inVars>>

(* Mutant: nobody closes the daemon's own descriptor of the slave. *)
CloseMasterOnly ==
  /\ shell = "exited" /\ slave /\ ptm
  /\ ptm' = FALSE
  /\ pty' = IF outPump = "reading" THEN pty ELSE <<>>
  /\ UNCHANGED <<shell, background, slave, wrote, taken, cuts, outPump, chunk, shown,
                 missed, inVars>>

(* cmd.Wait has returned: the deferred closes, the slave's first. *)
CloseSlave ==
  /\ shell = "exited" /\ slave
  /\ slave' = FALSE
  /\ UNCHANGED <<shell, background, ptm, outVars, inVars>>

(* The kernel drops the output with the master. *)
CloseMaster ==
  /\ shell = "exited" /\ ~slave /\ ptm
  /\ ptm' = FALSE
  /\ pty' = IF outPump = "reading" THEN pty ELSE <<>>
  /\ UNCHANGED <<shell, background, slave, wrote, taken, cuts, outPump, chunk, shown,
                 missed, inVars>>

-----------------------------------------------------------------------------
(* pipePtyToCons. *)

(* A Read of a closed file fails; otherwise the system call, which Close   *)
(* does not interrupt: m.Fd has made the descriptor a blocking one.        *)
OutCallsRead ==
  /\ outPump = "loop"
  /\ outPump' = IF ptm THEN "reading" ELSE "gone"
  /\ UNCHANGED <<shellVars, wrote, pty, taken, cuts, chunk, shown, missed, inVars>>

(* Mutant: the buffer grows with every read, and is written whole.         *)
OutReadsAgain ==
  /\ outPump = "reading"
  /\ \E n \in 1 .. Len(pty) :
        /\ taken' = taken \o SubSeq(pty, 1, n)
        /\ pty' = IF ptm THEN SubSeq(pty, n + 1, Len(pty)) ELSE <<>>
        /\ chunk' = Strip(taken \o SubSeq(pty, 1, n))
  /\ cuts' = cuts \union {<<Len(taken), Len(shown)>>}
  /\ outPump' = "writing"
  /\ UNCHANGED <<shellVars, wrote, shown, missed, inVars>>

(* Some of what is there; its escape sequences are stripped. *)
OutReads ==
  /\ outPump = "reading"
  /\ \E n \in 1 .. Len(pty) :
        /\ taken' = taken \o SubSeq(pty, 1, n)
        /\ pty' = IF ptm THEN SubSeq(pty, n + 1, Len(pty)) ELSE <<>>
        /\ chunk' = Strip(SubSeq(pty, 1, n))
  /\ cuts' = cuts \union {<<Len(taken), Len(shown)>>}
  /\ outPump' = "writing"
  /\ UNCHANGED <<shellVars, wrote, shown, missed, inVars>>

(* Nothing is left and nobody has the slave. *)
OutFails ==
  /\ outPump = "reading"
  /\ pty = <<>>
  /\ ~slave /\ shell = "exited" /\ ~background
  /\ outPump' = "gone"
  /\ UNCHANGED <<shellVars, wrote, pty, taken, cuts, chunk, shown, missed, inVars>>

(* The client takes the chunk, or the call fails and nothing shows. *)
WriteAt ==
  \/ shown' = shown \o chunk /\ UNCHANGED missed
  \/ missed' = missed \union {Len(taken)} /\ UNCHANGED shown

(* Mutant: a chunk that was all escape sequence ends the pump. *)
OutWritesSome ==
  /\ outPump = "writing"
  /\ WriteAt
  /\ chunk' = <<>>
  /\ outPump' = IF chunk = <<>> THEN "gone" ELSE "loop"
  /\ UNCHANGED <<shellVars, wrote, pty, taken, cuts, inVars>>

(* consFile.WriteAt, whose error nobody looks at: the pump goes on. *)
OutWrites ==
  /\ outPump = "writing"
  /\ WriteAt
  /\ chunk' = <<>>
  /\ outPump' = "loop"
  /\ UNCHANGED <<shellVars, wrote, pty, taken, cuts, inVars>>

-----------------------------------------------------------------------------
(* Input. *)

(* The user types a line, or ends the file. *)
Types ==
  /\ Len(typed) < MaxIn
  /\ \E l \in {0, Len(typed) + 1} :
        typed' = Append(typed, l) /\ cons' = Append(cons, l)
  /\ UNCHANGED <<shellVars, outVars, inPump, line, input, stolen, dropped>>

(* pipeConsToPty's ReadAt: a line; at the end of the file the goroutine    *)
(* ends, and nobody tells the shell.                                       *)
InReads ==
  /\ inPump = "asking"
  /\ cons # <<>>
  /\ cons' = Tail(cons)
  /\ line' = Head(cons)
  /\ inPump' = IF Head(cons) = 0 THEN "gone" ELSE "writing"
  /\ UNCHANGED <<shellVars, outVars, typed, input, stolen, dropped>>

(* Mutant: a line that the pty does not take at once is asked for again. *)
InWritesNot ==
  /\ inPump = "writing"
  /\ cons' = Append(cons, line)
  /\ line' = 0
  /\ inPump' = "asking"
  /\ UNCHANGED <<shellVars, outVars, typed, input, stolen, dropped>>

(* ptyM.Write, whose error nobody looks at. *)
InWrites ==
  /\ inPump = "writing"
  /\ input' = IF ptm THEN Append(input, line) ELSE input
  /\ dropped' = IF ptm THEN dropped ELSE Append(dropped, line)
  /\ line' = 0
  /\ inPump' = "asking"
  /\ UNCHANGED <<shellVars, outVars, typed, cons, stolen>>

(* ProxyFile.Read: a process in the namespace reads the same /dev/cons.  A  *)
(* read that waits for the client outlives the session.                    *)
ProxyRead ==
  /\ cons # <<>>
  /\ cons' = Tail(cons)
  /\ stolen' = IF Head(cons) = 0 THEN stolen ELSE Append(stolen, Head(cons))
  /\ UNCHANGED <<shellVars, outVars, typed, inPump, line, input, dropped>>

-----------------------------------------------------------------------------
OutPump == OutCallsRead \/ OutReads \/ OutFails \/ OutWrites

InPump == InReads \/ InWrites

Next ==
  \/ \E ch \in Alphabet : Writes(ch)
  \/ ShellExits \/ BackgroundExits \/ CloseSlave \/ CloseMaster
  \/ OutPump
  \/ Types \/ InPump \/ ProxyRead

Spec == Init /\ [][Next]_vars

(* The daemon's goroutines run.  Shells, jobs and users owe nothing. *)
FairSpec ==
  /\ Spec
  /\ WF_vars(OutPump) /\ WF_vars(InWrites)
  /\ WF_vars(CloseSlave) /\ WF_vars(CloseMaster)

-----------------------------------------------------------------------------
(* Properties. *)

Lines == 1 .. MaxIn

(* Every variable keeps to its type, but for what the filter computes; the *)
(* pty to what the kernel keeps.                                           *)
TypeOK ==
  /\ shell \in {"running", "exited"}
  /\ background \in BOOLEAN /\ slave \in BOOLEAN /\ ptm \in BOOLEAN
  /\ wrote \in Seq(Alphabet) /\ taken \in Seq(Alphabet)
  /\ pty \in Seq(Alphabet) /\ Len(pty) <= PtyCap
  /\ cuts \subseteq Nat \X Nat /\ missed \subseteq Nat
  /\ outPump \in {"loop", "reading", "writing", "gone"}
  /\ typed \in Seq({0} \union Lines)
  /\ cons \in Seq({0} \union Lines)
  /\ inPump \in {"asking", "writing", "gone"}
  /\ line \in {0} \union Lines
  /\ input \in Seq(Lines) /\ stolen \in Seq(Lines) /\ dropped \in Seq(Lines)

EscapesIn(s) == {m \in (DOMAIN s) \X (DOMAIN s) : Match(s, m[1], m[2])}

InEscape(s, i) == \E m \in EscapesIn(s) : i \in m[1] .. m[2]

(* The characters of s that are in no escape sequence. *)
Text(s) ==
  LET upTo[n \in 0 .. Len(s)] ==
        IF n = 0 THEN <<>>
        ELSE IF InEscape(s, n) THEN upTo[n - 1] ELSE Append(upTo[n - 1], s[n])
  IN  upTo[Len(s)]

Since(s, n) == SubSeq(s, n + 1, Len(s))

(* Of what was read after the first b characters: a read ended inside an   *)
(* escape sequence, or a write failed.                                     *)
CutSince(b) ==
  \E c \in cuts, m \in EscapesIn(Since(taken, b)) :
    b + m[1] <= c[1] /\ c[1] < b + m[2]

MissedSince(b) == \E n \in missed : b < n

(* What the user sees is the output without its escape sequences, however  *)
(* many reads it took.  A read that ends inside a sequence and a write     *)
(* that fails spoil what is before them only: from every read on, what the *)
(* user sees of the rest is clean and whole, until the next of these.      *)
CleanUnlessCut ==
  /\ chunk \in Seq(Alphabet) /\ shown \in Seq(Alphabet)
  /\ \A c \in cuts :
        ~CutSince(c[1]) /\ ~MissedSince(c[1])
          => Since(shown \o chunk, c[2]) = Text(Since(taken, c[1]))

(* The pump reads what the shell wrote, from the first character, each     *)
(* once; while the pty is open the rest is in it.                          *)
ReadsInOrder ==
  /\ taken = SubSeq(wrote, 1, Len(taken))
  /\ ptm => pty = SubSeq(wrote, Len(taken) + 1, Len(wrote))

LinesIn(s) == {s[i] : i \in DOMAIN s} \ {0}

Ascends(s) == \A i, j \in DOMAIN s : i < j /\ s[i] # 0 /\ s[j] # 0 => s[i] < s[j]

(* The shell's lines: what it has, what came too late, what is on the way. *)
ForShell == input \o dropped \o <<line>> \o cons

(* Every line that was typed is in exactly one place.  The shell gets them *)
(* in order, also those typed while it was busy, but for those that others *)
(* in the namespace asked for; none is dropped while the pty is open.      *)
NoLineLost ==
  /\ LinesIn(typed) = LinesIn(ForShell) \union LinesIn(stolen)
  /\ LinesIn(ForShell) \intersect LinesIn(stolen) = {}
  /\ Ascends(ForShell) /\ Ascends(stolen)
  /\ ptm => dropped = <<>>

(* Types, and both directions of the terminal. *)
PumpsSafe == TypeOK /\ ReadsInOrder /\ NoLineLost

(* What a running shell writes is read and written toward the client,      *)
(* whatever it types: the write is attempted, and may fail.                *)
OutputArrives ==
  \A n \in 1 .. MaxOut :
    Len(wrote) >= n /\ ptm ~> ~ptm \/ (Len(taken) >= n /\ outPump # "writing")

(* When the session is over and nothing holds its pty, the output pump     *)
(* ends.                                                                   *)
OutputPumpEnds ==
  shell = "exited" /\ ~background ~> outPump = "gone"
=============================================================================
