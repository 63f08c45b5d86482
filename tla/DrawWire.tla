------------------------------ MODULE DrawWire ------------------------------
(***************************************************************************)
(* The draw server (drawsrv.go): every connection is served by a goroutine *)
(* that reads wsysmsg frames, decodes one request, acts on it and writes   *)
(* one reply; all connections share one virtual pointer device, whose      *)
(* events are single writes without a lock.  cmd/drawsrv/main.go has an    *)
(* older copy of the loop, without Tbouncemouse.                           *)
(*                                                                         *)
(* Bytes are counted.  A frame is written whole by the client, and reads   *)
(* return any part of it.  The frame buffer's contents, the labels and the *)
(* numbers in events are left out.  The pointer device was opened.         *)
(***************************************************************************)
EXTENDS Naturals, Sequences, SequencesExt

CONSTANTS
  Conns,            \* connections
  Requests,         \* Requests[c]: the frames c's client may send
  Places,           \* positions of the pointer
  Origin,           \* the position (0, 0)
  Tags,             \* request tags
  HdrLen,           \* bytes of a frame's length word (4)
  PointLen,         \* bytes of a position in a request (8)
  BufLen,           \* the largest body the server accepts (256 MB)
  FrameLen,         \* bytes of the frame buffer (0 without one)
  LabelLen,         \* bytes of an error's text
  MaxSent,          \* bound: frames one client sends
  Strays,           \* bound: what bytes read from a wrong place are taken for
  MaxStrays         \* bound: requests taken from wrong places on a connection

Kinds == {"Tinit", "Trdmouse", "Trdkbd", "Trddraw", "Tmoveto", "Tbouncemouse", "unknown"}

(* len is the frame's length word: its body's size, as the client says it. *)
Frames == [kind : Kinds, tag : Tags, at : Places, len : Nat]

ASSUME SizesAreNaturals ==
  /\ HdrLen \in Nat \ {0} /\ PointLen \in Nat /\ BufLen \in Nat
  /\ FrameLen \in Nat /\ LabelLen \in Nat /\ MaxSent \in Nat /\ MaxStrays \in Nat
ASSUME RequestsAreFrames == \A c \in Conns : Requests[c] \subseteq Frames
ASSUME StraysAreFrames == Strays \subseteq Frames
ASSUME OriginIsPoint == Origin \in Places
ASSUME ThereAreTags == Tags # {}

VARIABLES
  pc,               \* pc[c]: where c's goroutine stands
  sent,             \* sent[c]: the frames c's client wrote
  seen,             \* seen[c]: how many of them were taken off the connection
  cut,              \* cut[c]: bytes taken of the next one
  m,                \* m[c]: the request being served
  todo,             \* todo[c]: device events the request still has to write
  replies,          \* replies[c]: the replies written
  split,            \* split[c]: a length word arrived in pieces
  report,           \* the device's events since its last synchronisation
  shown             \* the device's last complete report

device == <<report, shown>>
vars == <<pc, sent, seen, cut, m, todo, replies, split, device>>

Syn == [of |-> "syn", is |-> 0]

Replies == [kind : {"Rinit", "Rrdmouse", "Rrdkbd", "Rrddraw", "Rmoveto", "Rbouncemouse", "Rerror"},
            tag : Tags, size : Nat, wrote : Nat]

Init ==
  /\ pc = [c \in Conns |-> "header"]
  /\ sent = [c \in Conns |-> <<>>]
  /\ seen = [c \in Conns |-> 0]
  /\ cut = [c \in Conns |-> 0]
  /\ m = [c \in Conns |-> [kind |-> "unknown", tag |-> CHOOSE t \in Tags : TRUE,
                           at |-> Origin, len |-> 0]]
  /\ todo = [c \in Conns |-> <<>>]
  /\ replies = [c \in Conns |-> <<>>]
  /\ split = [c \in Conns |-> FALSE]
  /\ report = <<>>
  /\ shown = <<>>

-----------------------------------------------------------------------------
(* The codec. *)

(* wdec: a position that is cut short reads as 0, 0; the buttons of a      *)
(* Tbouncemouse are not decoded and read as none.                          *)
Decoded(f) == [f EXCEPT !.at = IF f.kind = "Tmoveto" /\ f.len >= 2 + PointLen THEN @ ELSE Origin]

Up(button) == [of |-> button, is |-> 0]

(* What UI.Move and UI.Btns write. *)
Events(f) ==
  CASE f.kind = "Tmoveto"      -> <<[of |-> "x", is |-> f.at], [of |-> "y", is |-> f.at], Syn>>
    [] f.kind = "Tbouncemouse" -> <<Up("left"), Up("right"), Up("middle"), Syn>>
    [] OTHER                   -> <<>>

ReplyKind(f) ==
  CASE f.kind = "Tinit"        -> "Rinit"
    [] f.kind = "Trdmouse"     -> "Rrdmouse"
    [] f.kind = "Trdkbd"       -> "Rrdkbd"
    [] f.kind = "Trddraw"      -> "Rrddraw"
    [] f.kind = "Tmoveto"      -> "Rmoveto"
    [] f.kind = "Tbouncemouse" -> "Rbouncemouse"
    [] OTHER                   -> "Rerror"

(* Mutant: the size of an error leaves out the length of its text. *)
sizeNoStringLength(k) ==
  2 + CASE k = "Rrdmouse" -> 17
        [] k = "Rrdkbd"   -> 2
        [] k = "Rrddraw"  -> 4 + FrameLen
        [] k = "Rerror"   -> LabelLen
        [] OTHER          -> 0

size(k) ==
  2 + CASE k = "Rrdmouse" -> 17
        [] k = "Rrdkbd"   -> 2
        [] k = "Rrddraw"  -> 4 + FrameLen
        [] k = "Rerror"   -> 2 + LabelLen
        [] OTHER          -> 0

(* Type and tag; then x, y, buttons, time and a resize flag, or a rune, or *)
(* a count and the pixels, or a string with its length.                    *)
wenc(k) ==
  2 + CASE k = "Rrdmouse" -> 4 + 4 + 4 + 4 + 1
        [] k = "Rrdkbd"   -> 2
        [] k = "Rrddraw"  -> 4 + FrameLen
        [] k = "Rerror"   -> 2 + LabelLen
        [] OTHER          -> 0

-----------------------------------------------------------------------------
(* The client. *)

Send(c) ==
  /\ pc[c] # "closed"
  /\ Len(sent[c]) < MaxSent
  /\ \E f \in Requests[c] : sent' = [sent EXCEPT ![c] = Append(@, f)]
  /\ UNCHANGED <<pc, seen, cut, m, todo, replies, split, device>>

(* The client goes away: the read under way fails. *)
Hangup(c) ==
  /\ pc[c] \in {"header", "body", "lost"}
  /\ pc' = [pc EXCEPT ![c] = "closed"]
  /\ UNCHANGED <<sent, seen, cut, m, todo, replies, split, device>>

-----------------------------------------------------------------------------
(* handleDraw. *)

Waiting(c) == seen[c] < Len(sent[c])

Incoming(c) == sent[c][seen[c] + 1]

Acceptable(len) == 2 <= len /\ len <= BufLen

(* The length word in one read: the next frame's, unless bytes of a body   *)
(* were left over.                                                         *)
ReadHeader(c) ==
  /\ pc[c] = "header"
  /\ Waiting(c)
  /\ LET to == IF cut[c] > 0 THEN "lost"
               ELSE IF Acceptable(Incoming(c).len) THEN "body" ELSE "closed"
     IN  /\ pc' = [pc EXCEPT ![c] = to]
         /\ cut' = IF to = "body" THEN [cut EXCEPT ![c] = HdrLen] ELSE cut
  /\ UNCHANGED <<sent, seen, m, todo, replies, split, device>>

(* One read returned a part of the length word: the rest of h is what it   *)
(* was, and what follows is read from the wrong place.                     *)
ReadHeaderPart(c) ==
  /\ pc[c] = "header"
  /\ Waiting(c)
  /\ HdrLen > 1
  /\ split' = [split EXCEPT ![c] = TRUE]
  /\ \E to \in {"lost", "closed"} : pc' = [pc EXCEPT ![c] = to]
  /\ UNCHANGED <<sent, seen, cut, m, todo, replies, device>>

(* The body of f is in: what it asks of the device is decided. *)
Dispatch(c, f) ==
  /\ pc' = [pc EXCEPT ![c] = "serve"]
  /\ m' = [m EXCEPT ![c] = Decoded(f)]
  /\ todo' = [todo EXCEPT ![c] = Events(Decoded(f))]

(* Bytes from the wrong place: they are no frame, or make one that nobody  *)
(* sent, which is served like any other.  Until they do, nothing happens.  *)
ReadStray(c) ==
  /\ pc[c] = "lost"
  /\ \/ /\ pc' = [pc EXCEPT ![c] = "closed"]
        /\ UNCHANGED <<m, todo>>
     \/ /\ Len(replies[c]) < seen[c] + MaxStrays
        /\ \E f \in Strays : Dispatch(c, f)
  /\ UNCHANGED <<sent, seen, cut, replies, split, device>>

(* Mutant: the body is read once. *)
ReadBodyOnce(c) ==
  /\ pc[c] = "body"
  /\ \E k \in 1 .. HdrLen + Incoming(c).len - cut[c] :
       IF cut[c] + k = HdrLen + Incoming(c).len
         THEN /\ seen' = [seen EXCEPT ![c] = @ + 1]
              /\ cut' = [cut EXCEPT ![c] = 0]
         ELSE /\ cut' = [cut EXCEPT ![c] = @ + k]
              /\ UNCHANGED seen
  /\ Dispatch(c, Incoming(c))
  /\ UNCHANGED <<sent, replies, split, device>>

(* One read of the loop that fills the body. *)
ReadBody(c) ==
  /\ pc[c] = "body"
  /\ \E k \in 1 .. HdrLen + Incoming(c).len - cut[c] :
       IF cut[c] + k = HdrLen + Incoming(c).len
         THEN /\ seen' = [seen EXCEPT ![c] = @ + 1]
              /\ cut' = [cut EXCEPT ![c] = 0]
              /\ Dispatch(c, Incoming(c))
         ELSE /\ cut' = [cut EXCEPT ![c] = @ + k]
              /\ UNCHANGED <<seen, pc, m, todo>>
  /\ UNCHANGED <<sent, replies, split, device>>

(* One event written to the device. *)
ev(e) ==
  IF e = Syn THEN shown' = report /\ report' = <<>>
             ELSE report' = Append(report, e) /\ UNCHANGED shown

Inject(c) ==
  /\ pc[c] = "serve"
  /\ todo[c] # <<>>
  /\ ev(Head(todo[c]))
  /\ todo' = [todo EXCEPT ![c] = Tail(@)]
  /\ UNCHANGED <<pc, sent, seen, cut, m, replies, split>>

(* Mutant: an unknown request is passed over. *)
WriteReplyKnown(c) ==
  LET k == ReplyKind(m[c]) IN
  /\ pc[c] = "serve"
  /\ todo[c] = <<>>
  /\ replies' = IF k = "Rerror" THEN replies
                ELSE [replies EXCEPT ![c] =
                        Append(@, [kind |-> k, tag |-> m[c].tag, size |-> size(k), wrote |-> wenc(k)])]
  /\ pc' = [pc EXCEPT ![c] = IF split[c] THEN "lost" ELSE "header"]
  /\ UNCHANGED <<sent, seen, cut, m, todo, split, device>>

(* Mutant: the reply does not wait for the events. *)
WriteReplyEarly(c) ==
  LET k == ReplyKind(m[c]) IN
  /\ pc[c] = "serve"
  /\ replies' = [replies EXCEPT ![c] =
                   Append(@, [kind |-> k, tag |-> m[c].tag, size |-> size(k), wrote |-> wenc(k)])]
  /\ pc' = [pc EXCEPT ![c] = IF split[c] THEN "lost" ELSE "header"]
  /\ UNCHANGED <<sent, seen, cut, m, todo, split, device>>

(* An error of the write is ignored. *)
WriteReply(c) ==
  LET k == ReplyKind(m[c]) IN
  /\ pc[c] = "serve"
  /\ todo[c] = <<>>
  /\ replies' = [replies EXCEPT ![c] =
                   Append(@, [kind |-> k, tag |-> m[c].tag, size |-> size(k), wrote |-> wenc(k)])]
  /\ pc' = [pc EXCEPT ![c] = IF split[c] THEN "lost" ELSE "header"]
  /\ UNCHANGED <<sent, seen, cut, m, todo, split, device>>

-----------------------------------------------------------------------------
handleDraw(c) ==
  \/ ReadHeader(c) \/ ReadHeaderPart(c)
  \/ ReadStray(c) \/ ReadBody(c) \/ Inject(c) \/ WriteReply(c)

Next == \E c \in Conns : Send(c) \/ Hangup(c) \/ handleDraw(c)

Spec == Init /\ [][Next]_vars

-----------------------------------------------------------------------------
(* Properties. *)

(* Every variable keeps to its type; what the server reads fits its buffer. *)
TypeOK ==
  /\ pc \in [Conns -> {"header", "body", "serve", "lost", "closed"}]
  /\ sent \in [Conns -> Seq(Frames)]
  /\ seen \in [Conns -> 0 .. MaxSent]
  /\ cut \in [Conns -> 0 .. HdrLen + BufLen]
  /\ m \in [Conns -> Frames]
  /\ \A c \in Conns : Len(todo[c]) <= 4
  /\ replies \in [Conns -> Seq(Replies)]
  /\ split \in [Conns -> BOOLEAN]
  /\ \A es \in {report, shown} : \A i \in DOMAIN es : es[i] # Syn

(* However the reads cut the bodies up, the server loses its place in the  *)
(* stream only when a length word arrives in pieces.                       *)
KeepsPlace == \A c \in Conns : pc[c] = "lost" => split[c]

(* Types, the server's buffer among them, and the above. *)
StreamSafe == TypeOK /\ KeepsPlace

(* The replies answer the client's frames, one for one and in their order, *)
(* with their tags; only a connection whose length word came in pieces     *)
(* gets more of them, to frames nobody made.  Each reply, one of those or  *)
(* not, is as long as its length word says.                                *)
RepliesMatch ==
  \A c \in Conns : \A i \in DOMAIN replies[c] :
    /\ i <= seen[c] => /\ replies[c][i].kind = ReplyKind(sent[c][i])
                       /\ replies[c][i].tag = sent[c][i].tag
    /\ ~split[c] => i <= seen[c]
    /\ replies[c][i].size = replies[c][i].wrote

Points(c) == \E i \in DOMAIN sent[c] : Events(sent[c][i]) # <<>>

(* When the reply to a client that alone points is out, and no connection  *)
(* is being read from the wrong place, the device shows what its request   *)
(* asked for: no event of it is still to come.                             *)
PointerFollows ==
  \A c \in Conns :
    /\ pc[c] = "header"
    /\ Events(m[c]) # <<>>
    /\ \A d \in Conns : ~split[d] /\ (Points(d) => d = c)
    => report = <<>> /\ shown = Front(Events(m[c]))

(* Whatever order the events of several clients reached the device in, and *)
(* whoever made the requests, it has reported them all when nobody is      *)
(* being served.                                                           *)
DeviceSettles ==
  (\A c \in Conns : todo[c] = <<>>) => report = <<>>

(* Both, of the device that all clients share. *)
PointerSafe == PointerFollows /\ DeviceSettles

(* Every frame sent is answered, as long as the connection lives and has   *)
(* not lost its place.                                                     *)
Answered ==
  \A c \in Conns, i \in 1 .. MaxSent :
    Len(sent[c]) >= i ~> Len(replies[c]) >= i \/ split[c] \/ pc[c] = "closed"
=============================================================================
