--------------------------- MODULE DrawServerProofs ---------------------------
(***************************************************************************)
(* Proofs about DrawServer, for any number of connections and keyboards,   *)
(* any requests their clients may make, and any sizes of the codec.        *)
(***************************************************************************)
EXTENDS DrawServer, SequenceTheorems, TLAPS

(* The draw connections and the keyboards take their steps apart. *)
LEMMA StepsApart == [ServerNext]_<<vars, kbdVars>> => [Next]_vars /\ [KbdNext]_kbdVars
  BY DEF ServerNext

LEMMA WireSpec == ServerSpec => Spec
  BY StepsApart, PTL DEF ServerSpec, ServerInit, Spec

LEMMA KbdSpec == ServerSpec => KbdInit /\ [][KbdNext]_kbdVars
  BY StepsApart, PTL DEF ServerSpec, ServerInit

-----------------------------------------------------------------------------
(* The invariant of the draw connections. *)

PointerEvents ==
  [of : {"x", "y", "left", "right", "middle", "syn"}, is : Places \union {0}]

EventsTyped ==
  todo \in [Conns -> Seq(PointerEvents)] /\ report \in Seq(PointerEvents)
    /\ shown \in Seq(PointerEvents)

(* Where a goroutine stands in the stream: at a frame's start, or within a *)
(* body it takes for what it is; elsewhere only after a split length word. *)
StreamInv ==
  \A c \in Conns :
    /\ seen[c] <= Len(sent[c]) /\ Len(sent[c]) <= MaxSent
    /\ pc[c] \in {"header", "serve"} => cut[c] = 0
    /\ pc[c] = "body" =>
         /\ seen[c] < Len(sent[c])
         /\ Acceptable(Incoming(c).len)
         /\ HdrLen <= cut[c] /\ cut[c] < HdrLen + Incoming(c).len
    /\ pc[c] = "lost" => split[c] /\ cut[c] = 0
    /\ pc[c] \in {"header", "body"} => ~split[c]

(* The request being served is the last frame taken, and has no reply yet; *)
(* a connection that lost its place has answered all it took before.       *)
ServeInv ==
  \A c \in Conns :
    /\ pc[c] = "serve" /\ ~split[c] =>
         /\ seen[c] > 0 /\ m[c] = Decoded(sent[c][seen[c]])
         /\ Len(replies[c]) + 1 = seen[c]
    /\ pc[c] # "serve" => todo[c] = <<>>
    /\ pc[c] # "serve" /\ ~split[c] => Len(replies[c]) = seen[c]
    /\ split[c] => Len(replies[c]) >= seen[c]

(* A synchronisation ends every series of events, and is nowhere else. *)
Burst(es) == \A i \in DOMAIN es : es[i] = Syn <=> i = Len(es)

TodoInv ==
  \A c \in Conns :
    /\ Burst(todo[c]) /\ Len(todo[c]) <= 4
    /\ todo[c] # <<>> => Events(m[c]) # <<>>

(* What the device was told and not synchronised is some client's, which   *)
(* has more to tell.                                                       *)
SettleInv == (\A c \in Conns : todo[c] = <<>>) => report = <<>>

(* A client that alone points, no connection having lost its place, finds  *)
(* its request in the device's report, in the last one when all was told.  *)
Alone(c) == \A d \in Conns : ~split[d] /\ (Points(d) => d = c)

AloneInv ==
  \A c \in Conns : Alone(c) =>
    /\ todo[c] # <<>> => report \o todo[c] = Events(m[c])
    /\ todo[c] = <<>> /\ Events(m[c]) # <<>> =>
         report = <<>> /\ shown = Front(Events(m[c]))

WireInv ==
  TypeOK /\ EventsTyped /\ StreamInv /\ ServeInv /\ RepliesMatch
    /\ TodoInv /\ SettleInv /\ AloneInv

-----------------------------------------------------------------------------
(* The codec. *)

LEMMA SynIsEvent == Syn \in PointerEvents
  BY DEF Syn, PointerEvents

LEMMA DecodedFrame ==
  ASSUME NEW f \in Frames
  PROVE  Decoded(f) \in Frames /\ Decoded(f).kind = f.kind /\ Decoded(f).tag = f.tag
  BY OriginIsPoint DEF Decoded, Frames

LEMMA EventsOfFrame ==
  ASSUME NEW f \in Frames
  PROVE  /\ Events(f) \in Seq(PointerEvents) /\ Len(Events(f)) <= 4
         /\ Burst(Events(f))
         /\ Events(f) # <<>> <=> f.kind \in {"Tmoveto", "Tbouncemouse"}
  <1>1. CASE f.kind = "Tmoveto"
    <2>1. Events(f) = <<[of |-> "x", is |-> f.at], [of |-> "y", is |-> f.at], Syn>>
      BY <1>1 DEF Events
    <2>2. /\ [of |-> "x", is |-> f.at] \in PointerEvents
          /\ [of |-> "y", is |-> f.at] \in PointerEvents
          /\ [of |-> "x", is |-> f.at] # Syn /\ [of |-> "y", is |-> f.at] # Syn
      BY DEF PointerEvents, Frames, Syn
    <2> QED
      BY <1>1, <2>1, <2>2, SynIsEvent DEF Burst
  <1>2. CASE f.kind = "Tbouncemouse"
    <2>1. Events(f) = <<Up("left"), Up("right"), Up("middle"), Syn>>
      BY <1>2 DEF Events
    <2>2. /\ Up("left") \in PointerEvents /\ Up("right") \in PointerEvents
          /\ Up("middle") \in PointerEvents
          /\ Up("left") # Syn /\ Up("right") # Syn /\ Up("middle") # Syn
      BY DEF PointerEvents, Up, Syn
    <2> QED
      BY <1>2, <2>1, <2>2, SynIsEvent DEF Burst
  <1>3. CASE f.kind \notin {"Tmoveto", "Tbouncemouse"}
    <2>1. Events(f) = <<>>
      BY <1>3 DEF Events
    <2> QED
      BY <1>3, <2>1 DEF Burst
  <1> QED
    BY <1>1, <1>2, <1>3

(* An answer is as long as its length word says. *)
LEMMA ReplyFits ==
  ASSUME NEW f \in Frames
  PROVE  /\ ReplyKind(f) \in {"Rinit", "Rrdmouse", "Rrdkbd", "Rrddraw", "Rmoveto",
                              "Rbouncemouse", "Rerror"}
         /\ size(ReplyKind(f)) \in Nat /\ size(ReplyKind(f)) = wenc(ReplyKind(f))
  <1>1. ReplyKind(f) \in {"Rinit", "Rrdmouse", "Rrdkbd", "Rrddraw", "Rmoveto",
                          "Rbouncemouse", "Rerror"}
    BY DEF ReplyKind, Frames, Kinds
  <1>2. \A k \in {"Rinit", "Rrdmouse", "Rrdkbd", "Rrddraw", "Rmoveto", "Rbouncemouse", "Rerror"} :
          size(k) \in Nat /\ size(k) = wenc(k)
    BY SizesAreNaturals DEF size, wenc
  <1> QED
    BY <1>1, <1>2

(* The next frame to come is one. *)
LEMMA IncomingFrame ==
  ASSUME TypeOK, NEW c \in Conns, Waiting(c)
  PROVE  Incoming(c) \in Frames /\ Incoming(c).len \in Nat
  <1>1. sent[c] \in Seq(Frames) /\ seen[c] \in Nat
    BY SizesAreNaturals DEF TypeOK
  <1>2. seen[c] + 1 \in 1 .. Len(sent[c])
    BY <1>1 DEF Waiting
  <1>3. Incoming(c) \in Frames
    BY <1>1, <1>2 DEF Incoming
  <1> QED
    BY <1>3 DEF Frames

(* What a goroutine's last read of a body does, and any other. *)
LEMMA BodyRead ==
  ASSUME TypeOK, StreamInv, NEW c \in Conns, ReadBody(c)
  PROVE  /\ pc[c] = "body" /\ Waiting(c) /\ UNCHANGED <<sent, replies, split, device>>
         /\ \/ /\ seen' = [seen EXCEPT ![c] = seen[c] + 1]
               /\ cut' = [cut EXCEPT ![c] = 0]
               /\ Dispatch(c, Incoming(c))
            \/ /\ \E n \in cut[c] .. HdrLen + Incoming(c).len - 1 : cut' = [cut EXCEPT ![c] = n]
               /\ UNCHANGED <<seen, pc, m, todo>>
  <1>1. pc[c] = "body" /\ Waiting(c) /\ UNCHANGED <<sent, replies, split, device>>
    BY DEF ReadBody, StreamInv, Waiting
  <1>2. Incoming(c).len \in Nat /\ cut[c] \in Nat
    BY <1>1, IncomingFrame, SizesAreNaturals DEF TypeOK
  <1>3. PICK k \in 1 .. HdrLen + Incoming(c).len - cut[c] :
          IF cut[c] + k = HdrLen + Incoming(c).len
            THEN /\ seen' = [seen EXCEPT ![c] = @ + 1]
                 /\ cut' = [cut EXCEPT ![c] = 0]
                 /\ Dispatch(c, Incoming(c))
            ELSE /\ cut' = [cut EXCEPT ![c] = @ + k]
                 /\ UNCHANGED <<seen, pc, m, todo>>
    BY DEF ReadBody
  <1>4. CASE cut[c] + k = HdrLen + Incoming(c).len
    BY <1>1, <1>3, <1>4
  <1>5. CASE cut[c] + k # HdrLen + Incoming(c).len
    <2>1. cut[c] + k \in cut[c] .. HdrLen + Incoming(c).len - 1
      BY <1>2, <1>3, <1>5, SizesAreNaturals
    <2>2. cut' = [cut EXCEPT ![c] = cut[c] + k] /\ UNCHANGED <<seen, pc, m, todo>>
      BY <1>3, <1>5
    <2> QED
      BY <1>1, <2>1, <2>2
  <1> QED
    BY <1>4, <1>5

(* What a goroutine does that reads from the wrong place. *)
LEMMA StrayRead ==
  ASSUME NEW c \in Conns, ReadStray(c)
  PROVE  /\ pc[c] = "lost" /\ UNCHANGED <<sent, seen, cut, replies, split, device>>
         /\ \/ pc' = [pc EXCEPT ![c] = "closed"] /\ UNCHANGED <<m, todo>>
            \/ \E f \in Frames : Dispatch(c, f)
  BY StraysAreFrames DEF ReadStray

(* A request is taken to be served, whoever made it. *)
LEMMA Dispatched ==
  ASSUME TypeOK, EventsTyped, NEW c \in Conns, NEW f \in Frames, Dispatch(c, f)
  PROVE  /\ pc' = [pc EXCEPT ![c] = "serve"] /\ pc'[c] = "serve"
         /\ m' \in [Conns -> Frames] /\ m'[c] = Decoded(f)
         /\ todo' \in [Conns -> Seq(PointerEvents)] /\ todo'[c] = Events(m'[c])
         /\ Burst(todo'[c]) /\ Len(todo'[c]) <= 4
         /\ \A d \in Conns : d # c => pc'[d] = pc[d] /\ m'[d] = m[d] /\ todo'[d] = todo[d]
  <1>1. Decoded(f) \in Frames
    BY DecodedFrame
  <1> DEFINE g == Decoded(f)
  <1>2. /\ pc' = [pc EXCEPT ![c] = "serve"] /\ m' = [m EXCEPT ![c] = g]
        /\ todo' = [todo EXCEPT ![c] = Events(g)]
    BY DEF Dispatch
  <1>3. g \in Frames /\ m'[c] = g /\ Decoded(f) = g
    BY <1>1, <1>2 DEF TypeOK
  <1> HIDE DEF g
  <1>4. Events(g) \in Seq(PointerEvents) /\ Burst(Events(g)) /\ Len(Events(g)) <= 4
    BY <1>3, EventsOfFrame
  <1>5. /\ todo' \in [Conns -> Seq(PointerEvents)] /\ todo'[c] = Events(g)
        /\ \A d \in Conns : d # c => todo'[d] = todo[d]
    BY <1>2, <1>4 DEF EventsTyped
  <1>6. /\ m' \in [Conns -> Frames] /\ pc'[c] = "serve"
        /\ \A d \in Conns : d # c => pc'[d] = pc[d] /\ m'[d] = m[d]
    BY <1>2, <1>3 DEF TypeOK
  <1> QED
    BY <1>2, <1>3, <1>4, <1>5, <1>6

-----------------------------------------------------------------------------
(* Type correctness of the draw connections. *)

LEMMA WireTypeInit == Init => TypeOK /\ EventsTyped
  <1> SUFFICES ASSUME Init PROVE TypeOK /\ EventsTyped
    OBVIOUS
  <1>1. (CHOOSE t \in Tags : TRUE) \in Tags
    BY ThereAreTags
  <1>2. m \in [Conns -> Frames]
    BY <1>1, OriginIsPoint DEF Init, Frames, Kinds
  <1>3. /\ seen \in [Conns -> 0 .. MaxSent] /\ cut \in [Conns -> 0 .. HdrLen + BufLen]
        /\ split \in [Conns -> BOOLEAN]
        /\ pc \in [Conns -> {"header", "body", "serve", "lost", "closed"}]
    BY SizesAreNaturals DEF Init
  <1>4. sent \in [Conns -> Seq(Frames)] /\ replies \in [Conns -> Seq(Replies)] /\ EventsTyped
    BY DEF Init, EventsTyped
  <1>5. \A c \in Conns : Len(todo[c]) <= 4
    BY DEF Init
  <1>6. report = <<>> /\ shown = <<>>
    BY DEF Init
  <1> QED
    BY <1>2, <1>3, <1>4, <1>5, <1>6 DEF TypeOK

LEMMA HeadBeforeTail ==
  ASSUME NEW S, NEW s \in Seq(S), s # <<>>
  PROVE  <<Head(s)>> \o Tail(s) = s
  <1>1. /\ Head(s) \in S /\ Tail(s) \in Seq(S) /\ Len(Tail(s)) = Len(s) - 1
        /\ \A i \in 1 .. Len(Tail(s)) : Tail(s)[i] = s[i + 1]
    BY HeadTailProperties
  <1>2. <<Head(s)>> \in Seq(S) /\ Len(<<Head(s)>>) = 1 /\ <<Head(s)>>[1] = s[1]
    BY <1>1
  <1>3. /\ <<Head(s)>> \o Tail(s) \in Seq(S)
        /\ Len(<<Head(s)>> \o Tail(s)) = Len(s)
        /\ \A i \in 1 .. Len(s) : (<<Head(s)>> \o Tail(s))[i] = s[i]
    BY <1>1, <1>2, ConcatProperties
  <1> QED
    BY <1>3, SeqEqual

LEMMA FrontOfAppend ==
  ASSUME NEW S, NEW s \in Seq(S), NEW x \in S
  PROVE  Front(Append(s, x)) = s
  <1>1. /\ Append(s, x) \in Seq(S) /\ Len(Append(s, x)) = Len(s) + 1
        /\ \A i \in 1 .. Len(s) : Append(s, x)[i] = s[i]
    BY AppendProperties
  <1>2. Front(Append(s, x)) = SubSeq(Append(s, x), 1, Len(s))
    BY <1>1 DEF Front
  <1>3. /\ SubSeq(Append(s, x), 1, Len(s)) \in Seq(S)
        /\ Len(SubSeq(Append(s, x), 1, Len(s))) = Len(s)
        /\ \A i \in 1 .. Len(s) : SubSeq(Append(s, x), 1, Len(s))[i] = Append(s, x)[i]
    BY <1>1, SubSeqProperties
  <1> QED
    BY <1>1, <1>2, <1>3, SeqEqual

(* What Inject does to the device. *)
LEMMA InjectStep ==
  ASSUME TypeOK, EventsTyped, TodoInv, NEW c \in Conns, Inject(c)
  PROVE  /\ todo[c] \in Seq(PointerEvents) /\ todo[c] # <<>>
         /\ Head(todo[c]) \in PointerEvents
         /\ todo' = [todo EXCEPT ![c] = Tail(todo[c])]
         /\ Tail(todo[c]) \in Seq(PointerEvents) /\ Len(Tail(todo[c])) = Len(todo[c]) - 1
         /\ Burst(Tail(todo[c])) /\ (Head(todo[c]) = Syn <=> Tail(todo[c]) = <<>>)
         /\ IF Tail(todo[c]) = <<>>
              THEN shown' = report /\ report' = <<>>
              ELSE report' = Append(report, Head(todo[c])) /\ shown' = shown
         /\ UNCHANGED <<pc, sent, seen, cut, m, replies, split>>
  <1>1. todo[c] \in Seq(PointerEvents) /\ todo[c] # <<>> /\ Burst(todo[c])
    BY DEF EventsTyped, Inject, TodoInv
  <1>2. Len(todo[c]) \in Nat \ {0}
    BY <1>1, EmptySeq
  <1>3. /\ Head(todo[c]) \in PointerEvents /\ Tail(todo[c]) \in Seq(PointerEvents)
        /\ Len(Tail(todo[c])) = Len(todo[c]) - 1
        /\ \A i \in 1 .. Len(Tail(todo[c])) : Tail(todo[c])[i] = todo[c][i + 1]
    BY <1>1, HeadTailProperties
  <1>4. Head(todo[c]) = todo[c][1]
    BY <1>1
  <1>5. Head(todo[c]) = Syn <=> Len(todo[c]) = 1
    <2>1. 1 \in DOMAIN todo[c]
      BY <1>1, <1>2
    <2>2. todo[c][1] = Syn <=> 1 = Len(todo[c])
      BY <1>1, <2>1 DEF Burst
    <2> QED
      BY <1>2, <1>4, <2>2
  <1>6. Tail(todo[c]) = <<>> <=> Len(todo[c]) = 1
    <2>1. \A es \in Seq(PointerEvents) : es = <<>> <=> Len(es) = 0
      BY EmptySeq
    <2>2. Tail(todo[c]) \in Seq(PointerEvents)
      BY <1>3
    <2>3. Len(Tail(todo[c])) = 0 <=> Len(todo[c]) = 1
      <3>1. Len(Tail(todo[c])) = Len(todo[c]) - 1
        BY <1>3
      <3> QED
        BY <1>2, <3>1
    <2> QED
      BY <2>1, <2>2, <2>3
  <1>7. Burst(Tail(todo[c]))
    <2> SUFFICES ASSUME NEW i \in 1 .. Len(Tail(todo[c]))
                 PROVE Tail(todo[c])[i] = Syn <=> i = Len(Tail(todo[c]))
      BY <1>3 DEF Burst
    <2>1. i + 1 \in DOMAIN todo[c] /\ Tail(todo[c])[i] = todo[c][i + 1]
      BY <1>1, <1>2, <1>3
    <2> QED
      BY <1>1, <1>2, <1>3, <2>1 DEF Burst
  <1>8. todo' = [todo EXCEPT ![c] = Tail(todo[c])] /\ ev(Head(todo[c]))
          /\ UNCHANGED <<pc, sent, seen, cut, m, replies, split>>
    BY DEF Inject
  <1>9. IF Tail(todo[c]) = <<>>
          THEN shown' = report /\ report' = <<>>
          ELSE report' = Append(report, Head(todo[c])) /\ shown' = shown
    BY <1>5, <1>6, <1>8 DEF ev
  <1> QED
    BY <1>1, <1>3, <1>5, <1>6, <1>7, <1>8, <1>9

LEMMA WireTypeNext ==
  ASSUME TypeOK, EventsTyped, StreamInv, TodoInv, [Next]_vars
  PROVE  TypeOK' /\ EventsTyped'
  <1>1. ASSUME NEW c \in Conns, Send(c) PROVE TypeOK' /\ EventsTyped'
    <2>1. PICK f \in Requests[c] : sent' = [sent EXCEPT ![c] = Append(@, f)]
      BY <1>1 DEF Send
    <2>2. f \in Frames
      BY <2>1, RequestsAreFrames
    <2>3. sent' \in [Conns -> Seq(Frames)]
      BY <2>1, <2>2 DEF TypeOK
    <2>4. UNCHANGED <<pc, seen, cut, m, todo, replies, split, report, shown>>
      BY <1>1 DEF Send, device
    <2> QED
      BY <2>3, <2>4 DEF TypeOK, EventsTyped
  <1>2. ASSUME NEW c \in Conns, Hangup(c) \/ ReadHeaderPart(c) PROVE TypeOK' /\ EventsTyped'
    <2>1. /\ pc' \in [Conns -> {"header", "body", "serve", "lost", "closed"}]
          /\ split' \in [Conns -> BOOLEAN]
      BY <1>2 DEF Hangup, ReadHeaderPart, TypeOK
    <2>2. UNCHANGED <<sent, seen, cut, m, todo, replies, report, shown>>
      BY <1>2 DEF Hangup, ReadHeaderPart, device
    <2> QED
      BY <2>1, <2>2 DEF TypeOK, EventsTyped
  <1>3. ASSUME NEW c \in Conns, ReadHeader(c) PROVE TypeOK' /\ EventsTyped'
    <2>1. HdrLen \in 0 .. HdrLen + BufLen
      BY SizesAreNaturals
    <2>2. /\ pc' \in [Conns -> {"header", "body", "serve", "lost", "closed"}]
          /\ cut' \in [Conns -> 0 .. HdrLen + BufLen]
      BY <1>3, <2>1 DEF ReadHeader, TypeOK
    <2>3. UNCHANGED <<sent, seen, m, todo, replies, split, report, shown>>
      BY <1>3 DEF ReadHeader, device
    <2> QED
      BY <2>2, <2>3 DEF TypeOK, EventsTyped
  <1>4. ASSUME NEW c \in Conns, ReadBody(c) PROVE TypeOK' /\ EventsTyped'
    <2>1. /\ pc[c] = "body" /\ Waiting(c) /\ UNCHANGED <<sent, replies, split, report, shown>>
          /\ \/ /\ seen' = [seen EXCEPT ![c] = seen[c] + 1]
                /\ cut' = [cut EXCEPT ![c] = 0]
                /\ Dispatch(c, Incoming(c))
             \/ /\ \E n \in cut[c] .. HdrLen + Incoming(c).len - 1 : cut' = [cut EXCEPT ![c] = n]
                /\ UNCHANGED <<seen, pc, m, todo>>
      BY <1>4, BodyRead DEF device
    <2>2. Incoming(c) \in Frames /\ Incoming(c).len \in Nat
      BY <2>1, IncomingFrame
    <2>3. Incoming(c).len <= BufLen /\ seen[c] + 1 \in 0 .. MaxSent /\ cut[c] \in Nat
      BY <2>1, SizesAreNaturals DEF StreamInv, Acceptable, TypeOK
    <2>4. seen' \in [Conns -> 0 .. MaxSent]
      BY <2>1, <2>3 DEF TypeOK
    <2>5. cut' \in [Conns -> 0 .. HdrLen + BufLen]
      <3>1. \A n \in cut[c] .. HdrLen + Incoming(c).len - 1 : n \in 0 .. HdrLen + BufLen
        BY <2>2, <2>3, SizesAreNaturals
      <3>2. 0 \in 0 .. HdrLen + BufLen
        BY SizesAreNaturals
      <3> QED
        BY <2>1, <3>1, <3>2 DEF TypeOK
    <2>6. /\ pc' \in [Conns -> {"header", "body", "serve", "lost", "closed"}]
          /\ m' \in [Conns -> Frames] /\ todo' \in [Conns -> Seq(PointerEvents)]
          /\ \A d \in Conns : Len(todo'[d]) <= 4
      <3>1. CASE Dispatch(c, Incoming(c))
        BY <2>2, <3>1, Dispatched DEF TypeOK
      <3>2. CASE UNCHANGED <<pc, m, todo>>
        BY <3>2 DEF TypeOK, EventsTyped
      <3> QED
        BY <2>1, <3>1, <3>2
    <2> QED
      BY <2>1, <2>4, <2>5, <2>6 DEF TypeOK, EventsTyped
  <1>5. ASSUME NEW c \in Conns, Inject(c) PROVE TypeOK' /\ EventsTyped'
    <2>1. /\ Head(todo[c]) \in PointerEvents
          /\ todo' = [todo EXCEPT ![c] = Tail(todo[c])]
          /\ Tail(todo[c]) \in Seq(PointerEvents) /\ Len(Tail(todo[c])) = Len(todo[c]) - 1
          /\ (Head(todo[c]) = Syn <=> Tail(todo[c]) = <<>>)
          /\ IF Tail(todo[c]) = <<>>
               THEN shown' = report /\ report' = <<>>
               ELSE report' = Append(report, Head(todo[c])) /\ shown' = shown
          /\ UNCHANGED <<pc, sent, seen, cut, m, replies, split>>
      BY <1>5, InjectStep
    <2>2. EventsTyped'
      <3>1. todo' \in [Conns -> Seq(PointerEvents)]
        BY <2>1 DEF EventsTyped
      <3>2. report' \in Seq(PointerEvents) /\ shown' \in Seq(PointerEvents)
        <4>1. report \in Seq(PointerEvents) /\ shown \in Seq(PointerEvents)
          BY DEF EventsTyped
        <4>2. Append(report, Head(todo[c])) \in Seq(PointerEvents)
          BY <2>1, <4>1
        <4>3. <<>> \in Seq(PointerEvents)
          OBVIOUS
        <4> QED
          BY <2>1, <4>1, <4>2, <4>3
      <3> QED
        BY <3>1, <3>2 DEF EventsTyped
    <2>3. \A d \in Conns : Len(todo'[d]) <= 4
      <3>1. Len(todo[c]) \in Nat /\ Len(todo[c]) <= 4
        BY DEF TypeOK, EventsTyped
      <3> QED
        BY <2>1, <3>1 DEF TypeOK, EventsTyped
    <2>4. /\ \A i \in DOMAIN report' : report'[i] # Syn
          /\ \A i \in DOMAIN shown' : shown'[i] # Syn
      <3>1. /\ \A i \in DOMAIN report : report[i] # Syn
            /\ \A i \in DOMAIN shown : shown[i] # Syn
        BY DEF TypeOK
      <3>2. CASE Tail(todo[c]) = <<>>
        BY <2>1, <3>1, <3>2
      <3>3. CASE Tail(todo[c]) # <<>>
        <4>1. report \in Seq(PointerEvents) /\ report' = Append(report, Head(todo[c]))
                /\ shown' = shown /\ Head(todo[c]) # Syn
          BY <2>1, <3>3 DEF EventsTyped
        <4>2. \A i \in DOMAIN report' :
                report'[i] = Head(todo[c]) \/ (i \in DOMAIN report /\ report'[i] = report[i])
          BY <2>1, <4>1
        <4> QED
          BY <3>1, <4>1, <4>2
      <3> QED
        BY <3>2, <3>3
    <2> QED
      BY <2>1, <2>2, <2>3, <2>4 DEF TypeOK
  <1>6. ASSUME NEW c \in Conns, WriteReply(c) PROVE TypeOK' /\ EventsTyped'
    <2> DEFINE k == ReplyKind(m[c])
               reply == [kind |-> k, tag |-> m[c].tag, size |-> size(k), wrote |-> wenc(k)]
    <2>1. m[c] \in Frames
      BY DEF TypeOK
    <2>2. reply \in Replies
      BY <2>1, ReplyFits DEF Replies, Frames
    <2>3. /\ replies' = [replies EXCEPT ![c] = Append(@, reply)]
          /\ pc' = [pc EXCEPT ![c] = IF split[c] THEN "lost" ELSE "header"]
          /\ UNCHANGED <<sent, seen, cut, m, todo, split, report, shown>>
      BY <1>6 DEF WriteReply, device
    <2> HIDE DEF reply
    <2>4. replies' \in [Conns -> Seq(Replies)]
      BY <2>2, <2>3 DEF TypeOK
    <2> QED
      BY <2>3, <2>4 DEF TypeOK, EventsTyped
  <1>7. ASSUME NEW c \in Conns, ReadStray(c) PROVE TypeOK' /\ EventsTyped'
    <2>1. /\ UNCHANGED <<sent, seen, cut, replies, split, report, shown>>
          /\ \/ pc' = [pc EXCEPT ![c] = "closed"] /\ UNCHANGED <<m, todo>>
             \/ \E f \in Frames : Dispatch(c, f)
      BY <1>7, StrayRead DEF device
    <2>2. CASE pc' = [pc EXCEPT ![c] = "closed"] /\ UNCHANGED <<m, todo>>
      BY <2>1, <2>2 DEF TypeOK, EventsTyped
    <2>3. ASSUME NEW f \in Frames, Dispatch(c, f) PROVE TypeOK' /\ EventsTyped'
      <3>1. /\ pc' \in [Conns -> {"header", "body", "serve", "lost", "closed"}]
            /\ m' \in [Conns -> Frames] /\ todo' \in [Conns -> Seq(PointerEvents)]
            /\ \A d \in Conns : Len(todo'[d]) <= 4
        BY <2>3, Dispatched DEF TypeOK
      <3> QED
        BY <2>1, <3>1 DEF TypeOK, EventsTyped
    <2> QED
      BY <2>1, <2>2, <2>3
  <1>8. CASE UNCHANGED vars
    BY <1>8 DEF vars, device, TypeOK, EventsTyped
  <1> QED
    BY <1>1, <1>2, <1>3, <1>4, <1>5, <1>6, <1>7, <1>8 DEF Next, handleDraw

-----------------------------------------------------------------------------
(* The stream and its replies. *)

LEMMA StreamNext ==
  ASSUME TypeOK, EventsTyped, TodoInv, StreamInv, [Next]_vars
  PROVE  StreamInv'
  <1>0. ASSUME NEW d \in Conns
        PROVE  sent[d] \in Seq(Frames) /\ seen[d] \in Nat /\ cut[d] \in Nat
    BY SizesAreNaturals DEF TypeOK
  <1>1. ASSUME NEW c \in Conns, Send(c) PROVE StreamInv'
    <2>1. PICK f \in Frames : sent' = [sent EXCEPT ![c] = Append(@, f)]
      BY <1>1, RequestsAreFrames DEF Send
    <2>2. UNCHANGED <<pc, seen, cut, split>> /\ Len(sent[c]) < MaxSent
      BY <1>1 DEF Send
    <2>3. /\ sent'[c] = Append(sent[c], f)
          /\ \A d \in Conns : d # c => sent'[d] = sent[d]
      BY <2>1 DEF TypeOK
    <2>4. ASSUME NEW d \in Conns
          PROVE  /\ Len(sent[d]) <= Len(sent'[d])
                 /\ Len(sent[d]) <= MaxSent => Len(sent'[d]) <= MaxSent
                 /\ seen[d] < Len(sent[d]) => Incoming(d)' = Incoming(d)
      <3>1. CASE d = c
        BY <1>0, <2>1, <2>2, <2>3, <3>1, SizesAreNaturals DEF Incoming
      <3>2. CASE d # c
        BY <1>0, <2>2, <2>3, <3>2 DEF Incoming
      <3> QED
        BY <3>1, <3>2
    <2>5. ASSUME NEW d \in Conns
          PROVE  Len(sent[d]) \in Nat /\ Len(sent'[d]) \in Nat
      <3>1. sent[d] \in Seq(Frames) /\ sent'[d] \in Seq(Frames)
        BY <1>0, <2>1, <2>3
      <3> QED
        BY <3>1
    <2> QED
      BY <1>0, <2>2, <2>4, <2>5 DEF StreamInv
  <1>2. ASSUME NEW c \in Conns, Hangup(c) \/ ReadHeaderPart(c) PROVE StreamInv'
    BY <1>2 DEF Hangup, ReadHeaderPart, StreamInv, Incoming, TypeOK
  <1>3. ASSUME NEW c \in Conns, ReadHeader(c) PROVE StreamInv'
    <2>1. /\ pc[c] = "header" /\ Waiting(c) /\ cut[c] = 0
          /\ UNCHANGED <<sent, seen, split>>
      BY <1>3 DEF ReadHeader, StreamInv
    <2>2. Incoming(c).len \in Nat
      BY <2>1, IncomingFrame
    <2>3. CASE Acceptable(Incoming(c).len)
      <3>1. /\ pc' = [pc EXCEPT ![c] = "body"] /\ cut' = [cut EXCEPT ![c] = HdrLen]
        BY <1>3, <2>1, <2>3 DEF ReadHeader
      <3>2. HdrLen < HdrLen + Incoming(c).len
        BY <2>2, <2>3, SizesAreNaturals DEF Acceptable
      <3> QED
        BY <2>1, <2>3, <3>1, <3>2, SizesAreNaturals DEF StreamInv, Incoming, Waiting, TypeOK
    <2>4. CASE ~Acceptable(Incoming(c).len)
      <3>1. pc' = [pc EXCEPT ![c] = "closed"] /\ cut' = cut
        BY <1>3, <2>1, <2>4 DEF ReadHeader
      <3> QED
        BY <2>1, <3>1 DEF StreamInv, Incoming, TypeOK
    <2> QED
      BY <2>3, <2>4
  <1>4. ASSUME NEW c \in Conns, ReadBody(c) PROVE StreamInv'
    <2>1. /\ pc[c] = "body" /\ Waiting(c) /\ UNCHANGED <<sent, split>>
          /\ \/ /\ seen' = [seen EXCEPT ![c] = seen[c] + 1]
                /\ cut' = [cut EXCEPT ![c] = 0]
                /\ Dispatch(c, Incoming(c))
             \/ /\ \E n \in cut[c] .. HdrLen + Incoming(c).len - 1 : cut' = [cut EXCEPT ![c] = n]
                /\ UNCHANGED <<seen, pc, m, todo>>
      BY <1>4, BodyRead
    <2>2. Incoming(c).len \in Nat
      BY <2>1, IncomingFrame
    <2>3. CASE /\ seen' = [seen EXCEPT ![c] = seen[c] + 1]
               /\ cut' = [cut EXCEPT ![c] = 0]
               /\ Dispatch(c, Incoming(c))
      BY <1>0, <2>1, <2>3 DEF StreamInv, Dispatch, Incoming, Waiting, TypeOK
    <2>4. ASSUME NEW n \in cut[c] .. HdrLen + Incoming(c).len - 1,
                 cut' = [cut EXCEPT ![c] = n], UNCHANGED <<seen, pc>>
          PROVE  StreamInv'
      <3>1. HdrLen <= n /\ n < HdrLen + Incoming(c).len
        BY <1>0, <2>1, <2>2, <2>4, SizesAreNaturals DEF StreamInv
      <3> QED
        BY <2>1, <2>4, <3>1 DEF StreamInv, Incoming, TypeOK
    <2> QED
      BY <2>1, <2>3, <2>4
  <1>5. ASSUME NEW c \in Conns, Inject(c) \/ WriteReply(c) PROVE StreamInv'
    <2>1. UNCHANGED <<sent, seen, cut, split>>
      BY <1>5 DEF Inject, WriteReply
    <2>2. \A d \in Conns :
            \/ pc'[d] = pc[d]
            \/ pc[d] = "serve" /\ pc'[d] = IF split[d] THEN "lost" ELSE "header"
      BY <1>5 DEF Inject, WriteReply, TypeOK
    <2> QED
      BY <2>1, <2>2 DEF StreamInv, Incoming
  <1>6. ASSUME NEW c \in Conns, ReadStray(c) PROVE StreamInv'
    <2>1. /\ pc[c] = "lost" /\ UNCHANGED <<sent, seen, cut, split>>
          /\ \/ pc' = [pc EXCEPT ![c] = "closed"]
             \/ pc' = [pc EXCEPT ![c] = "serve"]
      BY <1>6, StrayRead DEF Dispatch
    <2>2. \A d \in Conns :
            \/ pc'[d] = pc[d]
            \/ pc[d] = "lost" /\ pc'[d] \in {"closed", "serve"}
      BY <2>1 DEF TypeOK
    <2> QED
      BY <2>1, <2>2 DEF StreamInv, Incoming
  <1>7. CASE UNCHANGED vars
    BY <1>7 DEF vars, StreamInv, Incoming
  <1> QED
    BY <1>1, <1>2, <1>3, <1>4, <1>5, <1>6, <1>7 DEF Next, handleDraw

(* Frames that were taken stay as they were. *)
LEMMA TakenStay ==
  ASSUME TypeOK, StreamInv, [Next]_vars, NEW c \in Conns
  PROVE  /\ Len(sent[c]) \in Nat /\ Len(sent'[c]) \in Nat /\ Len(sent[c]) <= Len(sent'[c])
         /\ \A i \in 1 .. Len(sent[c]) : sent'[c][i] = sent[c][i]
         /\ sent'[c] \in Seq(Frames)
  <1>0. sent[c] \in Seq(Frames)
    BY DEF TypeOK
  <1>1. ASSUME NEW d \in Conns, Send(d)
        PROVE  sent'[c] = sent[c] \/ \E f \in Frames : sent'[c] = Append(sent[c], f)
    <2>1. PICK f \in Frames : sent' = [sent EXCEPT ![d] = Append(@, f)]
      BY <1>1, RequestsAreFrames DEF Send
    <2>2. sent'[c] = IF c = d THEN Append(sent[c], f) ELSE sent[c]
      BY <2>1 DEF TypeOK
    <2> QED
      BY <2>2
  <1>2. CASE sent' = sent
    BY <1>0, <1>2
  <1>3. sent'[c] = sent[c] \/ \E f \in Frames : sent'[c] = Append(sent[c], f)
    BY <1>1, <1>2 DEF Next, vars, Hangup, handleDraw, ReadHeader, ReadHeaderPart,
       ReadStray, ReadBody, Inject, WriteReply
  <1>4. CASE sent'[c] = sent[c]
    BY <1>0, <1>4
  <1>5. ASSUME NEW f \in Frames, sent'[c] = Append(sent[c], f)
        PROVE  /\ Len(sent'[c]) = Len(sent[c]) + 1
               /\ \A i \in 1 .. Len(sent[c]) : sent'[c][i] = sent[c][i]
               /\ sent'[c] \in Seq(Frames)
    BY <1>0, <1>5, AppendProperties
  <1> QED
    BY <1>0, <1>3, <1>4, <1>5

LEMMA ServeNext ==
  ASSUME TypeOK, EventsTyped, TodoInv, StreamInv, ServeInv, [Next]_vars
  PROVE  ServeInv'
  <1>0. ASSUME NEW d \in Conns
        PROVE  /\ replies[d] \in Seq(Replies) /\ Len(replies[d]) \in Nat /\ seen[d] \in Nat
               /\ seen[d] <= Len(sent[d])
               /\ Len(sent[d]) \in Nat /\ \A i \in 1 .. Len(sent[d]) : sent'[d][i] = sent[d][i]
    BY TakenStay, SizesAreNaturals DEF TypeOK, StreamInv
  <1>1. ASSUME NEW c \in Conns, Send(c) \/ Hangup(c) \/ ReadHeader(c)
        PROVE  ServeInv'
    <2>1. UNCHANGED <<seen, m, todo, replies, split>>
      BY <1>1 DEF Send, Hangup, ReadHeader
    <2>2. \A d \in Conns : pc'[d] = "serve" <=> pc[d] = "serve"
      BY <1>1 DEF Send, Hangup, ReadHeader, TypeOK
    <2> QED
      BY <1>0, <2>1, <2>2 DEF ServeInv
  <1>2. ASSUME NEW c \in Conns, ReadHeaderPart(c) PROVE ServeInv'
    <2>1. /\ pc[c] = "header" /\ UNCHANGED <<sent, seen, m, todo, replies>>
          /\ split' = [split EXCEPT ![c] = TRUE]
          /\ \E to \in {"lost", "closed"} : pc' = [pc EXCEPT ![c] = to]
      BY <1>2 DEF ReadHeaderPart
    <2>2. Len(replies[c]) = seen[c] /\ todo[c] = <<>>
      BY <2>1 DEF StreamInv, ServeInv
    <2>3. /\ pc'[c] # "serve" /\ split'[c]
          /\ \A d \in Conns : d # c => pc'[d] = pc[d] /\ split'[d] = split[d]
      BY <2>1 DEF TypeOK
    <2> QED
      BY <1>0, <2>1, <2>2, <2>3 DEF ServeInv
  <1>3. ASSUME NEW c \in Conns, ReadBody(c) PROVE ServeInv'
    <2>1. /\ pc[c] = "body" /\ Waiting(c) /\ UNCHANGED <<sent, replies, split>>
          /\ \/ /\ seen' = [seen EXCEPT ![c] = seen[c] + 1]
                /\ Dispatch(c, Incoming(c))
             \/ UNCHANGED <<seen, pc, m, todo>>
      BY <1>3, BodyRead
    <2>2. CASE seen' = [seen EXCEPT ![c] = seen[c] + 1] /\ Dispatch(c, Incoming(c))
      <3>1. Incoming(c) \in Frames
        BY <2>1, IncomingFrame
      <3>2. /\ pc'[c] = "serve" /\ seen'[c] = seen[c] + 1 /\ m'[c] = Decoded(sent[c][seen[c] + 1])
            /\ Len(replies[c]) = seen[c] /\ ~split[c]
        BY <2>1, <2>2, <3>1, Dispatched DEF TypeOK, StreamInv, ServeInv, Incoming
      <3>3. ASSUME NEW d \in Conns, d # c
            PROVE  pc'[d] = pc[d] /\ seen'[d] = seen[d] /\ m'[d] = m[d] /\ todo'[d] = todo[d]
        BY <2>2, <3>1, <3>3, Dispatched DEF TypeOK
      <3> QED
        BY <1>0, <2>1, <3>2, <3>3 DEF ServeInv
    <2>3. CASE UNCHANGED <<seen, pc, m, todo>>
      BY <2>1, <2>3 DEF ServeInv
    <2> QED
      BY <2>1, <2>2, <2>3
  <1>4. ASSUME NEW c \in Conns, Inject(c) PROVE ServeInv'
    <2>1. /\ pc[c] = "serve" /\ UNCHANGED <<pc, sent, seen, m, replies, split>>
      BY <1>4 DEF Inject
    <2>2. \A d \in Conns : d # c => todo'[d] = todo[d]
      BY <1>4 DEF Inject, EventsTyped
    <2> QED
      BY <2>1, <2>2 DEF ServeInv
  <1>5. ASSUME NEW c \in Conns, WriteReply(c) PROVE ServeInv'
    <2> DEFINE k == ReplyKind(m[c])
               reply == [kind |-> k, tag |-> m[c].tag, size |-> size(k), wrote |-> wenc(k)]
    <2>1. /\ replies' = [replies EXCEPT ![c] = Append(@, reply)]
          /\ pc' = [pc EXCEPT ![c] = IF split[c] THEN "lost" ELSE "header"]
          /\ pc[c] = "serve" /\ todo[c] = <<>>
          /\ UNCHANGED <<sent, seen, m, todo, split>>
      BY <1>5 DEF WriteReply
    <2> HIDE DEF reply
    <2>2. /\ Len(replies'[c]) = Len(replies[c]) + 1 /\ pc'[c] # "serve"
          /\ \A d \in Conns : d # c => replies'[d] = replies[d] /\ pc'[d] = pc[d]
      BY <1>0, <2>1 DEF TypeOK
    <2> QED
      BY <1>0, <2>1, <2>2 DEF ServeInv
  <1>6. ASSUME NEW c \in Conns, ReadStray(c) PROVE ServeInv'
    <2>1. /\ pc[c] = "lost" /\ UNCHANGED <<sent, seen, replies, split>>
          /\ \/ pc' = [pc EXCEPT ![c] = "closed"] /\ UNCHANGED <<m, todo>>
             \/ \E f \in Frames : Dispatch(c, f)
      BY <1>6, StrayRead
    <2>2. split[c] /\ todo[c] = <<>>
      BY <2>1 DEF StreamInv, ServeInv
    <2>3. CASE pc' = [pc EXCEPT ![c] = "closed"] /\ UNCHANGED <<m, todo>>
      BY <2>1, <2>2, <2>3 DEF ServeInv, TypeOK
    <2>4. ASSUME NEW f \in Frames, Dispatch(c, f) PROVE ServeInv'
      <3>1. /\ pc'[c] = "serve"
            /\ \A d \in Conns : d # c => pc'[d] = pc[d] /\ m'[d] = m[d] /\ todo'[d] = todo[d]
        BY <2>4, Dispatched
      <3> QED
        BY <2>1, <2>2, <3>1 DEF ServeInv
    <2> QED
      BY <2>1, <2>3, <2>4
  <1>7. CASE UNCHANGED vars
    BY <1>7 DEF vars, ServeInv
  <1> QED
    BY <1>1, <1>2, <1>3, <1>4, <1>5, <1>6, <1>7 DEF Next, handleDraw

LEMMA RepliesNext ==
  ASSUME TypeOK, StreamInv, ServeInv, RepliesMatch, [Next]_vars
  PROVE  RepliesMatch'
  <1>0. ASSUME NEW d \in Conns
        PROVE  /\ replies[d] \in Seq(Replies) /\ Len(replies[d]) \in Nat /\ seen[d] \in Nat
               /\ seen[d] <= Len(sent[d])
               /\ Len(sent[d]) \in Nat /\ \A i \in 1 .. Len(sent[d]) : sent'[d][i] = sent[d][i]
    BY TakenStay, SizesAreNaturals DEF TypeOK, StreamInv
  <1>1. ASSUME NEW c \in Conns, ReadBody(c) PROVE RepliesMatch'
    <2>1. /\ pc[c] = "body" /\ UNCHANGED <<sent, replies, split>>
          /\ seen' = [seen EXCEPT ![c] = seen[c] + 1] \/ seen' = seen
      BY <1>1, BodyRead
    <2>2. Len(replies[c]) = seen[c]
      BY <2>1 DEF StreamInv, ServeInv
    <2>3. /\ seen'[c] = seen[c] \/ seen'[c] = seen[c] + 1
          /\ \A d \in Conns : d # c => seen'[d] = seen[d]
      BY <2>1 DEF TypeOK
    <2>4. ASSUME NEW d \in Conns, NEW i \in DOMAIN replies[d]
          PROVE  /\ i <= seen'[d] <=> i <= seen[d]
                 /\ i \in Nat
      <3>1. i \in 1 .. Len(replies[d])
        BY <1>0
      <3>2. CASE d = c
        BY <1>0, <2>2, <2>3, <3>1, <3>2
      <3>3. CASE d # c
        BY <2>3, <3>1, <3>3
      <3> QED
        BY <3>2, <3>3
    <2> QED
      BY <2>1, <2>4 DEF RepliesMatch
  <1>2. ASSUME NEW c \in Conns, Send(c) PROVE RepliesMatch'
    <2>1. UNCHANGED <<seen, replies, split>>
      BY <1>2 DEF Send
    <2>2. ASSUME NEW d \in Conns, NEW i \in DOMAIN replies[d], i <= seen[d]
          PROVE  sent'[d][i] = sent[d][i]
      <3>1. i \in 1 .. Len(sent[d])
        BY <1>0, <2>2
      <3> QED
        BY <1>0, <3>1
    <2> QED
      BY <2>1, <2>2 DEF RepliesMatch
  <1>3. ASSUME NEW c \in Conns, ReadHeaderPart(c) PROVE RepliesMatch'
    <2>1. /\ UNCHANGED <<sent, seen, replies>>
          /\ \A d \in Conns : split[d] => split'[d]
      BY <1>3 DEF ReadHeaderPart, TypeOK
    <2> QED
      BY <2>1 DEF RepliesMatch
  <1>4. CASE UNCHANGED <<sent, seen, replies, split>>
    BY <1>4 DEF RepliesMatch
  <1>5. ASSUME NEW c \in Conns, WriteReply(c) PROVE RepliesMatch'
    <2> DEFINE k == ReplyKind(m[c])
               reply == [kind |-> k, tag |-> m[c].tag, size |-> size(k), wrote |-> wenc(k)]
    <2>1. /\ replies' = [replies EXCEPT ![c] = Append(@, reply)]
          /\ pc[c] = "serve" /\ UNCHANGED <<sent, seen, split>>
      BY <1>5 DEF WriteReply
    <2>2. m[c] \in Frames /\ reply.size = reply.wrote /\ reply.tag = m[c].tag
            /\ reply.kind = ReplyKind(m[c])
      <3>1. m[c] \in Frames
        BY DEF TypeOK
      <3> QED
        BY <3>1, ReplyFits
    <2>3. ASSUME ~split[c]
          PROVE  /\ Len(replies[c]) + 1 = seen[c]
                 /\ reply.kind = ReplyKind(sent[c][seen[c]]) /\ reply.tag = sent[c][seen[c]].tag
      <3>1. /\ Len(replies[c]) + 1 = seen[c] /\ seen[c] \in 1 .. Len(sent[c])
            /\ m[c] = Decoded(sent[c][seen[c]])
        BY <1>0, <2>1, <2>3 DEF ServeInv
      <3>2. sent[c][seen[c]] \in Frames
        BY <3>1 DEF TypeOK
      <3>3. m[c].kind = sent[c][seen[c]].kind /\ m[c].tag = sent[c][seen[c]].tag
        BY <3>1, <3>2, DecodedFrame
      <3>4. ReplyKind(m[c]) = ReplyKind(sent[c][seen[c]])
        BY <3>3 DEF ReplyKind
      <3> QED
        BY <2>2, <3>1, <3>3, <3>4
    <2>4. split[c] => Len(replies[c]) >= seen[c]
      BY DEF ServeInv
    <2> HIDE DEF reply
    <2>5. /\ replies'[c] = Append(replies[c], reply)
          /\ \A d \in Conns : d # c => replies'[d] = replies[d]
      BY <2>1 DEF TypeOK
    <2>6. ASSUME NEW i \in DOMAIN replies'[c]
          PROVE  /\ i \in Nat
                 /\ \/ i = Len(replies[c]) + 1 /\ replies'[c][i] = reply
                    \/ i \in DOMAIN replies[c] /\ replies'[c][i] = replies[c][i]
      BY <1>0, <2>5, <2>6
    <2>7. ASSUME NEW i \in DOMAIN replies'[c]
          PROVE  /\ i <= seen[c] => /\ replies'[c][i].kind = ReplyKind(sent[c][i])
                                    /\ replies'[c][i].tag = sent[c][i].tag
                 /\ ~split[c] => i <= seen[c]
                 /\ replies'[c][i].size = replies'[c][i].wrote
      <3>1. CASE i = Len(replies[c]) + 1 /\ replies'[c][i] = reply
        <4>1. CASE split[c]
          BY <1>0, <2>2, <2>4, <3>1, <4>1
        <4>2. CASE ~split[c]
          BY <1>0, <2>2, <2>3, <3>1, <4>2
        <4> QED
          BY <4>1, <4>2
      <3>2. CASE i \in DOMAIN replies[c] /\ replies'[c][i] = replies[c][i]
        BY <3>2 DEF RepliesMatch
      <3> QED
        BY <2>6, <3>1, <3>2
    <2> QED
      BY <2>1, <2>5, <2>7 DEF RepliesMatch
  <1> QED
    BY <1>1, <1>2, <1>3, <1>4, <1>5 DEF Next, vars, Hangup, handleDraw, ReadHeader,
       ReadStray, Inject

-----------------------------------------------------------------------------
(* The pointer device. *)

LEMMA TodoNext ==
  ASSUME TypeOK, EventsTyped, StreamInv, ServeInv, TodoInv, [Next]_vars
  PROVE  TodoInv'
  <1>0. ASSUME NEW c \in Conns, NEW f \in Frames, Dispatch(c, f) PROVE TodoInv'
    <2>1. /\ todo'[c] = Events(m'[c]) /\ Burst(todo'[c]) /\ Len(todo'[c]) <= 4
          /\ \A d \in Conns : d # c => m'[d] = m[d] /\ todo'[d] = todo[d]
      BY <1>0, Dispatched
    <2> QED
      BY <2>1 DEF TodoInv
  <1>1. ASSUME NEW c \in Conns, ReadBody(c) PROVE TodoInv'
    <2>1. /\ pc[c] = "body" /\ Waiting(c)
          /\ Dispatch(c, Incoming(c)) \/ UNCHANGED <<m, todo>>
      BY <1>1, BodyRead
    <2>2. Dispatch(c, Incoming(c)) => TodoInv'
      BY <1>0, <2>1, IncomingFrame
    <2>3. CASE UNCHANGED <<m, todo>>
      BY <2>3 DEF TodoInv
    <2> QED
      BY <2>1, <2>2, <2>3
  <1>2. ASSUME NEW c \in Conns, Inject(c) PROVE TodoInv'
    <2>1. /\ todo[c] \in Seq(PointerEvents) /\ todo[c] # <<>>
          /\ todo' = [todo EXCEPT ![c] = Tail(todo[c])]
          /\ Len(Tail(todo[c])) = Len(todo[c]) - 1
          /\ Burst(Tail(todo[c])) /\ m' = m
      BY <1>2, InjectStep
    <2>2. /\ todo'[c] = Tail(todo[c])
          /\ \A d \in Conns : d # c => todo'[d] = todo[d]
      BY <2>1 DEF EventsTyped
    <2>3. Len(todo[c]) \in Nat /\ Len(todo[c]) <= 4
      BY <2>1 DEF TodoInv
    <2> QED
      BY <2>1, <2>2, <2>3 DEF TodoInv
  <1>3. CASE UNCHANGED <<m, todo>>
    BY <1>3 DEF TodoInv
  <1>4. ASSUME NEW c \in Conns, ReadStray(c) PROVE TodoInv'
    BY <1>0, <1>3, <1>4, StrayRead
  <1> QED
    BY <1>1, <1>2, <1>3, <1>4 DEF Next, vars, Send, Hangup, handleDraw, ReadHeader,
       ReadHeaderPart, WriteReply

LEMMA SettleNext ==
  ASSUME TypeOK, EventsTyped, StreamInv, ServeInv, TodoInv, SettleInv, [Next]_vars
  PROVE  SettleInv'
  <1>0. ASSUME NEW c \in Conns, NEW f, Dispatch(c, f), pc[c] # "serve", report' = report
        PROVE  SettleInv'
    <2>1. todo[c] = <<>> /\ \A d \in Conns : d # c => todo'[d] = todo[d]
      BY <1>0 DEF Dispatch, EventsTyped, ServeInv
    <2> QED
      BY <1>0, <2>1 DEF SettleInv
  <1>1. ASSUME NEW c \in Conns, ReadBody(c) \/ ReadStray(c) PROVE SettleInv'
    <2>1. /\ pc[c] # "serve" /\ report' = report
          /\ (\E f : Dispatch(c, f)) \/ UNCHANGED todo
      BY <1>1, BodyRead, StrayRead DEF device
    <2>2. CASE UNCHANGED todo
      BY <2>1, <2>2 DEF SettleInv
    <2> QED
      BY <1>0, <2>1, <2>2
  <1>2. ASSUME NEW c \in Conns, Inject(c) PROVE SettleInv'
    <2>1. /\ todo' = [todo EXCEPT ![c] = Tail(todo[c])]
          /\ IF Tail(todo[c]) = <<>>
               THEN shown' = report /\ report' = <<>>
               ELSE report' = Append(report, Head(todo[c])) /\ shown' = shown
      BY <1>2, InjectStep
    <2>2. todo'[c] = Tail(todo[c])
      BY <2>1 DEF EventsTyped
    <2> QED
      BY <2>1, <2>2 DEF SettleInv
  <1>3. CASE UNCHANGED <<todo, report>>
    BY <1>3 DEF SettleInv
  <1> QED
    BY <1>1, <1>2, <1>3 DEF Next, vars, device, Send, Hangup, handleDraw, ReadHeader,
       ReadHeaderPart, WriteReply

(* Only a client that points, or one whose place is lost, has events to    *)
(* tell.                                                                   *)
LEMMA TellersPoint ==
  ASSUME TypeOK, StreamInv, ServeInv, TodoInv, NEW c \in Conns, ~split[c], todo[c] # <<>>
  PROVE  Points(c)
  <1>1. /\ pc[c] = "serve" /\ m[c] = Decoded(sent[c][seen[c]]) /\ seen[c] \in 1 .. Len(sent[c])
    BY SizesAreNaturals DEF ServeInv, StreamInv, TypeOK
  <1>2. sent[c] \in Seq(Frames) /\ seen[c] \in DOMAIN sent[c] /\ sent[c][seen[c]] \in Frames
    BY <1>1 DEF TypeOK
  <1>3. Decoded(sent[c][seen[c]]) \in Frames
          /\ Decoded(sent[c][seen[c]]).kind = sent[c][seen[c]].kind
    BY <1>2, DecodedFrame
  <1>4. Events(m[c]) # <<>>
    BY DEF TodoInv
  <1>5. sent[c][seen[c]].kind \in {"Tmoveto", "Tbouncemouse"}
    BY <1>1, <1>3, <1>4, EventsOfFrame
  <1>6. Events(sent[c][seen[c]]) # <<>>
    BY <1>2, <1>5, EventsOfFrame
  <1> QED
    BY <1>2, <1>6 DEF Points

LEMMA AloneBefore ==
  ASSUME TypeOK, StreamInv, [Next]_vars, NEW c \in Conns, Alone(c)'
  PROVE  Alone(c)
  <1>0. \A d \in Conns : split[d] => split'[d]
    BY DEF Next, vars, Send, Hangup, handleDraw, ReadHeader, ReadHeaderPart,
       ReadStray, ReadBody, Inject, WriteReply, TypeOK
  <1> SUFFICES ASSUME NEW d \in Conns, NEW i \in DOMAIN sent[d], Events(sent[d][i]) # <<>>
               PROVE d = c
    BY <1>0 DEF Alone, Points
  <1>1. i \in 1 .. Len(sent[d]) /\ sent[d] \in Seq(Frames) /\ sent'[d] \in Seq(Frames)
    BY TakenStay DEF TypeOK
  <1>2. sent'[d][i] = sent[d][i] /\ Len(sent[d]) <= Len(sent'[d])
    BY <1>1, TakenStay
  <1>3. i \in DOMAIN sent'[d]
    BY <1>1, <1>2
  <1> QED
    BY <1>2, <1>3 DEF Alone, Points

LEMMA AloneNext ==
  ASSUME TypeOK, EventsTyped, StreamInv, ServeInv, TodoInv, SettleInv, AloneInv, [Next]_vars
  PROVE  AloneInv'
  <1> SUFFICES ASSUME NEW c \in Conns, Alone(c)'
               PROVE  /\ todo'[c] # <<>> => report' \o todo'[c] = Events(m'[c])
                      /\ todo'[c] = <<>> /\ Events(m'[c]) # <<>> =>
                           report' = <<>> /\ shown' = Front(Events(m'[c]))
    BY DEF AloneInv
  <1>1. /\ todo[c] # <<>> => report \o todo[c] = Events(m[c])
        /\ todo[c] = <<>> /\ Events(m[c]) # <<>> =>
             report = <<>> /\ shown = Front(Events(m[c]))
    BY AloneBefore DEF AloneInv
  <1>2. \A d \in Conns : d # c => todo[d] = <<>>
    BY AloneBefore, TellersPoint DEF Alone
  <1>3. ASSUME NEW d \in Conns, ReadBody(d), ~ UNCHANGED <<m, todo>>
        PROVE  /\ todo'[c] # <<>> => report' \o todo'[c] = Events(m'[c])
               /\ todo'[c] = <<>> /\ Events(m'[c]) # <<>> =>
                    report' = <<>> /\ shown' = Front(Events(m'[c]))
    <2>1. /\ pc[d] = "body" /\ Waiting(d) /\ Dispatch(d, Incoming(d))
          /\ UNCHANGED <<report, shown>>
      BY <1>3, BodyRead DEF device
    <2>0. Incoming(d) \in Frames
      BY <2>1, IncomingFrame
    <2>2. CASE d = c
      <3>3. todo'[c] = Events(m'[c]) /\ todo'[c] \in Seq(PointerEvents)
        BY <2>0, <2>1, <2>2, Dispatched
      <3>4. todo[c] = <<>>
        BY <2>1, <2>2 DEF ServeInv
      <3>5. report' = <<>>
        BY <1>2, <2>1, <3>4 DEF SettleInv
      <3> QED
        BY <3>3, <3>5, ConcatEmptySeq
    <2>3. CASE d # c
      <3>1. m'[c] = m[c] /\ todo'[c] = todo[c]
        BY <2>0, <2>1, <2>3, Dispatched
      <3> QED
        BY <1>1, <2>1, <3>1
    <2> QED
      BY <2>2, <2>3
  <1>4. ASSUME NEW d \in Conns, Inject(d)
        PROVE  /\ todo'[c] # <<>> => report' \o todo'[c] = Events(m'[c])
               /\ todo'[c] = <<>> /\ Events(m'[c]) # <<>> =>
                    report' = <<>> /\ shown' = Front(Events(m'[c]))
    <2>1. d = c
      BY <1>2, <1>4 DEF Inject
    <2>2. /\ todo[c] \in Seq(PointerEvents) /\ todo[c] # <<>>
          /\ Head(todo[c]) \in PointerEvents
          /\ todo' = [todo EXCEPT ![c] = Tail(todo[c])]
          /\ Tail(todo[c]) \in Seq(PointerEvents)
          /\ IF Tail(todo[c]) = <<>>
               THEN shown' = report /\ report' = <<>>
               ELSE report' = Append(report, Head(todo[c])) /\ shown' = shown
          /\ m' = m
      BY <1>4, <2>1, InjectStep
    <2>3. todo'[c] = Tail(todo[c]) /\ report \in Seq(PointerEvents)
      BY <2>2 DEF EventsTyped
    <2>4. <<Head(todo[c])>> \in Seq(PointerEvents)
      BY <2>2
    <2>5. <<Head(todo[c])>> \o Tail(todo[c]) = todo[c]
      BY <2>2, HeadBeforeTail
    <2>6. Append(report, Head(todo[c])) = report \o <<Head(todo[c])>>
      BY <2>2, <2>3, AppendIsConcat
    <2>7. Append(report, Head(todo[c])) \o Tail(todo[c]) = Events(m[c])
      <3>1. (report \o <<Head(todo[c])>>) \o Tail(todo[c])
              = report \o (<<Head(todo[c])>> \o Tail(todo[c]))
        <4>1. \A r, s, t \in Seq(PointerEvents) : (r \o s) \o t = r \o (s \o t)
          BY ConcatAssociative
        <4>2. Tail(todo[c]) \in Seq(PointerEvents)
          BY <2>2
        <4> QED
          BY <2>3, <2>4, <4>1, <4>2
      <3> QED
        BY <1>1, <2>2, <2>5, <2>6, <3>1
    <2>8. CASE Tail(todo[c]) = <<>>
      <3>1. Append(report, Head(todo[c])) = Events(m[c])
        <4>1. Append(report, Head(todo[c])) \in Seq(PointerEvents)
          BY <2>2, <2>3
        <4> QED
          BY <2>7, <2>8, <4>1, ConcatEmptySeq
      <3>2. Front(Append(report, Head(todo[c]))) = report
        BY <2>2, <2>3, FrontOfAppend
      <3> QED
        BY <2>2, <2>3, <2>8, <3>1, <3>2
    <2>9. CASE Tail(todo[c]) # <<>>
      BY <2>2, <2>3, <2>7, <2>9
    <2> QED
      BY <2>8, <2>9
  <1>5. CASE UNCHANGED <<m, todo, report, shown>>
    BY <1>1, <1>5
  <1>6. \A d \in Conns : ~split[d]
    BY AloneBefore DEF Alone
  <1>7. \A d \in Conns : ~ReadStray(d)
    BY <1>6 DEF ReadStray, StreamInv
  <1> QED
    BY <1>3, <1>4, <1>5, <1>7 DEF Next, vars, device, Send, Hangup, handleDraw, ReadHeader,
       ReadHeaderPart, WriteReply, ReadBody

-----------------------------------------------------------------------------
LEMMA WireHolds == Spec => []WireInv
  <1>1. Init => WireInv
    <2> SUFFICES ASSUME Init PROVE WireInv
      OBVIOUS
    <2>1. TypeOK /\ EventsTyped
      BY WireTypeInit
    <2>2. StreamInv
      BY SizesAreNaturals DEF Init, StreamInv, Incoming
    <2>3. ServeInv /\ RepliesMatch
      BY DEF Init, ServeInv, RepliesMatch
    <2>4. TodoInv /\ SettleInv
      BY DEF Init, TodoInv, SettleInv, Burst
    <2>5. AloneInv
      <3>1. ASSUME NEW c \in Conns PROVE todo[c] = <<>> /\ Events(m[c]) = <<>>
        <4>1. m[c] \in Frames /\ m[c].kind = "unknown" /\ todo[c] = <<>>
          BY <2>1 DEF Init, TypeOK
        <4> QED
          BY <4>1, EventsOfFrame
      <3> QED
        BY <3>1 DEF AloneInv
    <2> QED
      BY <2>1, <2>2, <2>3, <2>4, <2>5 DEF WireInv
  <1>2. WireInv /\ [Next]_vars => WireInv'
    BY WireTypeNext, StreamNext, ServeNext, RepliesNext, TodoNext, SettleNext, AloneNext
    DEF WireInv
  <1> QED
    BY <1>1, <1>2, PTL DEF Spec

(* However the reads cut the bodies up, the server keeps its place in the  *)
(* stream and what it reads fits its buffer, unless a length word arrives  *)
(* in pieces (drawsrv.go's handleDraw).                                    *)
THEOREM StreamIsSafe == ServerSpec => []StreamSafe
  <1>1. WireInv => StreamSafe
    BY DEF WireInv, StreamInv, StreamSafe, KeepsPlace
  <1> QED
    BY <1>1, WireSpec, WireHolds, PTL

(* The replies answer the client's frames in their turn, with their tags;  *)
(* only after a length word in pieces are there others.  Each of them all  *)
(* is as long as it says (drawsrv.go's handleDraw).                        *)
THEOREM RepliesAnswer == ServerSpec => []RepliesMatch
  <1>1. WireInv => RepliesMatch
    BY DEF WireInv
  <1> QED
    BY <1>1, WireSpec, WireHolds, PTL

(* The device has reported all it was told whenever no connection has more *)
(* to tell it, in its place or not; and it shows a client that alone       *)
(* points its own request, as long as no connection lost its place.        *)
THEOREM PointerIsSafe == ServerSpec => []PointerSafe
  <1>1. WireInv => PointerSafe
    <2> SUFFICES ASSUME WireInv PROVE PointerSafe
      OBVIOUS
    <2>1. DeviceSettles
      BY DEF DeviceSettles, WireInv, SettleInv
    <2>2. PointerFollows
      BY DEF PointerFollows, WireInv, AloneInv, Alone, ServeInv
    <2> QED
      BY <2>1, <2>2 DEF PointerSafe
  <1> QED
    BY <1>1, WireSpec, WireHolds, PTL

-----------------------------------------------------------------------------
(* The invariant of the keyboards. *)

Said(k) == {codes[k][i][j] : i \in DOMAIN codes[k], j \in 1 .. CodeLen}

(* A byte that is not 0 was sent on its own connection; who has sent       *)
(* nothing is not being served.                                            *)
BytesInv ==
  \A k \in Keyboards :
    /\ \A i \in DOMAIN stream[k] : stream[k][i] \in {0} \union Said(k)
    /\ \A i \in 1 .. CodeLen : h[k][i] \in {0} \union Said(k)
    /\ codes[k] = <<>> => stream[k] = <<>> /\ kbd[k] \in {"read", "closed"}

Only(k) == \A j \in Keyboards : j # k => codes[j] = <<>>

(* How far a keyboard whose codes came whole was read: n codes were, the   *)
(* last of them is in hand or was, and the stream has the others.          *)
Whole(k, n) ==
  /\ Len(stream[k]) = CodeLen * (Len(codes[k]) - n)
  /\ \A i \in n + 1 .. Len(codes[k]), j \in 1 .. CodeLen :
       stream[k][CodeLen * (i - n - 1) + j] = codes[k][i][j]
  /\ kbd[k] = "key" => n > 0 /\ \A j \in 1 .. CodeLen : h[k][j] = codes[k][n][j]

(* If it is alone, the device was told of all that were read, but for the  *)
(* one in hand.                                                            *)
Told(k, n) ==
  /\ kbd[k] = "key" => pressed = DownAfter(SubSeq(codes[k], 1, n - 1))
  /\ kbd[k] # "key" => pressed = DownAfter(SubSeq(codes[k], 1, n))
  /\ kbd[k] # "sync" => synced

Followed(k, n) == Whole(k, n) /\ (Only(k) => Told(k, n))

FollowInv ==
  \A k \in Keyboards : ~torn[k] => \E n \in 0 .. Len(codes[k]) : Followed(k, n)

KbdInv == KbdTypeOK /\ BytesInv /\ NoGhostKeys /\ FollowInv

-----------------------------------------------------------------------------
(* Codes and keys. *)

LEMMA ByteHalves ==
  ASSUME NEW b \in Bytes
  PROVE  /\ b \in 0 .. 255
         /\ b % 128 = IF b < 128 THEN b ELSE b - 128
  <1>1. b \in 0 .. 255
    BY DEF Bytes
  <1> QED
    BY <1>1

LEMMA KeysAre == \A key \in p9k : key \in 1 .. 111
  BY DEF p9k

LEMMA CodeIsBytes ==
  ASSUME NEW sc \in Codes
  PROVE  /\ sc \in [1 .. CodeLen -> Bytes] /\ sc \in Seq(Bytes) /\ Len(sc) = CodeLen
         /\ 1 \in 1 .. CodeLen /\ CodeLen \in Nat /\ sc[1] \in Bytes
         /\ \A i \in 2 .. CodeLen : i \in 1 .. CodeLen /\ i # 1
  <1>1. sc \in [1 .. CodeLen -> Bytes]
    BY CodesAreBytes
  <1>2. CodeLen \in Nat /\ 1 \in 1 .. CodeLen /\ \A i \in 2 .. CodeLen : i \in 1 .. CodeLen /\ i # 1
    BY KbdBounds
  <1>3. sc \in Seq(Bytes) /\ Len(sc) = CodeLen
    BY <1>1, <1>2, SeqDef
  <1> QED
    BY <1>1, <1>2, <1>3

(* A code is that of the number it says. *)
LEMMA CodeOfNumber ==
  ASSUME NEW sc \in Codes, NEW n
  PROVE  sc = Code(n) <=> SaysCode(sc) /\ sc[1] = n
  <1>1. /\ sc \in [1 .. CodeLen -> Bytes] /\ 1 \in 1 .. CodeLen
        /\ \A i \in 2 .. CodeLen : i \in 1 .. CodeLen /\ i # 1
    BY CodeIsBytes
  <1>2. ASSUME sc = Code(n) PROVE SaysCode(sc) /\ sc[1] = n
    BY <1>1, <1>2 DEF Code, SaysCode
  <1>3. ASSUME SaysCode(sc), sc[1] = n PROVE sc = Code(n)
    <2>1. ASSUME NEW i \in 1 .. CodeLen PROVE sc[i] = IF i = 1 THEN n ELSE 0
      <3>1. CASE i = 1
        BY <1>3, <3>1
      <3>2. CASE i # 1
        <4>1. i \in 2 .. CodeLen
          BY <3>2, KbdBounds
        <4> QED
          BY <1>3, <3>2, <4>1 DEF SaysCode
      <3> QED
        BY <3>1, <3>2
    <2>2. sc = [i \in 1 .. CodeLen |-> sc[i]]
      BY <1>1
    <2> QED
      BY <2>1, <2>2 DEF Code
  <1> QED
    BY <1>2, <1>3

(* One more code presses a key, releases one, or says nothing of any. *)
LEMMA OneMoreCode ==
  ASSUME NEW s \in Seq(Codes), NEW sc \in Codes
  PROVE  DownAfter(Append(s, sc)) =
           IF ~NamesKey(sc) THEN DownAfter(s)
           ELSE IF sc[1] < 128 THEN DownAfter(s) \union {sc[1]} ELSE DownAfter(s) \ {sc[1] - 128}
  <1> DEFINE t == Append(s, sc)
             b == sc[1]
  <1>1. /\ Len(s) \in Nat /\ Len(t) = Len(s) + 1 /\ DOMAIN t = 1 .. Len(s) + 1
        /\ DOMAIN s = 1 .. Len(s)
        /\ \A i \in 1 .. Len(s) : t[i] = s[i]
        /\ t[Len(s) + 1] = sc
    BY AppendProperties
  <1> HIDE DEF t, b
  <1>2. ASSUME NEW key \in p9k
        PROVE  key \in DownAfter(t) <=>
                 sc = Code(key) \/ (key \in DownAfter(s) /\ sc # Code(key + 128))
    <2>0. Code(key) # Code(key + 128)
      <3>0. key \in 1 .. 111
        BY KeysAre
      <3>1. 1 \in 1 .. CodeLen /\ key # key + 128
        BY <3>0, KbdBounds
      <3>2. Code(key)[1] = key /\ Code(key + 128)[1] = key + 128
        BY <3>1 DEF Code
      <3> QED
        BY <3>1, <3>2
    <2>1. ASSUME key \in DownAfter(t), sc # Code(key) PROVE key \in DownAfter(s) /\ sc # Code(key + 128)
      <3>1. PICK i \in DOMAIN t : t[i] = Code(key) /\ \A j \in i + 1 .. Len(t) : t[j] # Code(key + 128)
        BY <2>1 DEF DownAfter
      <3>2. i \in DOMAIN s /\ s[i] = Code(key)
        BY <1>1, <2>1, <3>1
      <3>3. \A j \in i + 1 .. Len(s) : s[j] # Code(key + 128)
        BY <1>1, <3>1, <3>2
      <3>4. sc # Code(key + 128)
        BY <1>1, <3>1, <3>2
      <3> QED
        BY <1>2, <3>2, <3>3, <3>4 DEF DownAfter
    <2>2. ASSUME sc = Code(key) PROVE key \in DownAfter(t)
      <3>1. Len(s) + 1 \in DOMAIN t /\ t[Len(s) + 1] = Code(key)
              /\ \A j \in Len(s) + 1 + 1 .. Len(t) : FALSE
        BY <1>1, <2>2
      <3> QED
        BY <1>2, <3>1 DEF DownAfter
    <2>3. ASSUME key \in DownAfter(s), sc # Code(key + 128) PROVE key \in DownAfter(t)
      <3>1. PICK i \in DOMAIN s : s[i] = Code(key) /\ \A j \in i + 1 .. Len(s) : s[j] # Code(key + 128)
        BY <2>3 DEF DownAfter
      <3>2. i \in DOMAIN t /\ t[i] = Code(key)
        BY <1>1, <3>1
      <3>3. \A j \in i + 1 .. Len(t) : t[j] # Code(key + 128)
        BY <1>1, <2>3, <3>1
      <3> QED
        BY <1>2, <3>2, <3>3 DEF DownAfter
    <2> QED
      BY <2>0, <2>1, <2>2, <2>3
  <1>3. DownAfter(t) \subseteq p9k /\ DownAfter(s) \subseteq p9k
    BY DEF DownAfter
  <1>4. b \in 0 .. 255 /\ b % 128 = IF b < 128 THEN b ELSE b - 128
    BY CodeIsBytes, ByteHalves DEF b
  <1>5. \A key \in p9k : key \in 1 .. 111
    BY KeysAre
  <1>6. \A n : sc = Code(n) <=> SaysCode(sc) /\ b = n
    BY CodeOfNumber DEF b
  <1>7. NamesKey(sc) <=> SaysCode(sc) /\ b % 128 \in p9k
    BY DEF NamesKey, b
  <1>8. CASE ~NamesKey(sc)
    <2>1. ASSUME NEW key \in p9k PROVE sc # Code(key) /\ sc # Code(key + 128)
      <3>1. CASE ~SaysCode(sc)
        BY <1>6, <3>1
      <3>2. CASE b % 128 \notin p9k
        <4>1. key \in 1 .. 111
          BY <1>5
        <4>2. b # key /\ b # key + 128
          BY <1>4, <3>2, <4>1
        <4> QED
          BY <1>6, <4>2
      <3> QED
        BY <1>7, <1>8, <3>1, <3>2
    <2> QED
      BY <1>2, <1>3, <1>8, <2>1 DEF t
  <1>9. CASE NamesKey(sc) /\ b < 128
    <2>1. b \in p9k
      BY <1>4, <1>7, <1>9
    <2>2. ASSUME NEW key \in p9k PROVE sc # Code(key + 128) /\ (sc = Code(key) <=> key = b)
      <3>1. key \in 1 .. 111
        BY <1>5
      <3>2. b # key + 128
        BY <1>4, <1>9, <3>1
      <3> QED
        BY <1>6, <1>7, <1>9, <3>2
    <2> QED
      BY <1>2, <1>3, <1>9, <2>1, <2>2 DEF t, b
  <1>10. CASE NamesKey(sc) /\ ~(b < 128)
    <2>1. b % 128 = b - 128 /\ b \in 128 .. 255 /\ b - 128 \in p9k
      BY <1>4, <1>7, <1>10
    <2>2. ASSUME NEW key \in p9k
          PROVE  sc # Code(key) /\ (sc = Code(key + 128) <=> key = b - 128)
      <3>1. key \in 1 .. 111
        BY <1>5
      <3>2. b # key /\ (b = key + 128 <=> key = b - 128)
        BY <2>1, <3>1
      <3> QED
        BY <1>6, <1>7, <1>10, <3>2
    <2> QED
      BY <1>2, <1>3, <1>10, <2>1, <2>2 DEF t, b
  <1> QED
    BY <1>8, <1>9, <1>10 DEF b

(* Where the bytes of a code stand in a stream of codes. *)
LEMMA CodePlace ==
  ASSUME NEW a \in Nat, NEW b \in Nat, a < b, NEW j \in 1 .. CodeLen
  PROVE  CodeLen * a \in Nat /\ CodeLen * a + j \in 1 .. CodeLen * b
  <1>1. CodeLen \in Nat /\ j \in Nat
    BY KbdBounds
  <1> DEFINE d == b - a - 1
  <1>2. d \in Nat /\ b = a + 1 + d
    OBVIOUS
  <1>3. CodeLen * d \in Nat /\ CodeLen * a \in Nat
    BY <1>1, <1>2
  <1> HIDE DEF d
  <1>4. CodeLen * b = CodeLen * a + CodeLen + CodeLen * d
    BY <1>1, <1>2
  <1> QED
    BY <1>1, <1>3, <1>4

-----------------------------------------------------------------------------
(* What the steps of a keyboard do to its bytes. *)

LEMMA SendBytes ==
  ASSUME KbdTypeOK, NEW k \in Keyboards, SendCode(k)
  PROVE  \E sc \in Codes :
           /\ codes' = [codes EXCEPT ![k] = Append(codes[k], sc)]
           /\ codes'[k] \in Seq(Codes) /\ Len(codes'[k]) = Len(codes[k]) + 1
           /\ codes'[k][Len(codes[k]) + 1] = sc
           /\ \A i \in 1 .. Len(codes[k]) : codes'[k][i] = codes[k][i]
           /\ \A d \in Keyboards : d # k => stream'[d] = stream[d]
           /\ stream' \in [Keyboards -> Seq(Bytes)]
           /\ Len(stream'[k]) = Len(stream[k]) + CodeLen
           /\ \A i \in 1 .. Len(stream[k]) : stream'[k][i] = stream[k][i]
           /\ \A j \in 1 .. CodeLen : stream'[k][Len(stream[k]) + j] = sc[j]
           /\ UNCHANGED <<kbd, h, torn, pressed, synced>>
  <1>0. PICK sc \in Codes :
          /\ codes' = [codes EXCEPT ![k] = Append(@, sc)]
          /\ stream' = [stream EXCEPT ![k] = @ \o sc]
    BY DEF SendCode
  <1>1. /\ stream[k] \in Seq(Bytes) /\ codes[k] \in Seq(Codes)
        /\ stream \in [Keyboards -> Seq(Bytes)] /\ codes \in [Keyboards -> Seq(Codes)]
    BY DEF KbdTypeOK
  <1>2. sc \in Seq(Bytes) /\ Len(sc) = CodeLen /\ CodeLen \in Nat
    BY CodeIsBytes
  <1> DEFINE s == stream[k] \o sc
  <1>3. /\ s \in Seq(Bytes) /\ Len(s) = Len(stream[k]) + CodeLen /\ Len(stream[k]) \in Nat
        /\ \A i \in 1 .. Len(stream[k]) + CodeLen :
             s[i] = IF i <= Len(stream[k]) THEN stream[k][i] ELSE sc[i - Len(stream[k])]
    <2>1. \A a, b \in Seq(Bytes) :
            /\ a \o b \in Seq(Bytes) /\ Len(a \o b) = Len(a) + Len(b)
            /\ \A i \in 1 .. Len(a) + Len(b) :
                 (a \o b)[i] = IF i <= Len(a) THEN a[i] ELSE b[i - Len(a)]
      BY ConcatProperties
    <2>2. Len(stream[k]) \in Nat
      BY <1>1
    <2> QED
      BY <1>1, <1>2, <2>1, <2>2, ZenonT(30)
  <1>4. /\ stream' \in [Keyboards -> Seq(Bytes)] /\ stream'[k] = s
        /\ \A d \in Keyboards : d # k => stream'[d] = stream[d]
    BY <1>0, <1>1, <1>3
  <1> HIDE DEF s
  <1>5. ASSUME NEW i \in 1 .. Len(stream[k]) PROVE s[i] = stream[k][i]
    <2>1. i \in 1 .. Len(stream[k]) + CodeLen /\ i <= Len(stream[k])
      BY <1>2, <1>3
    <2> QED
      BY <1>3, <2>1
  <1>6. ASSUME NEW j \in 1 .. CodeLen PROVE s[Len(stream[k]) + j] = sc[j]
    <2> DEFINE x == Len(stream[k]) + j
    <2>1. /\ x \in 1 .. Len(stream[k]) + CodeLen /\ ~(x <= Len(stream[k]))
          /\ x - Len(stream[k]) = j
      BY <1>2, <1>3
    <2> HIDE DEF x
    <2>2. s[x] = sc[x - Len(stream[k])]
      BY <1>3, <2>1
    <2> QED
      BY <2>1, <2>2 DEF x
  <1>7. /\ codes' = [codes EXCEPT ![k] = Append(codes[k], sc)]
        /\ codes'[k] = Append(codes[k], sc)
    BY <1>0, <1>1
  <1>8. /\ codes'[k] \in Seq(Codes) /\ Len(codes'[k]) = Len(codes[k]) + 1
        /\ codes'[k][Len(codes[k]) + 1] = sc
        /\ \A i \in 1 .. Len(codes[k]) : codes'[k][i] = codes[k][i]
    BY <1>1, <1>7, AppendProperties
  <1>9. UNCHANGED <<kbd, h, torn, pressed, synced>>
    BY DEF SendCode
  <1> QED
    BY <1>3, <1>4, <1>5, <1>6, <1>7, <1>8, <1>9

LEMMA ReadBytes ==
  ASSUME KbdTypeOK, NEW k \in Keyboards, ReadCode(k)
  PROVE  \E n \in 1 .. CodeLen :
           /\ n <= Len(stream[k]) /\ Len(stream[k]) \in Nat
           /\ \A d \in Keyboards : d # k =>
                stream'[d] = stream[d] /\ h'[d] = h[d] /\ torn'[d] = torn[d] /\ kbd'[d] = kbd[d]
           /\ stream' \in [Keyboards -> Seq(Bytes)]
           /\ Len(stream'[k]) = Len(stream[k]) - n
           /\ \A i \in 1 .. Len(stream[k]) - n : stream'[k][i] = stream[k][i + n]
           /\ h' \in [Keyboards -> [1 .. CodeLen -> Bytes]]
           /\ \A i \in 1 .. CodeLen : h'[k][i] = IF i <= n THEN stream[k][i] ELSE h[k][i]
           /\ torn' \in [Keyboards -> BOOLEAN] /\ torn'[k] = (torn[k] \/ n < CodeLen)
           /\ kbd[k] = "read" /\ kbd' = [kbd EXCEPT ![k] = "key"]
           /\ UNCHANGED <<codes, pressed, synced>>
  <1> DEFINE rest(n) == SubSeq(stream[k], n + 1, Len(stream[k]))
             buf(n)  == SubSeq(stream[k], 1, n) \o SubSeq(h[k], n + 1, CodeLen)
  <1>0. PICK n \in 1 .. CodeLen :
          /\ n <= Len(stream[k])
          /\ stream' = [stream EXCEPT ![k] = rest(n)]
          /\ h' = [h EXCEPT ![k] = buf(n)]
          /\ torn' = [torn EXCEPT ![k] = torn[k] \/ n < CodeLen]
    BY DEF ReadCode
  <1>1. /\ stream[k] \in Seq(Bytes) /\ h[k] \in [1 .. CodeLen -> Bytes]
        /\ stream \in [Keyboards -> Seq(Bytes)] /\ h \in [Keyboards -> [1 .. CodeLen -> Bytes]]
        /\ torn \in [Keyboards -> BOOLEAN]
        /\ kbd \in [Keyboards -> {"read", "key", "sync", "closed"}]
    BY DEF KbdTypeOK
  <1>2. CodeLen \in Nat /\ n \in Nat /\ Len(stream[k]) \in Nat
    BY <1>1, KbdBounds
  <1>3. /\ rest(n) \in Seq(Bytes) /\ Len(rest(n)) = Len(stream[k]) - n
        /\ \A i \in 1 .. Len(stream[k]) - n : rest(n)[i] = stream[k][i + n]
    BY <1>0, <1>1, <1>2, SubSeqProperties
  <1>4. h[k] \in Seq(Bytes) /\ Len(h[k]) = CodeLen
    BY <1>1, <1>2, SeqDef
  <1>5. /\ SubSeq(stream[k], 1, n) \in Seq(Bytes) /\ Len(SubSeq(stream[k], 1, n)) = n
        /\ \A i \in 1 .. n : SubSeq(stream[k], 1, n)[i] = stream[k][i]
    BY <1>0, <1>1, <1>2, SubSeqProperties
  <1>6. /\ SubSeq(h[k], n + 1, CodeLen) \in Seq(Bytes)
        /\ Len(SubSeq(h[k], n + 1, CodeLen)) = CodeLen - n
        /\ \A i \in 1 .. CodeLen - n : SubSeq(h[k], n + 1, CodeLen)[i] = h[k][i + n]
    BY <1>0, <1>2, <1>4, SubSeqProperties, SMTT(20)
  <1>7. /\ buf(n) \in Seq(Bytes) /\ Len(buf(n)) = CodeLen
        /\ \A i \in 1 .. CodeLen : buf(n)[i] = IF i <= n THEN stream[k][i] ELSE h[k][i]
    <2>1. /\ buf(n) \in Seq(Bytes) /\ Len(buf(n)) = n + (CodeLen - n)
          /\ \A i \in 1 .. n + (CodeLen - n) :
               buf(n)[i] = IF i <= n THEN SubSeq(stream[k], 1, n)[i]
                                     ELSE SubSeq(h[k], n + 1, CodeLen)[i - n]
      BY <1>5, <1>6, ConcatProperties
    <2> HIDE DEF buf
    <2>2. ASSUME NEW i \in 1 .. CodeLen, i > n PROVE buf(n)[i] = h[k][i]
      <3>1. i - n \in 1 .. CodeLen - n
        BY <1>2, <2>2
      <3>2. buf(n)[i] = SubSeq(h[k], n + 1, CodeLen)[i - n]
        BY <1>2, <2>1, <2>2
      <3>3. SubSeq(h[k], n + 1, CodeLen)[i - n] = h[k][(i - n) + n]
        BY <1>6, <3>1
      <3>4. (i - n) + n = i
        BY <1>2
      <3> QED
        BY <3>2, <3>3, <3>4
    <2>3. ASSUME NEW i \in 1 .. CodeLen, i <= n PROVE buf(n)[i] = stream[k][i]
      BY <1>2, <1>5, <2>1, <2>3
    <2>4. n + (CodeLen - n) = CodeLen
      BY <1>2
    <2>5. \A i \in 1 .. CodeLen : buf(n)[i] = IF i <= n THEN stream[k][i] ELSE h[k][i]
      <3> SUFFICES ASSUME NEW i \in 1 .. CodeLen
                   PROVE  buf(n)[i] = IF i <= n THEN stream[k][i] ELSE h[k][i]
        OBVIOUS
      <3>1. i <= n \/ i > n
        BY <1>2
      <3> QED
        BY <1>2, <2>2, <2>3, <3>1
    <2> QED
      BY <2>1, <2>4, <2>5
  <1> HIDE DEF rest, buf
  <1>8. buf(n) \in [1 .. CodeLen -> Bytes]
    BY <1>7
  <1>9. /\ stream'[k] = rest(n) /\ stream' \in [Keyboards -> Seq(Bytes)]
        /\ h'[k] = buf(n) /\ h' \in [Keyboards -> [1 .. CodeLen -> Bytes]]
        /\ torn'[k] = (torn[k] \/ n < CodeLen) /\ torn' \in [Keyboards -> BOOLEAN]
    BY <1>0, <1>1, <1>3, <1>8
  <1>10. kbd[k] = "read" /\ kbd' = [kbd EXCEPT ![k] = "key"] /\ UNCHANGED <<codes, pressed, synced>>
    BY DEF ReadCode
  <1>11. \A d \in Keyboards : d # k =>
           stream'[d] = stream[d] /\ h'[d] = h[d] /\ torn'[d] = torn[d] /\ kbd'[d] = kbd[d]
    BY <1>0, <1>1, <1>10
  <1> QED
    BY <1>0, <1>2, <1>3, <1>7, <1>9, <1>10, <1>11

(* What a buffer that names a key says. *)
LEMMA BufferNames ==
  ASSUME KbdTypeOK, NEW k \in Keyboards, NamesKey(h[k])
  PROVE  /\ h[k][1] # 0 /\ 1 \in 1 .. CodeLen
         /\ h[k][1] < 128 => h[k][1] \in p9k
  <1>1. 1 \in 1 .. CodeLen
    BY KbdBounds
  <1>2. h[k][1] \in Bytes
    <2>1. h[k] \in [1 .. CodeLen -> Bytes]
      BY DEF KbdTypeOK
    <2> QED
      BY <1>1, <2>1
  <1>3. h[k][1] \in 0 .. 255 /\ h[k][1] % 128 = IF h[k][1] < 128 THEN h[k][1] ELSE h[k][1] - 128
    BY <1>2, ByteHalves
  <1>4. h[k][1] % 128 \in p9k
    BY DEF NamesKey
  <1>5. h[k][1] % 128 \in 1 .. 111
    BY <1>4, KeysAre
  <1>6. h[k][1] # 0
    BY <1>3, <1>5
  <1> QED
    BY <1>1, <1>3, <1>4, <1>6

LEMMA KbdTypeNext ==
  ASSUME KbdTypeOK, KbdNext
  PROVE  KbdTypeOK'
  <1>1. ASSUME NEW k \in Keyboards, SendCode(k) PROVE KbdTypeOK'
    <2>1. PICK sc \in Codes :
            /\ codes' = [codes EXCEPT ![k] = Append(codes[k], sc)]
            /\ codes'[k] \in Seq(Codes)
            /\ stream' \in [Keyboards -> Seq(Bytes)]
            /\ UNCHANGED <<kbd, h, torn, pressed, synced>>
      BY <1>1, SendBytes
    <2>2. codes' \in [Keyboards -> Seq(Codes)]
      BY <2>1 DEF KbdTypeOK
    <2> QED
      BY <2>1, <2>2 DEF KbdTypeOK
  <1>2. ASSUME NEW k \in Keyboards, KbdHangup(k) PROVE KbdTypeOK'
    BY <1>2 DEF KbdTypeOK, KbdHangup
  <1>3. ASSUME NEW k \in Keyboards, ReadCode(k) PROVE KbdTypeOK'
    <2>1. /\ stream' \in [Keyboards -> Seq(Bytes)]
          /\ h' \in [Keyboards -> [1 .. CodeLen -> Bytes]]
          /\ torn' \in [Keyboards -> BOOLEAN]
          /\ kbd' = [kbd EXCEPT ![k] = "key"]
          /\ UNCHANGED <<codes, pressed, synced>>
      BY <1>3, ReadBytes
    <2> QED
      BY <2>1 DEF KbdTypeOK
  <1>4. ASSUME NEW k \in Keyboards, InjectKey(k) PROVE KbdTypeOK'
    <2>1. CASE NamesKey(h[k])
      <3>1. pressed' \subseteq p9k
        BY <1>4, <2>1, BufferNames DEF InjectKey, Key, KbdTypeOK
      <3> QED
        BY <1>4, <2>1, <3>1 DEF InjectKey, KbdTypeOK
    <2>2. CASE ~NamesKey(h[k])
      BY <1>4, <2>2 DEF InjectKey, KbdTypeOK
    <2> QED
      BY <2>1, <2>2
  <1>5. ASSUME NEW k \in Keyboards, sync(k) PROVE KbdTypeOK'
    BY <1>5 DEF KbdTypeOK, sync
  <1> QED
    BY <1>1, <1>2, <1>3, <1>4, <1>5 DEF KbdNext, handleKbd

LEMMA BytesNext ==
  ASSUME KbdTypeOK, BytesInv, KbdNext
  PROVE  BytesInv'
  <1>1. ASSUME NEW k \in Keyboards, SendCode(k) PROVE BytesInv'
    <2>1. PICK sc \in Codes :
            /\ codes' = [codes EXCEPT ![k] = Append(codes[k], sc)]
            /\ codes'[k] \in Seq(Codes) /\ Len(codes'[k]) = Len(codes[k]) + 1
            /\ codes'[k][Len(codes[k]) + 1] = sc
            /\ \A i \in 1 .. Len(codes[k]) : codes'[k][i] = codes[k][i]
            /\ \A d \in Keyboards : d # k => stream'[d] = stream[d]
            /\ stream' \in [Keyboards -> Seq(Bytes)]
            /\ Len(stream'[k]) = Len(stream[k]) + CodeLen
            /\ \A i \in 1 .. Len(stream[k]) : stream'[k][i] = stream[k][i]
            /\ \A j \in 1 .. CodeLen : stream'[k][Len(stream[k]) + j] = sc[j]
            /\ UNCHANGED <<kbd, h, torn, pressed, synced>>
      BY <1>1, SendBytes
    <2>2. /\ codes[k] \in Seq(Codes) /\ stream[k] \in Seq(Bytes) /\ stream'[k] \in Seq(Bytes)
          /\ Len(codes[k]) \in Nat /\ Len(stream[k]) \in Nat /\ CodeLen \in Nat
          /\ DOMAIN stream[k] = 1 .. Len(stream[k]) /\ DOMAIN stream'[k] = 1 .. Len(stream'[k])
          /\ DOMAIN codes[k] = 1 .. Len(codes[k]) /\ DOMAIN codes'[k] = 1 .. Len(codes'[k])
      BY <2>1, KbdBounds DEF KbdTypeOK
    <2>3. \A i \in DOMAIN codes[k] : i \in DOMAIN codes'[k] /\ codes'[k][i] = codes[k][i]
      BY <2>1, <2>2
    <2>4. Said(k) \subseteq Said(k)'
      <3> SUFFICES ASSUME NEW i \in DOMAIN codes[k], NEW j \in 1 .. CodeLen
                   PROVE  codes[k][i][j] \in Said(k)'
        BY DEF Said
      <3>1. i \in DOMAIN codes'[k] /\ codes'[k][i][j] = codes[k][i][j]
        BY <2>3
      <3> QED
        BY <3>1 DEF Said
    <2>5. ASSUME NEW j \in 1 .. CodeLen PROVE sc[j] \in Said(k)'
      <3>1. Len(codes[k]) + 1 \in DOMAIN codes'[k]
        BY <2>1, <2>2
      <3>2. codes'[k][Len(codes[k]) + 1][j] = sc[j]
        BY <2>1
      <3> QED
        BY <2>5, <3>1, <3>2 DEF Said
    <2>6. ASSUME NEW i \in DOMAIN stream'[k] PROVE stream'[k][i] \in {0} \union Said(k)'
      <3>1. CASE i \in 1 .. Len(stream[k])
        BY <2>1, <2>2, <2>4, <3>1 DEF BytesInv
      <3>2. CASE i \notin 1 .. Len(stream[k])
        <4> DEFINE j == i - Len(stream[k])
        <4>1. j \in 1 .. CodeLen /\ Len(stream[k]) + j = i
          BY <2>1, <2>2, <3>2
        <4> HIDE DEF j
        <4>2. stream'[k][i] = sc[j]
          BY <2>1, <4>1
        <4> QED
          BY <2>5, <4>1, <4>2
      <3> QED
        BY <3>1, <3>2
    <2>7. \A i \in 1 .. CodeLen : h'[k][i] \in {0} \union Said(k)'
      BY <2>1, <2>4 DEF BytesInv
    <2>8. codes'[k] # <<>>
      <3>1. Len(codes'[k]) # 0
        BY <2>1, <2>2
      <3>2. Len(<<>>) = 0
        OBVIOUS
      <3> QED
        BY <3>1, <3>2
    <2>9. \A d \in Keyboards : d # k => codes'[d] = codes[d] /\ Said(d)' = Said(d)
      BY <2>1 DEF Said, KbdTypeOK
    <2> QED
      BY <2>1, <2>6, <2>7, <2>8, <2>9 DEF BytesInv
  <1>2. ASSUME NEW k \in Keyboards, KbdHangup(k) PROVE BytesInv'
    BY <1>2 DEF KbdTypeOK, KbdHangup, BytesInv, Said
  <1>3. ASSUME NEW k \in Keyboards, ReadCode(k) PROVE BytesInv'
    <2>1. PICK n \in 1 .. CodeLen :
           /\ n <= Len(stream[k]) /\ Len(stream[k]) \in Nat
           /\ \A d \in Keyboards : d # k =>
                stream'[d] = stream[d] /\ h'[d] = h[d] /\ torn'[d] = torn[d] /\ kbd'[d] = kbd[d]
           /\ stream' \in [Keyboards -> Seq(Bytes)]
           /\ Len(stream'[k]) = Len(stream[k]) - n
           /\ \A i \in 1 .. Len(stream[k]) - n : stream'[k][i] = stream[k][i + n]
           /\ \A i \in 1 .. CodeLen : h'[k][i] = IF i <= n THEN stream[k][i] ELSE h[k][i]
           /\ codes' = codes
      BY <1>3, ReadBytes
    <2>2. /\ DOMAIN stream[k] = 1 .. Len(stream[k]) /\ DOMAIN stream'[k] = 1 .. Len(stream'[k])
          /\ n \in Nat /\ CodeLen \in Nat
      BY <2>1, KbdBounds DEF KbdTypeOK
    <2>3. \A d \in Keyboards : Said(d)' = Said(d)
      BY <2>1 DEF Said
    <2>4. ASSUME NEW i \in DOMAIN stream'[k] PROVE stream'[k][i] \in {0} \union Said(k)
      <3>1. i \in 1 .. Len(stream[k]) - n /\ i + n \in DOMAIN stream[k]
        BY <2>1, <2>2
      <3> QED
        BY <2>1, <3>1 DEF BytesInv
    <2>5. ASSUME NEW i \in 1 .. CodeLen PROVE h'[k][i] \in {0} \union Said(k)
      <3>1. CASE i <= n
        <4>1. i \in DOMAIN stream[k]
          BY <2>1, <2>2, <3>1
        <4> QED
          BY <2>1, <3>1, <4>1 DEF BytesInv
      <3>2. CASE ~(i <= n)
        BY <2>1, <3>2 DEF BytesInv
      <3> QED
        BY <3>1, <3>2
    <2>6. codes[k] # <<>>
      <3>1. stream[k] # <<>>
        BY <2>1, <2>2
      <3> QED
        BY <3>1 DEF BytesInv
    <2> QED
      BY <2>1, <2>3, <2>4, <2>5, <2>6 DEF BytesInv
  <1>4. ASSUME NEW k \in Keyboards, InjectKey(k) \/ sync(k) PROVE BytesInv'
    <2>1. /\ UNCHANGED <<codes, stream, h>> /\ kbd[k] # "read" /\ kbd[k] # "closed"
          /\ \A d \in Keyboards : d # k => kbd'[d] = kbd[d]
      BY <1>4 DEF InjectKey, sync, KbdTypeOK
    <2>2. \A d \in Keyboards : Said(d)' = Said(d)
      BY <2>1 DEF Said
    <2>3. codes[k] # <<>>
      BY <2>1 DEF BytesInv
    <2> QED
      BY <2>1, <2>2, <2>3 DEF BytesInv
  <1> QED
    BY <1>1, <1>2, <1>3, <1>4 DEF KbdNext, handleKbd

(* What a buffer that names a key has in its first byte was sent: as the   *)
(* code of that number, or in a code whose bytes came apart.               *)
LEMMA BufferSent ==
  ASSUME KbdInv, NEW k \in Keyboards, kbd[k] = "key", NamesKey(h[k])
  PROVE  \E i \in DOMAIN codes[k] :
           \/ codes[k][i] = Code(h[k][1])
           \/ torn[k] /\ \E j \in 1 .. CodeLen : codes[k][i][j] = h[k][1]
  <1>1. h[k][1] # 0 /\ 1 \in 1 .. CodeLen
    BY BufferNames DEF KbdInv
  <1>2. CASE torn[k]
    <2>1. h[k][1] \in Said(k)
      BY <1>1 DEF KbdInv, BytesInv
    <2> QED
      BY <1>2, <2>1 DEF Said
  <1>3. CASE ~torn[k]
    <2>1. PICK n \in 0 .. Len(codes[k]) : Whole(k, n)
      BY <1>3 DEF KbdInv, FollowInv, Followed
    <2>2. n > 0 /\ \A j \in 1 .. CodeLen : h[k][j] = codes[k][n][j]
      BY <2>1 DEF Whole
    <2>3. codes[k] \in Seq(Codes)
      BY DEF KbdInv, KbdTypeOK
    <2>4. n \in DOMAIN codes[k] /\ codes[k][n] \in Codes
      BY <2>2, <2>3
    <2>5. SaysCode(codes[k][n])
      <3>1. \A i \in 2 .. CodeLen : i \in 1 .. CodeLen
        BY KbdBounds
      <3> QED
        BY <2>2, <3>1 DEF NamesKey, SaysCode
    <2>6. codes[k][n] = Code(h[k][1])
      BY <1>1, <2>2, <2>4, <2>5, CodeOfNumber
    <2> QED
      BY <2>4, <2>6
  <1> QED
    BY <1>2, <1>3

LEMMA GhostNext ==
  ASSUME KbdInv, KbdNext
  PROVE  NoGhostKeys'
  <1> KbdTypeOK /\ NoGhostKeys
    BY DEF KbdInv
  <1>1. ASSUME NEW k \in Keyboards, SendCode(k) PROVE NoGhostKeys'
    <2>1. PICK sc \in Codes :
            /\ codes' = [codes EXCEPT ![k] = Append(codes[k], sc)]
            /\ codes'[k] \in Seq(Codes) /\ Len(codes'[k]) = Len(codes[k]) + 1
            /\ \A i \in 1 .. Len(codes[k]) : codes'[k][i] = codes[k][i]
            /\ torn' = torn /\ pressed' = pressed
      BY <1>1, SendBytes
    <2>2. \A d \in Keyboards : \A i \in DOMAIN codes[d] :
            i \in DOMAIN codes'[d] /\ codes'[d][i] = codes[d][i]
      <3>1. codes[k] \in Seq(Codes) /\ Len(codes[k]) \in Nat
        BY DEF KbdTypeOK
      <3>2. \A i \in DOMAIN codes[k] : i \in DOMAIN codes'[k] /\ codes'[k][i] = codes[k][i]
        BY <2>1, <3>1
      <3>3. \A d \in Keyboards : d # k => codes'[d] = codes[d]
        BY <2>1 DEF KbdTypeOK
      <3> QED
        BY <3>2, <3>3
    <2> QED
      BY <2>1, <2>2 DEF NoGhostKeys
  <1>2. ASSUME NEW k \in Keyboards, KbdHangup(k) \/ sync(k) PROVE NoGhostKeys'
    BY <1>2 DEF KbdHangup, sync, NoGhostKeys
  <1>3. ASSUME NEW k \in Keyboards, ReadCode(k) PROVE NoGhostKeys'
    <2>1. UNCHANGED <<codes, pressed>> /\ \A d \in Keyboards : torn[d] => torn'[d]
      BY <1>3 DEF ReadCode, KbdTypeOK
    <2> QED
      BY <2>1 DEF NoGhostKeys
  <1>4. ASSUME NEW k \in Keyboards, InjectKey(k) PROVE NoGhostKeys'
    <2>0. UNCHANGED <<codes, torn>> /\ kbd[k] = "key"
      BY <1>4 DEF InjectKey
    <2>1. CASE NamesKey(h[k])
      <3>1. \E i \in DOMAIN codes[k] :
              \/ codes[k][i] = Code(h[k][1])
              \/ torn[k] /\ \E j \in 1 .. CodeLen : codes[k][i][j] = h[k][1]
        BY <2>0, <2>1, BufferSent
      <3>2. \A key \in pressed' : key \in pressed \/ key = h[k][1]
        BY <1>4, <2>1 DEF InjectKey, Key
      <3> QED
        BY <2>0, <3>1, <3>2 DEF NoGhostKeys
    <2>2. CASE ~NamesKey(h[k])
      BY <1>4, <2>2 DEF InjectKey, NoGhostKeys
    <2> QED
      BY <2>1, <2>2
  <1> QED
    BY <1>1, <1>2, <1>3, <1>4 DEF KbdNext, handleKbd

-----------------------------------------------------------------------------
(* A keyboard, followed. *)

(* Who has sent nothing can but go away. *)
LEMMA OthersRest ==
  ASSUME BytesInv, NEW d \in Keyboards, NEW k \in Keyboards, k # d, Only(d),
         ReadCode(k) \/ InjectKey(k) \/ sync(k)
  PROVE  FALSE
  <1>1. codes[k] = <<>>
    BY DEF Only
  <1>2. stream[k] = <<>> /\ kbd[k] # "key" /\ kbd[k] # "sync"
    BY <1>1 DEF BytesInv
  <1>3. ReadCode(k)
    BY <1>2 DEF InjectKey, sync
  <1>4. PICK n \in 1 .. CodeLen : n <= Len(stream[k])
    BY <1>3 DEF ReadCode
  <1>5. n \in Nat /\ n > 0
    BY KbdBounds
  <1> QED
    BY <1>2, <1>4, <1>5

(* A keyboard is where it was when another one does something. *)
LEMMA OthersFollow ==
  ASSUME KbdInv, NEW k \in Keyboards, NEW d \in Keyboards, d # k, ~torn'[d],
         SendCode(k) \/ KbdHangup(k) \/ handleKbd(k)
  PROVE  \E n \in 0 .. Len(codes'[d]) : Followed(d, n)'
  <1>1. /\ codes'[d] = codes[d] /\ stream'[d] = stream[d] /\ h'[d] = h[d]
        /\ torn'[d] = torn[d] /\ kbd'[d] = kbd[d]
    BY DEF SendCode, KbdHangup, handleKbd, ReadCode, InjectKey, sync, KbdInv, KbdTypeOK
  <1>2. PICK n \in 0 .. Len(codes[d]) : Followed(d, n)
    BY <1>1 DEF KbdInv, FollowInv
  <1>3. Whole(d, n)'
    BY <1>1, <1>2 DEF Followed, Whole
  <1>4. ASSUME Only(d)' PROVE Told(d, n)'
    <2>1. CASE SendCode(k)
      <3>1. codes'[k] # <<>>
        <4>1. PICK sc \in Codes : Len(codes'[k]) = Len(codes[k]) + 1 /\ codes[k] \in Seq(Codes)
          BY <2>1, SendBytes DEF KbdInv, KbdTypeOK
        <4>2. Len(codes'[k]) # 0
          BY <4>1
        <4> QED
          BY <4>2
      <3> QED
        BY <1>4, <3>1 DEF Only
    <2>2. CASE KbdHangup(k)
      <3>1. UNCHANGED <<codes, pressed, synced>>
        BY <2>2 DEF KbdHangup
      <3>2. Told(d, n)
        BY <1>2, <1>4, <3>1 DEF Followed, Only
      <3> QED
        BY <1>1, <3>1, <3>2 DEF Told
    <2>3. CASE handleKbd(k)
      <3>1. codes' = codes
        BY <2>3 DEF handleKbd, ReadCode, InjectKey, sync
      <3>2. Only(d)
        BY <1>4, <3>1 DEF Only
      <3> QED
        BY <2>3, <3>2, OthersRest DEF KbdInv, handleKbd
    <2> QED
      BY <2>1, <2>2, <2>3
  <1>5. n \in 0 .. Len(codes'[d])
    BY <1>1
  <1> QED
    BY <1>3, <1>4, <1>5 DEF Followed

LEMMA FollowSend ==
  ASSUME KbdInv, NEW k \in Keyboards, SendCode(k), ~torn'[k]
  PROVE  \E n \in 0 .. Len(codes'[k]) : Followed(k, n)'
  <1>1. PICK sc \in Codes :
            /\ codes' = [codes EXCEPT ![k] = Append(codes[k], sc)]
            /\ codes'[k] \in Seq(Codes) /\ Len(codes'[k]) = Len(codes[k]) + 1
            /\ codes'[k][Len(codes[k]) + 1] = sc
            /\ \A i \in 1 .. Len(codes[k]) : codes'[k][i] = codes[k][i]
            /\ stream' \in [Keyboards -> Seq(Bytes)]
            /\ Len(stream'[k]) = Len(stream[k]) + CodeLen
            /\ \A i \in 1 .. Len(stream[k]) : stream'[k][i] = stream[k][i]
            /\ \A j \in 1 .. CodeLen : stream'[k][Len(stream[k]) + j] = sc[j]
            /\ UNCHANGED <<kbd, h, torn, pressed, synced>>
    BY SendBytes DEF KbdInv
  <1>2. /\ codes[k] \in Seq(Codes) /\ Len(codes[k]) \in Nat
        /\ CodeLen \in Nat /\ CodeLen > 0
    BY KbdBounds DEF KbdInv, KbdTypeOK
  <1>4. Only(k)' => Only(k)
    BY <1>1 DEF Only, KbdInv, KbdTypeOK
  <1>5. PICK n \in 0 .. Len(codes[k]) : Whole(k, n) /\ (Only(k) => Told(k, n))
    BY <1>1 DEF KbdInv, FollowInv, Followed
  <1> DEFINE L == Len(codes[k])
  <1>6. L \in Nat /\ n \in Nat /\ n <= L /\ L - n \in Nat
    BY <1>2, <1>5
  <1>7. CodeLen * ((L - n) + 1) = CodeLen * (L - n) + CodeLen
    BY <1>2, <1>6
  <1>8. Len(stream[k]) = CodeLen * (L - n)
    BY <1>5 DEF Whole
  <1>9. Len(stream'[k]) = CodeLen * (Len(codes'[k]) - n)
    <2>1. Len(codes'[k]) - n = (L - n) + 1
      BY <1>1, <1>6
    <2> QED
      BY <1>1, <1>7, <1>8, <2>1
  <1>10. ASSUME NEW i \in n + 1 .. Len(codes'[k]), NEW j \in 1 .. CodeLen
         PROVE  stream'[k][CodeLen * (i - n - 1) + j] = codes'[k][i][j]
    <2>1. CASE i <= L
      <3>1. i \in n + 1 .. L /\ i \in 1 .. L /\ i - n - 1 \in Nat /\ i - n - 1 < L - n
        BY <1>6, <2>1
      <3>2. CodeLen * (i - n - 1) + j \in 1 .. Len(stream[k])
        BY <1>6, <1>8, <3>1, CodePlace
      <3>3. stream[k][CodeLen * (i - n - 1) + j] = codes[k][i][j]
        BY <1>5, <3>1 DEF Whole
      <3> QED
        BY <1>1, <3>1, <3>2, <3>3
    <2>2. CASE ~(i <= L)
      <3>1. i = L + 1 /\ i - n - 1 = L - n
        BY <1>1, <1>6, <2>2
      <3> QED
        BY <1>1, <1>8, <3>1
    <2> QED
      BY <2>1, <2>2
  <1>11. ASSUME NEW w \in 0 .. L
         PROVE  SubSeq(codes'[k], 1, w) = SubSeq(codes[k], 1, w)
    <2> DEFINE s == SubSeq(codes[k], 1, w)
               t == SubSeq(codes'[k], 1, w)
    <2>1. w \in Nat /\ w <= L /\ w <= Len(codes'[k])
      BY <1>1, <1>6
    <2>2. s \in Seq(Codes) /\ Len(s) = w /\ \A i \in 1 .. w : s[i] = codes[k][i]
      BY <1>2, <2>1, SubSeqProperties
    <2>3. t \in Seq(Codes) /\ Len(t) = w /\ \A i \in 1 .. w : t[i] = codes'[k][i]
      BY <1>1, <2>1, SubSeqProperties
    <2> HIDE DEF s, t
    <2>4. ASSUME NEW i \in 1 .. w PROVE s[i] = t[i]
      <3>1. i \in 1 .. Len(codes[k])
        BY <2>1
      <3>2. codes'[k][i] = codes[k][i]
        BY <1>1, <3>1
      <3> QED
        BY <2>2, <2>3, <3>2
    <2>5. s = t
      BY <2>2, <2>3, <2>4, SeqEqual
    <2> QED
      BY <2>5 DEF s, t
  <1>12. n > 0 => codes'[k][n] = codes[k][n]
    BY <1>1, <1>6
  <1>13. SubSeq(codes'[k], 1, n) = SubSeq(codes[k], 1, n)
    BY <1>6, <1>11
  <1>14. n > 0 => SubSeq(codes'[k], 1, n - 1) = SubSeq(codes[k], 1, n - 1)
    BY <1>6, <1>11
  <1>15. n \in 0 .. Len(codes'[k])
    BY <1>1, <1>6
  <1>16. kbd[k] = "key" => n > 0 /\ \A j \in 1 .. CodeLen : h[k][j] = codes[k][n][j]
    BY <1>5 DEF Whole
  <1>17. Whole(k, n)'
    <2>1. kbd'[k] = "key" => n > 0 /\ \A j \in 1 .. CodeLen : h'[k][j] = codes'[k][n][j]
      BY <1>1, <1>12, <1>16
    <2> QED
      BY <1>9, <1>10, <2>1 DEF Whole
  <1>18. Told(k, n) => Told(k, n)'
    BY <1>1, <1>13, <1>14, <1>16 DEF Told
  <1> QED
    BY <1>4, <1>5, <1>15, <1>17, <1>18 DEF Followed

LEMMA FollowRead ==
  ASSUME KbdInv, NEW k \in Keyboards, ReadCode(k), ~torn'[k]
  PROVE  \E n \in 0 .. Len(codes'[k]) : Followed(k, n)'
  <1>1. PICK r \in 1 .. CodeLen :
           /\ r <= Len(stream[k]) /\ Len(stream[k]) \in Nat
           /\ stream' \in [Keyboards -> Seq(Bytes)]
           /\ Len(stream'[k]) = Len(stream[k]) - r
           /\ \A i \in 1 .. Len(stream[k]) - r : stream'[k][i] = stream[k][i + r]
           /\ \A i \in 1 .. CodeLen : h'[k][i] = IF i <= r THEN stream[k][i] ELSE h[k][i]
           /\ torn'[k] = (torn[k] \/ r < CodeLen)
           /\ kbd[k] = "read" /\ kbd' = [kbd EXCEPT ![k] = "key"]
           /\ UNCHANGED <<codes, pressed, synced>>
    BY ReadBytes DEF KbdInv
  <1>2. Only(k)' => Only(k)
    BY <1>1 DEF Only
  <1>4. r = CodeLen /\ ~torn[k] /\ CodeLen \in Nat /\ CodeLen > 0
    <2>1. CodeLen \in Nat /\ CodeLen > 0 /\ r \in 1 .. CodeLen
      BY KbdBounds
    <2>2. ~torn[k] /\ ~(r < CodeLen)
      BY <1>1
    <2> QED
      BY <2>1, <2>2
  <1>5. PICK n \in 0 .. Len(codes[k]) : Whole(k, n) /\ (Only(k) => Told(k, n))
    BY <1>4 DEF KbdInv, FollowInv, Followed
  <1> DEFINE L == Len(codes[k])
  <1>6. codes[k] \in Seq(Codes) /\ L \in Nat /\ n \in Nat /\ n <= L /\ L - n \in Nat
    BY <1>5 DEF KbdInv, KbdTypeOK
  <1>7. Len(stream[k]) = CodeLen * (L - n)
    BY <1>5 DEF Whole
  <1>8. n < L
    <2> SUFFICES ASSUME n = L PROVE FALSE
      BY <1>6
    <2>1. L - n = 0
      BY <1>6
    <2>2. Len(stream[k]) = 0
      BY <1>4, <1>7, <2>1
    <2> QED
      BY <1>1, <1>4, <2>2
  <1> DEFINE q == L - (n + 1)
  <1>9. q \in Nat /\ L - n = q + 1
    BY <1>6, <1>8
  <1>10. CodeLen * (q + 1) = CodeLen * q + CodeLen /\ CodeLen * q \in Nat
    BY <1>4, <1>9
  <1>11. Len(stream[k]) - r = CodeLen * q
    BY <1>4, <1>7, <1>9, <1>10
  <1>12. Len(stream'[k]) = CodeLen * (Len(codes'[k]) - (n + 1))
    BY <1>1, <1>11
  <1>13. ASSUME NEW i \in (n + 1) + 1 .. L, NEW j \in 1 .. CodeLen
         PROVE  stream'[k][CodeLen * (i - (n + 1) - 1) + j] = codes[k][i][j]
    <2> DEFINE x == i - (n + 1) - 1
    <2>1. x \in Nat /\ x < q /\ i - n - 1 = x + 1 /\ i \in n + 1 .. L
      BY <1>6, <1>9
    <2>2. CodeLen * x \in Nat /\ CodeLen * x + j \in 1 .. CodeLen * q
      BY <1>9, <2>1, CodePlace
    <2>3. stream[k][CodeLen * (i - n - 1) + j] = codes[k][i][j]
      BY <1>5, <2>1 DEF Whole
    <2>4. CodeLen * (x + 1) = CodeLen * x + CodeLen
      BY <1>4, <2>1
    <2> HIDE DEF x
    <2>5. stream'[k][CodeLen * x + j] = stream[k][(CodeLen * x + j) + r]
      BY <1>1, <1>11, <2>2
    <2>6. (CodeLen * x + j) + r = CodeLen * (x + 1) + j
      BY <1>4, <2>2, <2>4
    <2>7. stream'[k][CodeLen * x + j] = codes[k][i][j]
      BY <2>1, <2>3, <2>5, <2>6
    <2> QED
      BY <2>7 DEF x
  <1>14. ASSUME NEW j \in 1 .. CodeLen PROVE h'[k][j] = codes[k][n + 1][j]
    <2>1. h'[k][j] = stream[k][j]
      BY <1>1, <1>4
    <2>2. n + 1 \in n + 1 .. L /\ (n + 1) - n - 1 = 0
      BY <1>6, <1>8
    <2>3. stream[k][CodeLen * ((n + 1) - n - 1) + j] = codes[k][n + 1][j]
      BY <1>5, <2>2 DEF Whole
    <2>4. CodeLen * 0 + j = j
      BY <1>4
    <2> QED
      BY <2>1, <2>2, <2>3, <2>4
  <1>15. Only(k) => pressed = DownAfter(SubSeq(codes[k], 1, n)) /\ synced
    BY <1>1, <1>5 DEF Told
  <1>16. (n + 1) - 1 = n /\ n + 1 > 0 /\ n + 1 \in 0 .. L
    BY <1>6, <1>8
  <1>17. kbd'[k] = "key"
    BY <1>1 DEF KbdInv, KbdTypeOK
  <1>18. Whole(k, n + 1)'
    BY <1>1, <1>12, <1>13, <1>14, <1>16, <1>17 DEF Whole
  <1>19. Only(k)' => Told(k, n + 1)'
    BY <1>1, <1>2, <1>15, <1>16, <1>17 DEF Told
  <1> QED
    BY <1>1, <1>16, <1>18, <1>19 DEF Followed

LEMMA FollowInject ==
  ASSUME KbdInv, NEW k \in Keyboards, InjectKey(k), ~torn'[k]
  PROVE  \E n \in 0 .. Len(codes'[k]) : Followed(k, n)'
  <1>1. UNCHANGED <<codes, stream, h, torn>> /\ kbd[k] = "key"
    BY DEF InjectKey
  <1>2. Only(k)' => Only(k)
    BY <1>1 DEF Only
  <1>4. PICK n \in 0 .. Len(codes[k]) : Whole(k, n) /\ (Only(k) => Told(k, n))
    BY <1>1 DEF KbdInv, FollowInv, Followed
  <1>5. n > 0 /\ \A j \in 1 .. CodeLen : h[k][j] = codes[k][n][j]
    BY <1>1, <1>4 DEF Whole
  <1>3. Only(k) => pressed = DownAfter(SubSeq(codes[k], 1, n - 1)) /\ synced
    BY <1>1, <1>4 DEF Told
  <1> DEFINE s == SubSeq(codes[k], 1, n - 1)
             c == codes[k][n]
  <1>6. /\ codes[k] \in Seq(Codes) /\ Len(codes[k]) \in Nat
        /\ n \in 1 .. Len(codes[k])
    BY <1>5 DEF KbdInv, KbdTypeOK
  <1>7. s \in Seq(Codes) /\ c \in Codes
    BY <1>6
  <1>8. SubSeq(codes[k], 1, n) = Append(s, c)
    <2>1. SubSeq(codes[k], 1, (n - 1) + 1) = Append(SubSeq(codes[k], 1, n - 1), codes[k][(n - 1) + 1])
      BY <1>6
    <2>2. (n - 1) + 1 = n
      BY <1>6
    <2> QED
      BY <2>1, <2>2
  <1> HIDE DEF s, c
  <1>9. DownAfter(Append(s, c)) =
           IF ~NamesKey(c) THEN DownAfter(s)
           ELSE IF c[1] < 128 THEN DownAfter(s) \union {c[1]} ELSE DownAfter(s) \ {c[1] - 128}
    BY <1>7, OneMoreCode
  <1>10. (NamesKey(h[k]) <=> NamesKey(c)) /\ h[k][1] = c[1]
    <2>1. /\ \A i \in 2 .. CodeLen : i \in 1 .. CodeLen
          /\ 1 \in 1 .. CodeLen
      BY KbdBounds
    <2> QED
      BY <1>5, <2>1 DEF NamesKey, SaysCode, c
  <1>12. Only(k) => pressed' = DownAfter(SubSeq(codes[k], 1, n))
    <2>1. CASE NamesKey(h[k])
      <3>1. pressed' = Key(c[1])
        BY <1>10, <2>1 DEF InjectKey
      <3> QED
        BY <1>3, <1>8, <1>9, <1>10, <2>1, <3>1 DEF Key, s
    <2>2. CASE ~NamesKey(h[k])
      <3>1. pressed' = pressed
        BY <2>2 DEF InjectKey
      <3> QED
        BY <1>3, <1>8, <1>9, <1>10, <2>2, <3>1 DEF s
    <2> QED
      BY <2>1, <2>2
  <1>13. kbd'[k] # "key" /\ (Only(k) => (kbd'[k] # "sync" => synced'))
    <2>1. CASE NamesKey(h[k])
      BY <2>1 DEF InjectKey, KbdInv, KbdTypeOK
    <2>2. CASE ~NamesKey(h[k])
      BY <1>3, <2>2 DEF InjectKey, KbdInv, KbdTypeOK
    <2> QED
      BY <2>1, <2>2
  <1>14. Whole(k, n)'
    BY <1>1, <1>4, <1>13 DEF Whole
  <1>15. Only(k)' => Told(k, n)'
    BY <1>1, <1>2, <1>12, <1>13 DEF Told
  <1> QED
    BY <1>1, <1>4, <1>14, <1>15 DEF Followed

LEMMA FollowSync ==
  ASSUME KbdInv, NEW k \in Keyboards, sync(k) \/ KbdHangup(k), ~torn'[k]
  PROVE  \E n \in 0 .. Len(codes'[k]) : Followed(k, n)'
  <1>1. UNCHANGED <<codes, stream, h, torn, pressed>>
    BY DEF sync, KbdHangup
  <1>2. Only(k)' => Only(k)
    BY <1>1 DEF Only
  <1>3. PICK n \in 0 .. Len(codes[k]) : Whole(k, n) /\ (Only(k) => Told(k, n))
    BY <1>1 DEF KbdInv, FollowInv, Followed
  <1>4. kbd[k] # "key" /\ kbd'[k] # "key"
    BY DEF sync, KbdHangup, KbdInv, KbdTypeOK
  <1>5. Told(k, n) => synced'
    <2>1. CASE sync(k)
      BY <2>1 DEF sync
    <2>2. CASE KbdHangup(k)
      BY <2>2 DEF KbdHangup, Told
    <2> QED
      BY <2>1, <2>2
  <1>6. Whole(k, n)'
    BY <1>1, <1>3, <1>4 DEF Whole
  <1>7. Told(k, n) => Told(k, n)'
    BY <1>1, <1>4, <1>5 DEF Told
  <1> QED
    BY <1>1, <1>2, <1>3, <1>6, <1>7 DEF Followed

LEMMA FollowNext ==
  ASSUME KbdInv, KbdNext
  PROVE  FollowInv'
  <1> SUFFICES ASSUME NEW d \in Keyboards, ~torn'[d]
               PROVE  \E n \in 0 .. Len(codes'[d]) : Followed(d, n)'
    BY DEF FollowInv
  <1>1. PICK k \in Keyboards : SendCode(k) \/ KbdHangup(k) \/ handleKbd(k)
    BY DEF KbdNext
  <1>2. CASE d = k
    BY <1>1, <1>2, FollowSend, FollowRead, FollowInject, FollowSync DEF handleKbd
  <1>3. CASE d # k
    BY <1>1, <1>3, OthersFollow
  <1> QED
    BY <1>2, <1>3

LEMMA KbdStart == KbdInit => KbdInv
  <1> SUFFICES ASSUME KbdInit PROVE KbdInv
    OBVIOUS
  <1>0. CodeLen \in Nat /\ CodeLen > 0
    BY KbdBounds
  <1>1. /\ kbd = [k \in Keyboards |-> "read"] /\ codes = [k \in Keyboards |-> <<>>]
        /\ stream = [k \in Keyboards |-> <<>>]
        /\ h = [k \in Keyboards |-> [i \in 1 .. CodeLen |-> 0]]
        /\ torn = [k \in Keyboards |-> FALSE] /\ pressed = {} /\ synced = TRUE
    BY DEF KbdInit
  <1>2. KbdTypeOK
    <2>1. 0 \in Bytes
      BY DEF Bytes
    <2> QED
      BY <1>1, <2>1 DEF KbdTypeOK
  <1>3. BytesInv
    BY <1>1 DEF BytesInv
  <1>4. NoGhostKeys
    BY <1>1 DEF NoGhostKeys
  <1>5. ASSUME NEW k \in Keyboards PROVE Followed(k, 0)
    <2>1. Len(codes[k]) = 0 /\ Len(stream[k]) = 0 /\ CodeLen * (0 - 0) = 0
      BY <1>0, <1>1
    <2>2. SubSeq(codes[k], 1, 0) = <<>> /\ DownAfter(<<>>) = {}
      BY <1>1 DEF DownAfter
    <2>3. kbd[k] = "read" /\ codes[k] = <<>>
      BY <1>1
    <2>4. \A i \in 0 + 1 .. Len(codes[k]) : FALSE
      BY <2>1
    <2>5. Len(stream[k]) = CodeLen * (Len(codes[k]) - 0)
      BY <2>1
    <2>6. pressed = DownAfter(SubSeq(codes[k], 1, 0))
      BY <1>1, <2>2, <2>3
    <2> QED
      BY <1>1, <2>3, <2>4, <2>5, <2>6 DEF Followed, Whole, Told
  <1>6. FollowInv
    <2>1. \A k \in Keyboards : 0 \in 0 .. Len(codes[k])
      BY <1>1
    <2> QED
      BY <1>5, <2>1 DEF FollowInv
  <1> QED
    BY <1>2, <1>3, <1>4, <1>6 DEF KbdInv

LEMMA KbdHolds == KbdInit /\ [][KbdNext]_kbdVars => []KbdInv
  <1>1. KbdInit => KbdInv
    BY KbdStart
  <1>2. KbdInv /\ [KbdNext]_kbdVars => KbdInv'
    <2> SUFFICES ASSUME KbdInv, [KbdNext]_kbdVars PROVE KbdInv'
      OBVIOUS
    <2>1. CASE KbdNext
      <3>1. KbdTypeOK'
        BY <2>1, KbdTypeNext DEF KbdInv
      <3>2. BytesInv'
        BY <2>1, BytesNext DEF KbdInv
      <3>3. NoGhostKeys'
        BY <2>1, GhostNext
      <3>4. FollowInv'
        BY <2>1, FollowNext
      <3> QED
        BY <3>1, <3>2, <3>3, <3>4 DEF KbdInv
    <2>2. CASE UNCHANGED kbdVars
      <3>1. UNCHANGED <<kbd, codes, stream, h, torn, pressed, synced>>
        BY <2>2 DEF kbdVars
      <3>2. KbdTypeOK' /\ BytesInv' /\ NoGhostKeys'
        BY <3>1 DEF KbdInv, KbdTypeOK, BytesInv, Said, NoGhostKeys
      <3>3. FollowInv'
        <4> SUFFICES ASSUME NEW k \in Keyboards, ~torn[k]
                     PROVE  \E n \in 0 .. Len(codes'[k]) : Followed(k, n)'
          BY <3>1 DEF FollowInv
        <4>1. PICK n \in 0 .. Len(codes[k]) : Followed(k, n)
          BY DEF KbdInv, FollowInv
        <4>2. Whole(k, n)'
          BY <3>1, <4>1 DEF Followed, Whole
        <4>3. Only(k)' => Told(k, n)'
          BY <3>1, <4>1 DEF Followed, Only, Told
        <4> QED
          BY <3>1, <4>1, <4>2, <4>3 DEF Followed
      <3> QED
        BY <3>2, <3>3 DEF KbdInv
    <2> QED
      BY <2>1, <2>2
  <1> QED
    BY <1>1, <1>2, PTL

(* A draw server's keyboards: every variable keeps to its type, and a key  *)
(* is down only if a client pressed it, or a code of a client that came in *)
(* pieces has its number for a byte (drawsrv.go's handleKbd).              *)
THEOREM KeysAreSafe == ServerSpec => []KeysSafe
  <1>1. KbdInv => KeysSafe
    BY DEF KbdInv, KeysSafe
  <1> QED
    BY <1>1, KbdSpec, KbdHolds, PTL

(* When all that a lone keyboard sent, never in pieces, has been read, the *)
(* keys that are down are those it pressed and did not release, and the    *)
(* device has reported them (drawsrv.go's handleKbd).                      *)
THEOREM KeysAreFollowed == ServerSpec => []KeysFollow
  <1>1. KbdInv => KeysFollow
    <2> SUFFICES ASSUME KbdInv, NEW k \in Keyboards,
                        \A j \in Keyboards : codes[j] = <<>> <=> j # k,
                        ~torn[k] /\ stream[k] = <<>> /\ kbd[k] = "read"
                 PROVE  pressed = DownAfter(codes[k]) /\ synced
      BY DEF KeysFollow
    <2>1. PICK n \in 0 .. Len(codes[k]) : Followed(k, n)
      BY DEF KbdInv, FollowInv
    <2>2. codes[k] \in Seq(Codes) /\ Len(codes[k]) \in Nat /\ CodeLen \in Nat /\ CodeLen > 0
      BY KbdBounds DEF KbdInv, KbdTypeOK
    <2>3. n = Len(codes[k])
      <3> SUFFICES ASSUME n < Len(codes[k]) PROVE FALSE
        BY <2>1, <2>2
      <3> DEFINE b == Len(codes[k]) - n
      <3>1. b \in Nat /\ 0 < b /\ 1 \in 1 .. CodeLen
        BY <2>1, <2>2
      <3>2. Len(stream[k]) = CodeLen * b
        BY <2>1 DEF Followed, Whole
      <3> HIDE DEF b
      <3>3. CodeLen * 0 + 1 \in 1 .. CodeLen * b
        BY <3>1, CodePlace
      <3>4. Len(stream[k]) = 0 /\ CodeLen * 0 + 1 = 1
        BY <2>2
      <3> QED
        BY <3>2, <3>3, <3>4
    <2>4. SubSeq(codes[k], 1, n) = codes[k]
      BY <2>2, <2>3, SubSeqFull
    <2>5. Only(k)
      BY DEF Only
    <2> QED
      BY <2>1, <2>4, <2>5 DEF Followed, Told
  <1> QED
    BY <1>1, KbdSpec, KbdHolds, PTL

-----------------------------------------------------------------------------
(* The safety half of Answered: the steps a frame that has arrived is from *)
(* its reply, and the most a request can have.                             *)
StepsToReply(c) ==
  IF pc[c] = "header" THEN HdrLen + BufLen + 6
  ELSE IF pc[c] = "body" THEN HdrLen + Incoming(c).len - cut[c] + 5
  ELSE IF pc[c] = "serve" THEN Len(todo[c])
  ELSE IF pc[c] = "lost" THEN 5 ELSE 0

ReplyNearer(c) ==
  /\ handleDraw(c) => \/ Len(replies'[c]) = Len(replies[c]) + 1
                      \/ StepsToReply(c)' < StepsToReply(c)
  /\ ~handleDraw(c) => \/ pc'[c] = "closed"
                       \/ StepsToReply(c)' = StepsToReply(c)

(* However little of a body is missing, it is further from its reply than  *)
(* any request that is being served.                                       *)
Counted(c) ==
  /\ StepsToReply(c) \in Nat
  /\ pc[c] = "body" => StepsToReply(c) \in 6 .. BufLen + 5
  /\ pc[c] = "serve" => StepsToReply(c) <= 4

LEMMA StepsAreCounted ==
  ASSUME WireInv, NEW c \in Conns
  PROVE  Counted(c)
  <1> USE DEF WireInv, Counted
  <1>1. CASE pc[c] = "body"
    <2>1. Incoming(c).len \in Nat /\ cut[c] \in Nat
      BY <1>1, IncomingFrame, SizesAreNaturals DEF StreamInv, Waiting, TypeOK
    <2>2. /\ Incoming(c).len <= BufLen
          /\ HdrLen <= cut[c] /\ cut[c] < HdrLen + Incoming(c).len
      BY <1>1 DEF StreamInv, Acceptable
    <2> QED
      BY <1>1, <2>1, <2>2, SizesAreNaturals DEF StepsToReply
  <1>2. CASE pc[c] = "serve"
    <2>1. Len(todo[c]) <= 4 /\ todo[c] \in Seq(PointerEvents)
      BY DEF TypeOK, EventsTyped
    <2> QED
      BY <1>2, <2>1 DEF StepsToReply
  <1>3. CASE pc[c] \notin {"body", "serve"}
    BY <1>3, SizesAreNaturals DEF StepsToReply
  <1> QED
    BY <1>1, <1>2, <1>3

LEMMA GoroutineNears ==
  ASSUME WireInv, WireInv', NEW c \in Conns, Counted(c), Counted(c)', handleDraw(c)
  PROVE  \/ Len(replies'[c]) = Len(replies[c]) + 1
         \/ StepsToReply(c)' < StepsToReply(c)
  <1> TypeOK /\ EventsTyped /\ StreamInv
    BY DEF WireInv
  <1>1. CASE ReadHeader(c) \/ ReadHeaderPart(c)
    <2>1. pc[c] = "header" /\ pc'[c] \in {"body", "lost", "closed"}
      BY <1>1 DEF ReadHeader, ReadHeaderPart, TypeOK
    <2>2. StepsToReply(c) = HdrLen + BufLen + 6
      BY <2>1 DEF StepsToReply
    <2>3. pc'[c] # "body" => StepsToReply(c)' \in {0, 5}
      BY <2>1 DEF StepsToReply
    <2> QED
      BY <2>1, <2>2, <2>3, SizesAreNaturals DEF Counted
  <1>2. CASE ReadBody(c)
    <2>1. pc[c] = "body" /\ Waiting(c) /\ UNCHANGED sent
      BY <1>2, BodyRead
    <2>2. Incoming(c).len \in Nat /\ cut[c] \in Nat
      <3>1. Incoming(c).len \in Nat
        BY <2>1, IncomingFrame
      <3>2. cut[c] \in 0 .. HdrLen + BufLen
        BY DEF TypeOK
      <3> QED
        BY <3>1, <3>2, SizesAreNaturals
    <2>3. PICK k \in 1 .. HdrLen + Incoming(c).len - cut[c] :
            \/ Dispatch(c, Incoming(c))
            \/ cut' = [cut EXCEPT ![c] = @ + k] /\ UNCHANGED <<seen, pc>>
      BY <1>2 DEF ReadBody
    <2>4. CASE Dispatch(c, Incoming(c))
      <3>1. pc'[c] = "serve"
        BY <2>4 DEF Dispatch, TypeOK
      <3> QED
        BY <2>1, <3>1, SizesAreNaturals DEF Counted
    <2>5. CASE cut' = [cut EXCEPT ![c] = @ + k] /\ UNCHANGED <<seen, pc>>
      <3>1. cut'[c] = cut[c] + k /\ pc'[c] = "body" /\ Incoming(c)' = Incoming(c)
        BY <2>1, <2>5 DEF TypeOK, Incoming
      <3>2. /\ StepsToReply(c) = HdrLen + Incoming(c).len - cut[c] + 5
            /\ StepsToReply(c)' = HdrLen + Incoming(c).len - (cut[c] + k) + 5
        BY <2>1, <3>1 DEF StepsToReply
      <3>3. k \in Nat /\ k > 0
        BY <2>2, <2>3, SizesAreNaturals
      <3>4. \A x, y, z \in Nat : x + y - (z + k) + 5 < x + y - z + 5
        BY <3>3
      <3> QED
        BY <2>2, <3>2, <3>4, SizesAreNaturals
    <2> QED
      BY <2>3, <2>4, <2>5
  <1>3. CASE Inject(c)
    <2>1. /\ pc[c] = "serve" /\ pc'[c] = "serve" /\ todo[c] # <<>>
          /\ todo'[c] = Tail(todo[c]) /\ todo[c] \in Seq(PointerEvents)
      BY <1>3 DEF Inject, EventsTyped
    <2>2. Len(todo'[c]) = Len(todo[c]) - 1 /\ Len(todo[c]) \in Nat
      BY <2>1
    <2> QED
      BY <2>1, <2>2 DEF StepsToReply
  <1>4. CASE WriteReply(c)
    <2>1. \E r : replies' = [replies EXCEPT ![c] = Append(@, r)]
      BY <1>4 DEF WriteReply
    <2>2. replies \in [Conns -> Seq(Replies)] /\ replies' \in [Conns -> Seq(Replies)]
      BY DEF WireInv, TypeOK
    <2> QED
      BY <2>1, <2>2
  <1>5. CASE ReadStray(c)
    <2>1. pc[c] = "lost" /\ pc'[c] \in {"serve", "closed"}
      BY <1>5, StrayRead DEF Dispatch, TypeOK
    <2>2. StepsToReply(c) = 5 /\ (pc'[c] = "closed" => StepsToReply(c)' = 0)
      BY <2>1 DEF StepsToReply
    <2> QED
      BY <2>1, <2>2 DEF Counted
  <1> QED
    BY <1>1, <1>2, <1>3, <1>4, <1>5 DEF handleDraw

(* Nobody else takes it further, or sets it back. *)
LEMMA OthersLeave ==
  ASSUME WireInv, [Next]_vars, NEW c \in Conns, ~handleDraw(c)
  PROVE  pc'[c] = "closed" \/ StepsToReply(c)' = StepsToReply(c)
  <1> USE DEF WireInv
  <1>1. \/ pc'[c] = pc[c] /\ cut'[c] = cut[c] /\ todo'[c] = todo[c] /\ seen'[c] = seen[c]
        \/ pc'[c] = "closed"
    <2>1. ASSUME NEW d \in Conns, d # c, handleDraw(d)
          PROVE  pc'[c] = pc[c] /\ cut'[c] = cut[c] /\ todo'[c] = todo[c] /\ seen'[c] = seen[c]
      <3>1. CASE ReadBody(d)
        <4>1. /\ \E n : cut' = [cut EXCEPT ![d] = n]
              /\ seen' = seen \/ \E n : seen' = [seen EXCEPT ![d] = n]
          BY <3>1, BodyRead
        <4>2. \/ UNCHANGED <<pc, todo>>
              \/ /\ \E q : pc' = [pc EXCEPT ![d] = q]
                 /\ \E es : todo' = [todo EXCEPT ![d] = es]
          BY <3>1, BodyRead DEF Dispatch
        <4>3. cut'[c] = cut[c] /\ seen'[c] = seen[c]
          BY <2>1, <4>1 DEF TypeOK
        <4>4. pc'[c] = pc[c] /\ todo'[c] = todo[c]
          BY <2>1, <4>2 DEF TypeOK, EventsTyped
        <4> QED
          BY <4>3, <4>4
      <3>2. CASE ReadHeader(d) \/ ReadHeaderPart(d)
        BY <2>1, <3>2 DEF ReadHeader, ReadHeaderPart, TypeOK
      <3>3. CASE Inject(d) \/ WriteReply(d)
        BY <2>1, <3>3 DEF Inject, WriteReply, TypeOK, EventsTyped
      <3>4. CASE ReadStray(d)
        <4>1. UNCHANGED <<cut, seen>>
          BY <3>4, StrayRead
        <4>2. /\ \E q : pc' = [pc EXCEPT ![d] = q]
              /\ UNCHANGED todo \/ \E es : todo' = [todo EXCEPT ![d] = es]
          BY <3>4, StrayRead DEF Dispatch
        <4>3. pc'[c] = pc[c] /\ todo'[c] = todo[c]
          BY <2>1, <4>2 DEF TypeOK, EventsTyped
        <4> QED
          BY <4>1, <4>3
      <3> QED
        BY <2>1, <3>1, <3>2, <3>3, <3>4 DEF handleDraw
    <2>2. ASSUME NEW d \in Conns, Hangup(d)
          PROVE  \/ pc'[c] = pc[c] /\ UNCHANGED <<cut, todo, seen>>
                 \/ pc'[c] = "closed"
      BY <2>2 DEF Hangup, TypeOK
    <2> QED
      BY <2>1, <2>2 DEF Next, Send, vars
  <1>2. pc[c] = "body" /\ seen'[c] = seen[c] => Incoming(c)' = Incoming(c)
    <2>1. pc[c] = "body" => seen[c] + 1 \in 1 .. Len(sent[c])
      BY SizesAreNaturals DEF StreamInv, TypeOK
    <2> QED
      BY <2>1, TakenStay DEF Incoming
  <1> QED
    BY <1>1, <1>2 DEF StepsToReply

(* Whatever the reads return and whatever the others do, a frame that has  *)
(* arrived is a bounded number of its goroutine's own steps from its reply *)
(* or the connection's end, or from a length word in pieces: the loop that *)
(* fills the body gets somewhere each time, and no request, made by anyone *)
(* or not, asks for events without end (handleDraw).                       *)
THEOREM FramesAreServed ==
  ServerSpec => /\ [](\A c \in Conns : StepsToReply(c) \in 0 .. HdrLen + BufLen + 6)
                /\ [][\A c \in Conns : ReplyNearer(c)]_vars
  <1>1. WireInv => \A c \in Conns : Counted(c)
    BY StepsAreCounted
  <1>2. (\A c \in Conns : Counted(c))
          => \A c \in Conns : StepsToReply(c) \in 0 .. HdrLen + BufLen + 6
    <2> SUFFICES ASSUME NEW c \in Conns, Counted(c)
                 PROVE  StepsToReply(c) \in 0 .. HdrLen + BufLen + 6
      OBVIOUS
    <2>1. pc[c] \notin {"body", "serve"} => StepsToReply(c) \in {0, 5, HdrLen + BufLen + 6}
      BY DEF StepsToReply
    <2> QED
      BY <2>1, SizesAreNaturals DEF Counted
  <1>3. /\ WireInv /\ (\A c \in Conns : Counted(c))
        /\ WireInv' /\ (\A c \in Conns : Counted(c))'
        /\ [Next]_vars
        => [\A c \in Conns : ReplyNearer(c)]_vars
    BY GoroutineNears, OthersLeave DEF ReplyNearer
  <1> QED
    BY <1>1, <1>2, <1>3, WireSpec, WireHolds, PTL DEF Spec
=============================================================================
