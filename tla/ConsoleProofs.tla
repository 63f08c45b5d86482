--------------------------- MODULE ConsoleProofs ---------------------------
(***************************************************************************)
(* Proofs about Console: its types, and both directions of the terminal,   *)
(* whatever the shell, its jobs, the user and the namespace's others do.   *)
(***************************************************************************)
EXTENDS Console, SequenceTheorems, WellFoundedInduction, TLAPS

-----------------------------------------------------------------------------
(* Sequences of lines. *)

Marks == {0} \union Lines

Before(s, t) == \A a \in LinesIn(s), b \in LinesIn(t) : a < b

LEMMA MarksAre == Marks \subseteq Nat /\ Lines = Marks \ {0}
  BY ConsoleBounds DEF Marks, Lines

LEMMA LinesAre ==
  ASSUME NEW s \in Seq(Marks)
  PROVE  LinesIn(s) \subseteq Lines /\ (s = <<>> => LinesIn(s) = {})
  <1>1. \A i \in DOMAIN s : s[i] \in Marks
    BY LenProperties
  <1> QED
    BY <1>1 DEF LinesIn, Marks

LEMMA OneLine ==
  ASSUME NEW x \in Marks
  PROVE  /\ <<x>> \in Seq(Marks) /\ Len(<<x>>) = 1 /\ <<x>>[1] = x
         /\ LinesIn(<<x>>) = {x} \ {0} /\ Ascends(<<x>>)
  BY DEF LinesIn, Ascends

(* The lines of two sequences, one behind the other. *)
LEMMA JoinLines ==
  ASSUME NEW s \in Seq(Marks), NEW t \in Seq(Marks)
  PROVE  /\ s \o t \in Seq(Marks)
         /\ LinesIn(s \o t) = LinesIn(s) \union LinesIn(t)
         /\ Ascends(s \o t) <=> Ascends(s) /\ Ascends(t) /\ Before(s, t)
  <1> DEFINE u == s \o t
             m == Len(s)
             n == Len(t)
  <1>1. /\ u \in Seq(Marks) /\ Len(u) = m + n
        /\ \A i \in 1 .. m + n : u[i] = IF i <= m THEN s[i] ELSE t[i - m]
    BY ConcatProperties
  <1>2. /\ m \in Nat /\ n \in Nat /\ DOMAIN s = 1 .. m /\ DOMAIN t = 1 .. n
        /\ DOMAIN u = 1 .. m + n
    BY <1>1
  <1> HIDE DEF u, m, n
  <1>3. ASSUME NEW i \in 1 .. m PROVE i \in 1 .. m + n /\ u[i] = s[i]
    BY <1>1, <1>2
  <1>4. ASSUME NEW i \in 1 .. n PROVE m + i \in 1 .. m + n /\ u[m + i] = t[i]
    <2>1. m + i \in 1 .. m + n /\ ~(m + i <= m) /\ (m + i) - m = i
      BY <1>2
    <2>2. u[m + i] = t[(m + i) - m]
      BY <1>1, <2>1
    <2> QED
      BY <2>1, <2>2
  <1>5. ASSUME NEW i \in 1 .. m + n, i \notin 1 .. m PROVE \E j \in 1 .. n : i = m + j
    <2>1. i - m \in 1 .. n /\ i = m + (i - m)
      BY <1>2, <1>5
    <2> QED
      BY <2>1
  <1>6. LinesIn(u) = LinesIn(s) \union LinesIn(t)
    <2>1. \A i \in 1 .. m + n : (\E j \in 1 .. m : u[i] = s[j]) \/ (\E j \in 1 .. n : u[i] = t[j])
      BY <1>3, <1>4, <1>5
    <2>2. LinesIn(u) \subseteq LinesIn(s) \union LinesIn(t)
      BY <1>2, <2>1 DEF LinesIn
    <2>3. LinesIn(s) \subseteq LinesIn(u)
      BY <1>2, <1>3 DEF LinesIn
    <2>4. LinesIn(t) \subseteq LinesIn(u)
      BY <1>2, <1>4 DEF LinesIn
    <2> QED
      BY <2>2, <2>3, <2>4
  <1>7. ASSUME Ascends(u) PROVE Ascends(s) /\ Ascends(t) /\ Before(s, t)
    <2>1. Ascends(s)
      BY <1>2, <1>3, <1>7 DEF Ascends
    <2>2. Ascends(t)
      <3> SUFFICES ASSUME NEW i \in 1 .. n, NEW j \in 1 .. n, i < j, t[i] # 0, t[j] # 0
                   PROVE  t[i] < t[j]
        BY <1>2 DEF Ascends
      <3>1. m + i < m + j
        BY <1>2
      <3> QED
        BY <1>2, <1>4, <1>7, <3>1 DEF Ascends
    <2>3. Before(s, t)
      <3> SUFFICES ASSUME NEW i \in 1 .. m, NEW j \in 1 .. n, s[i] # 0, t[j] # 0
                   PROVE  s[i] < t[j]
        BY <1>2 DEF Before, LinesIn
      <3>1. i < m + j
        BY <1>2
      <3> QED
        BY <1>2, <1>3, <1>4, <1>7, <3>1 DEF Ascends
    <2> QED
      BY <2>1, <2>2, <2>3
  <1>8. ASSUME Ascends(s), Ascends(t), Before(s, t) PROVE Ascends(u)
    <2> SUFFICES ASSUME NEW i \in 1 .. m + n, NEW j \in 1 .. m + n, i < j, u[i] # 0, u[j] # 0
                 PROVE  u[i] < u[j]
      BY <1>2 DEF Ascends
    <2>1. CASE i \in 1 .. m /\ j \in 1 .. m
      BY <1>2, <1>3, <1>8, <2>1 DEF Ascends
    <2>2. CASE i \in 1 .. m /\ j \notin 1 .. m
      <3>1. PICK b \in 1 .. n : j = m + b
        BY <1>5, <2>2
      <3>2. u[i] \in LinesIn(s) /\ u[j] \in LinesIn(t)
        BY <1>2, <1>3, <1>4, <2>2, <3>1 DEF LinesIn
      <3> QED
        BY <1>8, <3>2 DEF Before
    <2>3. CASE i \notin 1 .. m
      <3>1. j \notin 1 .. m
        BY <1>2, <2>3
      <3>2. PICK a \in 1 .. n : i = m + a
        BY <1>5, <2>3
      <3>3. PICK b \in 1 .. n : j = m + b
        BY <1>5, <3>1
      <3>4. a < b
        BY <1>2, <3>2, <3>3
      <3> QED
        BY <1>2, <1>4, <1>8, <3>2, <3>3, <3>4 DEF Ascends
    <2> QED
      BY <2>1, <2>2, <2>3
  <1> QED
    BY <1>1, <1>6, <1>7, <1>8 DEF u

LEMMA AppendLine ==
  ASSUME NEW s \in Seq(Marks), NEW x \in Marks
  PROVE  /\ LinesIn(Append(s, x)) = LinesIn(s) \union ({x} \ {0})
         /\ Ascends(Append(s, x)) <=> Ascends(s) /\ (x # 0 => \A a \in LinesIn(s) : a < x)
  <1>1. Append(s, x) = s \o <<x>>
    BY AppendIsConcat
  <1>2. <<x>> \in Seq(Marks) /\ LinesIn(<<x>>) = {x} \ {0} /\ Ascends(<<x>>)
    BY OneLine
  <1>3. /\ LinesIn(s \o <<x>>) = LinesIn(s) \union LinesIn(<<x>>)
        /\ Ascends(s \o <<x>>) <=> Ascends(s) /\ Ascends(<<x>>) /\ Before(s, <<x>>)
    BY <1>2, JoinLines
  <1> QED
    BY <1>1, <1>2, <1>3 DEF Before

LEMMA HeadLine ==
  ASSUME NEW s \in Seq(Marks), s # <<>>
  PROVE  /\ Head(s) \in Marks /\ Tail(s) \in Seq(Marks)
         /\ LinesIn(s) = ({Head(s)} \ {0}) \union LinesIn(Tail(s))
         /\ Ascends(s) <=> Ascends(Tail(s)) /\ (Head(s) # 0 => \A b \in LinesIn(Tail(s)) : Head(s) < b)
  <1> DEFINE x == Head(s)
             t == Tail(s)
  <1>1. /\ x \in Marks /\ t \in Seq(Marks) /\ Len(t) = Len(s) - 1
        /\ \A i \in 1 .. Len(t) : t[i] = s[i + 1]
    BY HeadTailProperties
  <1>2. x = s[1] /\ Len(s) \in Nat /\ Len(s) > 0
    BY EmptySeq
  <1> HIDE DEF x, t
  <1>3. <<x>> \in Seq(Marks) /\ Len(<<x>>) = 1 /\ <<x>>[1] = x
        /\ LinesIn(<<x>>) = {x} \ {0} /\ Ascends(<<x>>)
    BY <1>1, OneLine
  <1>4. /\ <<x>> \o t \in Seq(Marks) /\ Len(<<x>> \o t) = 1 + Len(t)
        /\ \A i \in 1 .. 1 + Len(t) : (<<x>> \o t)[i] = IF i <= 1 THEN <<x>>[i] ELSE t[i - 1]
    BY <1>1, <1>3, ConcatProperties
  <1>5. ASSUME NEW i \in 1 .. Len(s) PROVE (<<x>> \o t)[i] = s[i]
    <2>1. CASE i = 1
      BY <1>1, <1>2, <1>3, <1>4, <2>1
    <2>2. CASE i # 1
      <3>1. i - 1 \in 1 .. Len(t) /\ (i - 1) + 1 = i /\ i \in 1 .. 1 + Len(t) /\ ~(i <= 1)
        BY <1>1, <1>2, <2>2
      <3>2. (<<x>> \o t)[i] = t[i - 1]
        BY <1>4, <3>1
      <3>3. t[i - 1] = s[(i - 1) + 1]
        BY <1>1, <3>1
      <3> QED
        BY <3>1, <3>2, <3>3
    <2> QED
      BY <2>1, <2>2
  <1>6. Len(<<x>> \o t) = Len(s)
    BY <1>1, <1>2, <1>4
  <1>7. <<x>> \o t = s
    BY <1>4, <1>5, <1>6, SeqEqual
  <1>8. /\ LinesIn(<<x>> \o t) = LinesIn(<<x>>) \union LinesIn(t)
        /\ Ascends(<<x>> \o t) <=> Ascends(<<x>>) /\ Ascends(t) /\ Before(<<x>>, t)
    BY <1>1, <1>3, JoinLines
  <1> QED
    BY <1>1, <1>3, <1>7, <1>8 DEF Before, x, t

-----------------------------------------------------------------------------
(* The input: where the lines are. *)

(* Every line typed is in one of five places; behind one another, those of *)
(* the shell's ascend, and what is still in cons comes after all others.   *)
LineInv ==
  /\ LinesIn(typed) \subseteq 1 .. Len(typed) /\ Len(typed) <= MaxIn
  /\ LinesIn(typed) = LinesIn(input) \union LinesIn(dropped) \union LinesIn(<<line>>)
                        \union LinesIn(cons) \union LinesIn(stolen)
  /\ LinesIn(stolen) \intersect
       (LinesIn(input) \union LinesIn(dropped) \union LinesIn(<<line>>)) = {}
  /\ Ascends(input) /\ Ascends(dropped) /\ Ascends(cons) /\ Ascends(stolen)
  /\ Before(input, dropped) /\ Before(input, <<line>>) /\ Before(dropped, <<line>>)
  /\ Before(input, cons) /\ Before(dropped, cons) /\ Before(<<line>>, cons)
  /\ Before(stolen, cons)
  /\ ptm => dropped = <<>>
  /\ inPump = "writing" <=> line # 0

LEMMA PlacesTyped ==
  ASSUME TypeOK
  PROVE  /\ typed \in Seq(Marks) /\ cons \in Seq(Marks) /\ line \in Marks
         /\ input \in Seq(Marks) /\ stolen \in Seq(Marks) /\ dropped \in Seq(Marks)
         /\ LinesIn(<<line>>) = {line} \ {0}
         /\ LinesIn(cons) \subseteq Lines /\ Lines \subseteq Nat
  <1>1. typed \in Seq(Marks) /\ cons \in Seq(Marks) /\ line \in Marks
    BY DEF TypeOK, Marks
  <1>2. Lines \subseteq Marks
    BY DEF Marks
  <1>3. input \in Seq(Lines) /\ stolen \in Seq(Lines) /\ dropped \in Seq(Lines)
    BY DEF TypeOK
  <1>4. input \in Seq(Marks) /\ stolen \in Seq(Marks) /\ dropped \in Seq(Marks)
    BY <1>2, <1>3, SeqMonotonic
  <1> QED
    BY <1>1, <1>4, OneLine, LinesAre, MarksAre

LEMMA LinesAreOnce ==
  ASSUME TypeOK, LineInv
  PROVE  NoLineLost
  <1>1. /\ cons \in Seq(Marks) /\ <<line>> \in Seq(Marks)
        /\ input \in Seq(Marks) /\ dropped \in Seq(Marks)
    BY PlacesTyped, OneLine
  <1>2. Ascends(<<line>>)
    BY PlacesTyped, OneLine
  <1> DEFINE s == input \o dropped
             t == s \o <<line>>
             u == t \o cons
  <1>3. /\ s \in Seq(Marks) /\ LinesIn(s) = LinesIn(input) \union LinesIn(dropped)
        /\ Ascends(s)
    BY <1>1, JoinLines DEF LineInv
  <1> HIDE DEF s
  <1>4. /\ t \in Seq(Marks) /\ LinesIn(t) = LinesIn(s) \union LinesIn(<<line>>)
        /\ Ascends(t)
    <2>1. Before(s, <<line>>)
      BY <1>3 DEF Before, LineInv
    <2> QED
      BY <1>1, <1>2, <1>3, <2>1, JoinLines
  <1> HIDE DEF t
  <1>5. LinesIn(u) = LinesIn(t) \union LinesIn(cons) /\ Ascends(u)
    <2>1. Before(t, cons)
      BY <1>3, <1>4 DEF Before, LineInv
    <2> QED
      BY <1>1, <1>4, <2>1, JoinLines DEF LineInv
  <1> HIDE DEF u
  <1>6. ForShell = u
    BY DEF ForShell, s, t, u
  <1>7. ASSUME NEW a \in LinesIn(stolen) PROVE a \notin LinesIn(cons)
    <2>1. LinesIn(cons) \subseteq Nat
      BY PlacesTyped
    <2> QED
      BY <2>1 DEF LineInv, Before
  <1>8. LinesIn(u) = LinesIn(input) \union LinesIn(dropped) \union LinesIn(<<line>>)
                       \union LinesIn(cons)
    BY <1>3, <1>4, <1>5
  <1>9. LinesIn(typed) = LinesIn(u) \union LinesIn(stolen)
    BY <1>8 DEF LineInv
  <1>10. LinesIn(u) \intersect LinesIn(stolen) = {}
    BY <1>7, <1>8 DEF LineInv
  <1> QED
    BY <1>5, <1>6, <1>9, <1>10 DEF NoLineLost, LineInv

(* The types of the input's variables, and of what else they turn on. *)
InTypeOK ==
  /\ ptm \in BOOLEAN
  /\ typed \in Seq({0} \union Lines) /\ cons \in Seq({0} \union Lines)
  /\ inPump \in {"asking", "writing", "gone"}
  /\ line \in {0} \union Lines
  /\ input \in Seq(Lines) /\ stolen \in Seq(Lines) /\ dropped \in Seq(Lines)

LEMMA LineTypes ==
  ASSUME TypeOK, LineInv, [Next]_vars
  PROVE  InTypeOK'
  <1> USE DEF TypeOK, InTypeOK
  <1>1. CASE Types
    <2>1. PICK l \in {0, Len(typed) + 1} : typed' = Append(typed, l) /\ cons' = Append(cons, l)
      BY <1>1 DEF Types
    <2>2. Len(typed) \in Nat /\ Len(typed) < MaxIn
      BY <1>1 DEF Types
    <2>3. l \in {0} \union Lines
      BY <2>2, ConsoleBounds DEF Lines
    <2>4. typed' \in Seq({0} \union Lines) /\ cons' \in Seq({0} \union Lines)
      BY <2>1, <2>3, AppendProperties
    <2> QED
      BY <1>1, <2>4 DEF Types, shellVars
  <1>2. CASE InReads
    <2>1. Head(cons) \in {0} \union Lines /\ Tail(cons) \in Seq({0} \union Lines)
      BY <1>2, HeadTailProperties DEF InReads
    <2> QED
      BY <1>2, <2>1 DEF InReads, shellVars
  <1>3. CASE InWrites
    <2>1. line \in Lines
      BY <1>3 DEF InWrites, LineInv
    <2>2. Append(input, line) \in Seq(Lines) /\ Append(dropped, line) \in Seq(Lines)
      BY <2>1, AppendProperties
    <2> QED
      BY <1>3, <2>2 DEF InWrites, shellVars
  <1>4. CASE ProxyRead
    <2>1. Head(cons) \in {0} \union Lines /\ Tail(cons) \in Seq({0} \union Lines)
      BY <1>4, HeadTailProperties DEF ProxyRead
    <2>2. stolen' \in Seq(Lines)
      <3>1. CASE Head(cons) = 0
        BY <1>4, <3>1 DEF ProxyRead
      <3>2. CASE Head(cons) # 0
        BY <1>4, <2>1, <3>2, AppendProperties DEF ProxyRead
      <3> QED
        BY <3>1, <3>2
    <2> QED
      BY <1>4, <2>1, <2>2 DEF ProxyRead, shellVars
  <1>5. CASE CloseMaster
    BY <1>5 DEF CloseMaster, inVars
  <1>6. CASE UNCHANGED <<ptm, inVars>>
    BY <1>6 DEF inVars
  <1> QED
    BY <1>1, <1>2, <1>3, <1>4, <1>5, <1>6
    DEF Next, OutPump, InPump, Writes, ShellExits, BackgroundExits, CloseSlave,
        OutCallsRead, OutReads, OutFails, OutWrites, vars, shellVars

LEMMA LineNext ==
  ASSUME TypeOK, LineInv, InTypeOK', [Next]_vars
  PROVE  LineInv'
  <1>1. /\ typed \in Seq(Marks) /\ cons \in Seq(Marks) /\ line \in Marks
        /\ input \in Seq(Marks) /\ stolen \in Seq(Marks) /\ dropped \in Seq(Marks)
        /\ LinesIn(<<line>>) = {line} \ {0}
        /\ LinesIn(cons) \subseteq Lines /\ Lines \subseteq Nat
    BY PlacesTyped
  <1>2. LinesIn(<<line>>)' = {line'} \ {0}
    <2>1. line' \in Marks
      BY DEF InTypeOK, Marks
    <2> QED
      BY <2>1, OneLine
  <1>3. CASE Types
    <2>1. PICK l \in {0, Len(typed) + 1} : typed' = Append(typed, l) /\ cons' = Append(cons, l)
      BY <1>3 DEF Types
    <2>2. Len(typed) \in Nat /\ Len(typed) < MaxIn /\ Len(typed') = Len(typed) + 1
      <3>1. Len(Append(typed, l)) = Len(typed) + 1
        BY <1>1
      <3> QED
        BY <1>1, <1>3, <2>1, <3>1 DEF Types
    <2>3. l \in Marks
      BY <2>2, ConsoleBounds DEF Lines, Marks
    <2>4. /\ LinesIn(typed') = LinesIn(typed) \union ({l} \ {0})
          /\ LinesIn(cons') = LinesIn(cons) \union ({l} \ {0})
          /\ Ascends(cons') <=> Ascends(cons) /\ (l # 0 => \A a \in LinesIn(cons) : a < l)
      BY <1>1, <2>1, <2>3, AppendLine
    <2>5. ASSUME NEW a \in LinesIn(typed), l # 0 PROVE a < l
      <3>1. a \in 1 .. Len(typed) /\ l = Len(typed) + 1
        BY <2>5 DEF LineInv
      <3> QED
        BY <2>2, <3>1
    <2>6. /\ UNCHANGED <<ptm, inPump, line, input, stolen, dropped>>
      BY <1>3 DEF Types, shellVars
    <2>7. LinesIn(typed') \subseteq 1 .. Len(typed') /\ Len(typed') <= MaxIn
      <3>1. \A a \in LinesIn(typed) : a \in 1 .. Len(typed) + 1
        BY <2>2 DEF LineInv
      <3>2. l # 0 => l \in 1 .. Len(typed) + 1
        BY <2>2
      <3> QED
        BY <2>2, <2>4, <3>1, <3>2, ConsoleBounds
    <2>8. LinesIn(typed') = LinesIn(input) \union LinesIn(dropped) \union LinesIn(<<line>>)
                               \union LinesIn(cons') \union LinesIn(stolen)
      BY <2>4 DEF LineInv
    <2>9. Ascends(cons')
      BY <2>4, <2>5 DEF LineInv
    <2>10. /\ Before(input, cons') /\ Before(dropped, cons') /\ Before(<<line>>, cons')
           /\ Before(stolen, cons')
      BY <2>4, <2>5 DEF Before, LineInv
    <2> QED
      BY <2>6, <2>7, <2>8, <2>9, <2>10 DEF LineInv
  <1>4. CASE InReads
    <2> DEFINE x == Head(cons)
    <2>1. /\ x \in Marks /\ LinesIn(cons) = ({x} \ {0}) \union LinesIn(cons')
          /\ Ascends(cons) <=> Ascends(cons') /\ (x # 0 => \A b \in LinesIn(cons') : x < b)
      BY <1>1, <1>4, HeadLine DEF InReads
    <2>2. /\ line = 0 /\ line' = x
          /\ inPump' = IF x = 0 THEN "gone" ELSE "writing"
          /\ UNCHANGED <<ptm, typed, input, stolen, dropped>>
      BY <1>4 DEF InReads, LineInv, shellVars
    <2> HIDE DEF x
    <2>3. LinesIn(typed) = LinesIn(input) \union LinesIn(dropped) \union LinesIn(<<line'>>)
                              \union LinesIn(cons') \union LinesIn(stolen)
      BY <1>1, <1>2, <2>1, <2>2 DEF LineInv
    <2>4. LinesIn(stolen) \intersect LinesIn(<<line'>>) = {}
      <3>1. ASSUME NEW a \in LinesIn(stolen) PROVE a \notin LinesIn(cons)
        BY <1>1 DEF LineInv, Before
      <3> QED
        BY <1>2, <2>1, <2>2, <3>1
    <2>5. Ascends(cons')
      BY <2>1 DEF LineInv
    <2>6. /\ Before(input, cons') /\ Before(dropped, cons') /\ Before(stolen, cons')
      BY <2>1 DEF Before, LineInv
    <2>7. Before(input, <<line'>>) /\ Before(dropped, <<line'>>) /\ Before(<<line'>>, cons')
      BY <1>2, <2>1, <2>2 DEF Before, LineInv
    <2>8. inPump' = "writing" <=> line' # 0
      BY <2>2
    <2>9. LinesIn(stolen) \intersect
            (LinesIn(input) \union LinesIn(dropped) \union LinesIn(<<line'>>)) = {}
      BY <2>4 DEF LineInv
    <2> QED
      BY <2>2, <2>3, <2>5, <2>6, <2>7, <2>8, <2>9 DEF LineInv
  <1>5. CASE InWrites
    <2>1. /\ line # 0 /\ line' = 0 /\ inPump' = "asking"
          /\ input' = (IF ptm THEN Append(input, line) ELSE input)
          /\ dropped' = (IF ptm THEN dropped ELSE Append(dropped, line))
          /\ UNCHANGED <<ptm, typed, cons, stolen>>
      BY <1>5 DEF InWrites, LineInv, shellVars
    <2>2. LinesIn(<<line>>) = {line} /\ LinesIn(<<line'>>) = {}
      BY <1>1, <1>2, <2>1
    <2>3. CASE ptm
      <3>1. /\ LinesIn(input') = LinesIn(input) \union {line} /\ dropped' = dropped
            /\ Ascends(input') <=> Ascends(input) /\ \A a \in LinesIn(input) : a < line
        BY <1>1, <2>1, <2>3, AppendLine
      <3>2. dropped = <<>> /\ LinesIn(dropped) = {}
        BY <1>1, <2>3, LinesAre DEF LineInv
      <3>3. Ascends(input')
        BY <2>2, <3>1 DEF LineInv, Before
      <3>4. LinesIn(typed) = LinesIn(input') \union LinesIn(dropped') \union LinesIn(<<line'>>)
                                \union LinesIn(cons) \union LinesIn(stolen)
        BY <2>2, <3>1 DEF LineInv
      <3>5. LinesIn(stolen) \intersect
              (LinesIn(input') \union LinesIn(dropped') \union LinesIn(<<line'>>)) = {}
        BY <2>2, <3>1 DEF LineInv
      <3>6. /\ Before(input', dropped') /\ Before(input', <<line'>>) /\ Before(dropped', <<line'>>)
            /\ Before(input', cons) /\ Before(dropped', cons) /\ Before(<<line'>>, cons)
        BY <2>2, <3>1, <3>2 DEF LineInv, Before
      <3> QED
        BY <2>1, <3>1, <3>2, <3>3, <3>4, <3>5, <3>6 DEF LineInv
    <2>4. CASE ~ptm
      <3>1. /\ LinesIn(dropped') = LinesIn(dropped) \union {line} /\ input' = input
            /\ Ascends(dropped') <=> Ascends(dropped) /\ \A a \in LinesIn(dropped) : a < line
        BY <1>1, <2>1, <2>4, AppendLine
      <3>3. Ascends(dropped')
        BY <2>2, <3>1 DEF LineInv, Before
      <3>4. LinesIn(typed) = LinesIn(input') \union LinesIn(dropped') \union LinesIn(<<line'>>)
                                \union LinesIn(cons) \union LinesIn(stolen)
        BY <2>2, <3>1 DEF LineInv
      <3>5. LinesIn(stolen) \intersect
              (LinesIn(input') \union LinesIn(dropped') \union LinesIn(<<line'>>)) = {}
        BY <2>2, <3>1 DEF LineInv
      <3>6. /\ Before(input', dropped') /\ Before(input', <<line'>>) /\ Before(dropped', <<line'>>)
            /\ Before(input', cons) /\ Before(dropped', cons) /\ Before(<<line'>>, cons)
        BY <2>2, <3>1 DEF LineInv, Before
      <3> QED
        BY <2>1, <2>4, <3>1, <3>3, <3>4, <3>5, <3>6 DEF LineInv
    <2> QED
      BY <2>3, <2>4
  <1>6. CASE ProxyRead
    <2> DEFINE x == Head(cons)
    <2>1. /\ x \in Marks /\ LinesIn(cons) = ({x} \ {0}) \union LinesIn(cons')
          /\ Ascends(cons) <=> Ascends(cons') /\ (x # 0 => \A b \in LinesIn(cons') : x < b)
      BY <1>1, <1>6, HeadLine DEF ProxyRead
    <2>2. /\ stolen' = (IF x = 0 THEN stolen ELSE Append(stolen, x))
          /\ UNCHANGED <<ptm, typed, inPump, line, input, dropped>>
      BY <1>6 DEF ProxyRead, shellVars
    <2> HIDE DEF x
    <2>3. /\ LinesIn(stolen') = LinesIn(stolen) \union ({x} \ {0})
          /\ x # 0 => (Ascends(stolen') <=> Ascends(stolen) /\ \A a \in LinesIn(stolen) : a < x)
      <3>1. CASE x = 0
        BY <2>2, <3>1
      <3>2. CASE x # 0
        BY <1>1, <2>1, <2>2, <3>2, AppendLine
      <3> QED
        BY <3>1, <3>2
    <2>4. Ascends(cons')
      BY <2>1 DEF LineInv
    <2>5. Ascends(stolen')
      <3>1. CASE x = 0
        BY <2>2, <3>1 DEF LineInv
      <3>2. CASE x # 0
        BY <2>1, <2>3, <3>2 DEF LineInv, Before
      <3> QED
        BY <3>1, <3>2
    <2>6. LinesIn(typed) = LinesIn(input) \union LinesIn(dropped) \union LinesIn(<<line>>)
                              \union LinesIn(cons') \union LinesIn(stolen')
      BY <2>1, <2>3 DEF LineInv
    <2>7. ASSUME x # 0
          PROVE  x \notin LinesIn(input) \union LinesIn(dropped) \union LinesIn(<<line>>)
      <3>1. x \in LinesIn(cons) /\ x \in Nat
        BY <1>1, <2>1, <2>7
      <3> QED
        BY <3>1 DEF LineInv, Before
    <2>8. LinesIn(stolen') \intersect
            (LinesIn(input) \union LinesIn(dropped) \union LinesIn(<<line>>)) = {}
      BY <2>3, <2>7 DEF LineInv
    <2>9. /\ Before(input, cons') /\ Before(dropped, cons') /\ Before(<<line>>, cons')
          /\ Before(stolen', cons')
      BY <2>1, <2>3 DEF LineInv, Before
    <2> QED
      BY <2>2, <2>4, <2>5, <2>6, <2>8, <2>9 DEF LineInv
  <1>7. CASE UNCHANGED inVars /\ (ptm' => ptm)
    <2>1. UNCHANGED <<typed, cons, inPump, line, input, stolen, dropped>>
      BY <1>7 DEF inVars
    <2> QED
      BY <1>7, <2>1 DEF LineInv, Before
  <1>8. CASE CloseMaster
    BY <1>7, <1>8 DEF CloseMaster
  <1>9. CASE UNCHANGED <<ptm, inVars>>
    BY <1>7, <1>9
  <1> QED
    BY <1>3, <1>4, <1>5, <1>6, <1>8, <1>9
    DEF Next, OutPump, InPump, Writes, ShellExits, BackgroundExits, CloseSlave,
        OutCallsRead, OutReads, OutFails, OutWrites, vars, shellVars

-----------------------------------------------------------------------------
(* The output: what was read, then what the pty holds, then what was lost  *)
(* with it.                                                                *)

OutInv ==
  /\ Len(wrote) <= MaxOut
  /\ \E lost \in Seq(Alphabet) :
       wrote = (taken \o pty) \o lost /\ (MasterLives => lost = <<>>)

OutTypeOK ==
  /\ shell \in {"running", "exited"}
  /\ background \in BOOLEAN /\ slave \in BOOLEAN /\ ptm \in BOOLEAN
  /\ wrote \in Seq(Alphabet) /\ taken \in Seq(Alphabet)
  /\ pty \in Seq(Alphabet) /\ Len(pty) <= PtyCap
  /\ outPump \in {"loop", "reading", "writing", "gone"}

LEMMA SeqAlgebra ==
  ASSUME NEW S
  PROVE  /\ \A s, t \in Seq(S) : s \o t \in Seq(S) /\ Len(s \o t) = Len(s) + Len(t)
         /\ \A s \in Seq(S) : s \o <<>> = s /\ <<>> \o s = s
         /\ \A s, t, u \in Seq(S) : (s \o t) \o u = s \o (t \o u)
         /\ \A s \in Seq(S), x \in S : Append(s, x) = s \o <<x>> /\ <<x>> \in Seq(S)
         /\ <<>> \in Seq(S)
         /\ \A s \in Seq(S) : Len(s) \in Nat
  <1>1. \A s, t \in Seq(S) : s \o t \in Seq(S) /\ Len(s \o t) = Len(s) + Len(t)
    BY ConcatProperties
  <1>2. \A s \in Seq(S) : s \o <<>> = s /\ <<>> \o s = s
    BY ConcatEmptySeq
  <1>3. \A s, t, u \in Seq(S) : (s \o t) \o u = s \o (t \o u)
    BY ConcatAssociative
  <1>4. \A s \in Seq(S), x \in S : Append(s, x) = s \o <<x>> /\ <<x>> \in Seq(S)
    BY AppendIsConcat
  <1> QED
    BY <1>1, <1>2, <1>3, <1>4, EmptySeq, LenProperties

(* A sequence cut in two. *)
LEMMA CutInTwo ==
  ASSUME NEW S, NEW s \in Seq(S), NEW n \in 0 .. Len(s)
  PROVE  /\ SubSeq(s, 1, n) \in Seq(S) /\ SubSeq(s, n + 1, Len(s)) \in Seq(S)
         /\ Len(SubSeq(s, 1, n)) = n /\ Len(SubSeq(s, n + 1, Len(s))) = Len(s) - n
         /\ SubSeq(s, 1, n) \o SubSeq(s, n + 1, Len(s)) = s
  <1>1. Len(s) \in Nat /\ n \in Nat /\ n <= Len(s)
    OBVIOUS
  <1>2. SubSeq(s, 1, n) \in Seq(S) /\ Len(SubSeq(s, 1, n)) = n
    BY <1>1, SubSeqProperties
  <1>3. SubSeq(s, n + 1, Len(s)) \in Seq(S) /\ Len(SubSeq(s, n + 1, Len(s))) = Len(s) - n
    BY <1>1, SubSeqProperties
  <1>4. SubSeq(s, 1, n) \o SubSeq(s, n + 1, Len(s)) = SubSeq(s, 1, Len(s))
    <2>1. 1 \in 1 .. Len(s) + 1 /\ n \in 1 - 1 .. Len(s) /\ Len(s) \in n .. Len(s)
      BY <1>1
    <2> QED
      BY <2>1, ConcatAdjacentSubSeq
  <1>5. SubSeq(s, 1, Len(s)) = s
    BY SubSeqFull
  <1> QED
    BY <1>2, <1>3, <1>4, <1>5

LEMMA OutSame ==
  ASSUME OutInv, UNCHANGED <<wrote, pty, taken>>, MasterLives' => MasterLives
  PROVE  OutInv'
  BY DEF OutInv

LEMMA OutWritten ==
  ASSUME OutTypeOK, OutInv, NEW ch \in Alphabet, Writes(ch)
  PROVE  OutTypeOK' /\ OutInv'
  <1>1. wrote' = Append(wrote, ch) /\ pty' = Append(pty, ch) /\ taken' = taken
    BY DEF Writes
  <1>2. wrote = taken \o pty
    BY SeqAlgebra DEF OutInv, OutTypeOK, Writes
  <1>3. /\ wrote' \in Seq(Alphabet) /\ Len(wrote') = Len(wrote) + 1
        /\ pty' \in Seq(Alphabet) /\ Len(pty') = Len(pty) + 1
    BY <1>1, AppendProperties DEF OutTypeOK
  <1>4. wrote' = taken' \o pty'
    <2>1. Append(wrote, ch) = (taken \o pty) \o <<ch>>
      BY <1>2, SeqAlgebra DEF OutTypeOK
    <2>2. Append(pty, ch) = pty \o <<ch>> /\ <<ch>> \in Seq(Alphabet)
      BY SeqAlgebra DEF OutTypeOK
    <2>3. (taken \o pty) \o <<ch>> = taken \o (pty \o <<ch>>)
      BY <2>2, SeqAlgebra DEF OutTypeOK
    <2> QED
      BY <1>1, <2>1, <2>2, <2>3
  <1>5. Len(wrote) \in Nat /\ Len(wrote) < MaxOut /\ Len(pty) \in Nat /\ Len(pty) < PtyCap
    BY SeqAlgebra DEF OutTypeOK, Writes
  <1>6. Len(wrote') <= MaxOut /\ Len(pty') <= PtyCap
    BY <1>3, <1>5, ConsoleBounds
  <1>7. wrote' = (taken' \o pty') \o <<>> /\ <<>> \in Seq(Alphabet)
    BY <1>3, <1>4, SeqAlgebra
  <1>8. OutInv'
    BY <1>6, <1>7 DEF OutInv
  <1> QED
    BY <1>3, <1>6, <1>8 DEF OutTypeOK, Writes, shellVars

LEMMA OutClosed ==
  ASSUME OutTypeOK, OutInv, CloseMaster
  PROVE  OutTypeOK' /\ OutInv'
  <1>1. UNCHANGED <<shell, background, slave, wrote, taken, outPump>> /\ ptm' = FALSE
    BY DEF CloseMaster
  <1>2. CASE outPump = "reading"
    <2>1. pty' = pty
      BY <1>2 DEF CloseMaster
    <2> QED
      BY <1>1, <1>2, <2>1, OutSame DEF OutTypeOK, MasterLives
  <1>3. CASE outPump # "reading"
    <2>1. pty' = <<>> /\ pty' \in Seq(Alphabet) /\ Len(pty') = 0
      BY <1>3, SeqAlgebra DEF CloseMaster
    <2>2. PICK lost \in Seq(Alphabet) : wrote = (taken \o pty) \o lost
      BY DEF OutInv
    <2>3. wrote = (taken \o <<>>) \o (pty \o lost) /\ pty \o lost \in Seq(Alphabet)
      BY <2>2, SeqAlgebra DEF OutTypeOK
    <2>4. OutInv'
      BY <1>1, <1>3, <2>1, <2>3 DEF OutInv, MasterLives
    <2>5. Len(pty') <= PtyCap
      BY <2>1, ConsoleBounds
    <2>6. OutTypeOK'
      BY <1>1, <2>1, <2>5 DEF OutTypeOK
    <2> QED
      BY <2>4, <2>6
  <1> QED
    BY <1>2, <1>3

LEMMA OutRead ==
  ASSUME OutTypeOK, OutInv, OutReads
  PROVE  OutTypeOK' /\ OutInv'
  <1>1. PICK n \in 1 .. Len(pty) :
          /\ taken' = taken \o SubSeq(pty, 1, n)
          /\ pty' = IF ptm THEN SubSeq(pty, n + 1, Len(pty)) ELSE <<>>
    BY DEF OutReads
  <1>2. /\ UNCHANGED <<shell, background, slave, ptm, wrote>>
        /\ outPump = "reading" /\ outPump' = "writing"
    BY DEF OutReads, shellVars
  <1>3. wrote = taken \o pty
    BY <1>2, SeqAlgebra DEF OutInv, OutTypeOK, MasterLives
  <1> DEFINE a == SubSeq(pty, 1, n)
             b == SubSeq(pty, n + 1, Len(pty))
  <1>4. a \in Seq(Alphabet) /\ b \in Seq(Alphabet) /\ Len(b) = Len(pty) - n /\ a \o b = pty
    <2>1. pty \in Seq(Alphabet) /\ n \in 0 .. Len(pty)
      BY DEF OutTypeOK
    <2> QED
      BY <2>1, CutInTwo
  <1>5. taken' = taken \o a /\ pty' = IF ptm THEN b ELSE <<>>
    BY <1>1
  <1> HIDE DEF a, b
  <1>6. taken' \in Seq(Alphabet) /\ wrote = taken' \o b
    <2>1. taken \in Seq(Alphabet)
      BY DEF OutTypeOK
    <2>2. taken \o a \in Seq(Alphabet)
      BY <1>4, <2>1, SeqAlgebra
    <2>3. (taken \o a) \o b = taken \o (a \o b)
      <3>1. \A r, s, t \in Seq(Alphabet) : (r \o s) \o t = r \o (s \o t)
        BY ConcatAssociative
      <3>2. a \in Seq(Alphabet) /\ b \in Seq(Alphabet)
        BY <1>4
      <3> QED
        BY <2>1, <3>1, <3>2
    <2> QED
      BY <1>3, <1>4, <1>5, <2>2, <2>3
  <1>7. pty' \in Seq(Alphabet) /\ Len(pty') <= PtyCap
    <2>1. Len(b) <= PtyCap
      BY <1>4, ConsoleBounds DEF OutTypeOK
    <2> QED
      BY <1>4, <1>5, <2>1, SeqAlgebra, ConsoleBounds
  <1>8. OutInv'
    <2>1. CASE ptm
      <3>1. wrote' = (taken' \o pty') \o <<>> /\ <<>> \in Seq(Alphabet)
        <4>1. pty' = b /\ wrote' = taken' \o b
          BY <1>2, <1>5, <1>6, <2>1
        <4>2. taken' \o b \in Seq(Alphabet)
          BY <1>4, <1>6, SeqAlgebra
        <4>3. (taken' \o b) \o <<>> = taken' \o b /\ <<>> \in Seq(Alphabet)
          BY <4>2, SeqAlgebra
        <4> QED
          BY <4>1, <4>3
      <3> QED
        BY <1>2, <3>1 DEF OutInv
    <2>2. CASE ~ptm
      <3>1. wrote' = (taken' \o pty') \o b /\ ~MasterLives'
        BY <1>2, <1>5, <1>6, <2>2, SeqAlgebra DEF MasterLives
      <3> QED
        BY <1>2, <1>4, <3>1 DEF OutInv
    <2> QED
      BY <2>1, <2>2
  <1> QED
    BY <1>2, <1>6, <1>7, <1>8 DEF OutTypeOK

LEMMA OutNext ==
  ASSUME OutTypeOK, OutInv, [Next]_vars
  PROVE  OutTypeOK' /\ OutInv'
  <1>1. ASSUME NEW ch \in Alphabet, Writes(ch) PROVE OutTypeOK' /\ OutInv'
    BY <1>1, OutWritten
  <1>2. CASE CloseMaster
    BY <1>2, OutClosed
  <1>3. CASE OutReads
    BY <1>3, OutRead
  <1>4. CASE ShellExits \/ BackgroundExits \/ CloseSlave
    <2>1. UNCHANGED <<ptm, wrote, pty, taken, outPump>>
      BY <1>4 DEF ShellExits, BackgroundExits, CloseSlave, outVars
    <2>2. OutInv'
      BY <2>1, OutSame DEF MasterLives
    <2> QED
      BY <1>4, <2>1, <2>2 DEF OutTypeOK, ShellExits, BackgroundExits, CloseSlave
  <1>5. CASE OutCallsRead \/ OutFails \/ OutWrites
    <2>1. UNCHANGED <<shell, background, slave, ptm, wrote, pty, taken>>
      BY <1>5 DEF OutCallsRead, OutFails, OutWrites, shellVars
    <2>2. MasterLives' => MasterLives
      BY <1>5 DEF OutCallsRead, OutFails, OutWrites, MasterLives, shellVars
    <2>3. OutInv'
      BY <2>1, <2>2, OutSame
    <2>4. outPump' \in {"loop", "reading", "writing", "gone"}
      BY <1>5 DEF OutCallsRead, OutFails, OutWrites
    <2> QED
      BY <2>1, <2>3, <2>4 DEF OutTypeOK
  <1>6. CASE UNCHANGED <<shellVars, outVars>>
    <2>1. UNCHANGED <<shell, background, slave, ptm, wrote, pty, taken, outPump>>
      BY <1>6 DEF shellVars, outVars
    <2> QED
      BY <2>1, OutSame DEF OutTypeOK, MasterLives
  <1> QED
    BY <1>1, <1>2, <1>3, <1>4, <1>5, <1>6
    DEF Next, OutPump, InPump, Types, InReads, InWrites, ProxyRead, vars

LEMMA OutReadsInOrder ==
  ASSUME OutTypeOK, OutInv
  PROVE  ReadsInOrder
  <1>1. PICK lost \in Seq(Alphabet) :
          wrote = (taken \o pty) \o lost /\ (MasterLives => lost = <<>>)
    BY DEF OutInv
  <1>2. taken \in Seq(Alphabet) /\ pty \in Seq(Alphabet) /\ wrote \in Seq(Alphabet)
    BY DEF OutTypeOK
  <1>3. ASSUME NEW t \in Seq(Alphabet), wrote = taken \o t
        PROVE  taken = SubSeq(wrote, 1, Len(taken)) /\ t = SubSeq(wrote, Len(taken) + 1, Len(wrote))
    <2> DEFINE n == Len(taken)
               a == SubSeq(wrote, 1, n)
               b == SubSeq(wrote, n + 1, Len(wrote))
    <2>1. /\ n \in 0 .. Len(wrote) /\ Len(wrote) = n + Len(t) /\ n \in Nat /\ Len(t) \in Nat
          /\ \A i \in 1 .. n + Len(t) : wrote[i] = IF i <= n THEN taken[i] ELSE t[i - n]
      BY <1>2, <1>3, ConcatProperties
    <2>2. /\ a \in Seq(Alphabet) /\ Len(a) = n
          /\ \A i \in 1 .. n : a[i] = wrote[i]
      BY <1>2, <2>1, SubSeqProperties
    <2>3. a = taken
      <3>1. \A i \in 1 .. n : a[i] = taken[i]
        BY <2>1, <2>2
      <3> HIDE DEF a
      <3> QED
        BY <1>2, <2>2, <3>1, SeqEqual
    <2>4. a \o b = wrote /\ b \in Seq(Alphabet)
      BY <1>2, <2>1, CutInTwo
    <2>5. b = t
      <3> HIDE DEF a, b
      <3>1. taken \o b = taken \o t
        BY <1>3, <2>3, <2>4
      <3> QED
        BY <1>2, <1>3, <2>4, <3>1, ConcatSimplifications
    <2> QED
      BY <2>3, <2>5
  <1>4. wrote = taken \o (pty \o lost) /\ pty \o lost \in Seq(Alphabet)
    BY <1>1, <1>2, SeqAlgebra, SMTT(20)
  <1>5. taken = SubSeq(wrote, 1, Len(taken))
    BY <1>3, <1>4
  <1>6. ptm => pty \o lost = pty
    BY <1>1, <1>2, SeqAlgebra DEF MasterLives
  <1> QED
    BY <1>3, <1>4, <1>5, <1>6 DEF ReadsInOrder

-----------------------------------------------------------------------------
(* The filter.  What a recursive function computes is shown by induction,  *)
(* stated for a set of numbers: one without a least element is empty.      *)

LEMMA Induction ==
  ASSUME NEW S, 0 \in S, \A n \in Nat : n \in S => n + 1 \in S
  PROVE  Nat \subseteq S
  <1> DEFINE T == Nat \ S
  <1>1. SUFFICES ASSUME T # {} PROVE FALSE
    OBVIOUS
  <1>2. PICK x \in T : \A y \in T : ~(<<y, x>> \in OpToRel(<, Nat))
    <2>1. T \subseteq Nat
      OBVIOUS
    <2> HIDE DEF T
    <2> QED
      BY <1>1, <2>1, NatLessThanWellFounded, WFMin
  <1>3. \A y \in T : ~(y < x)
    BY <1>2 DEF OpToRel
  <1> QED
    BY <1>3

(* The sequences are of any characters. *)
LEMMA MatchIsAhead ==
  ASSUME NEW S, NEW s \in Seq(S), NEW i \in Nat, NEW j \in DOMAIN s, Match(s, i, j)
  PROVE  i < j /\ j <= Len(s) /\ s[i] = "esc" /\ i < Len(s) /\ s[i + 1] \in {"[", "]", "P"}
  BY DEF Match, Csi, Osc, Introducer, Escape

(* Where an escape sequence starts determines where it ends. *)
LEMMA MatchIsOne ==
  ASSUME NEW S, NEW s \in Seq(S), NEW i \in DOMAIN s, NEW j \in DOMAIN s, NEW k \in DOMAIN s,
         Match(s, i, j), Match(s, i, k)
  PROVE  j = k
  <1> SUFFICES ASSUME NEW a \in DOMAIN s, NEW b \in DOMAIN s,
                      Match(s, i, a), Match(s, i, b), a < b
               PROVE  FALSE
    <2>1. j \in Nat /\ k \in Nat
      OBVIOUS
    <2> QED
      BY <2>1
  <1>1. CASE s[i + 1] = "["
    <2>1. Csi(s, i, a) /\ Csi(s, i, b)
      BY <1>1 DEF Match, Osc, Introducer
    <2>2. a \in i + 2 .. b - 1 /\ s[a] \in {"m", "P"}
      BY <2>1 DEF Csi
    <2> QED
      BY <2>1, <2>2 DEF Csi
  <1>2. CASE s[i + 1] = "]"
    <2>1. Osc(s, i, a) /\ Osc(s, i, b)
      BY <1>2 DEF Match, Csi, Introducer
    <2>2. a \in i + 2 .. b - 1 /\ s[i + 1] # "esc"
      BY <1>2, <2>1 DEF Osc
    <2>3. CASE s[b] = "bel" /\ \A n \in i + 2 .. b - 1 : s[n] \notin {"esc", "bel"}
      <3>1. s[a] = "\\" /\ s[a - 1] = "esc"
        BY <2>1, <2>2, <2>3 DEF Osc
      <3>2. a - 1 \in i + 2 .. b - 1
        BY <2>2, <3>1
      <3> QED
        BY <2>3, <3>1, <3>2
    <2>4. CASE /\ s[b] = "\\" /\ s[b - 1] = "esc"
               /\ \A n \in i + 2 .. b - 2 : s[n] \notin {"esc", "bel"}
      <3>1. CASE s[a] = "bel"
        <4>1. a # b - 1
          BY <2>4, <3>1
        <4>2. a \in i + 2 .. b - 2
          BY <2>2, <4>1
        <4> QED
          BY <2>4, <3>1, <4>2
      <3>2. CASE s[a] = "\\" /\ s[a - 1] = "esc"
        <4>1. a - 1 \in i + 2 .. b - 2
          BY <2>2, <3>2
        <4> QED
          BY <2>4, <3>2, <4>1
      <3> QED
        BY <2>1, <3>1, <3>2 DEF Osc
    <2> QED
      BY <2>1, <2>3, <2>4 DEF Osc
  <1>3. CASE s[i + 1] = "P"
    BY <1>3 DEF Match, Csi, Osc, Introducer
  <1> QED
    BY <1>1, <1>2, <1>3, MatchIsAhead

(* No escape sequence starts within another. *)
LEMMA MatchesAreApart ==
  ASSUME NEW S, NEW s \in Seq(S), NEW i \in DOMAIN s, NEW j \in DOMAIN s,
         NEW k \in DOMAIN s, NEW l \in DOMAIN s,
         Match(s, i, j), Match(s, k, l), i < k
  PROVE  j < k
  <1> SUFFICES ASSUME k <= j PROVE FALSE
    OBVIOUS
  <1>1. /\ s[k] = "esc" /\ k < Len(s) /\ s[k + 1] \in {"[", "]", "P"}
        /\ k # i + 1 /\ k \in i + 2 .. j
    BY MatchIsAhead
  <1>2. CASE Csi(s, i, j)
    <2>1. s[j] # "esc"
      BY <1>2 DEF Csi
    <2>2. k \in i + 2 .. j - 1
      BY <1>1, <2>1
    <2> QED
      BY <1>1, <1>2, <2>2 DEF Csi
  <1>3. CASE Osc(s, i, j)
    <2>1. s[j] # "esc"
      BY <1>3 DEF Osc
    <2>2. k \in i + 2 .. j - 1
      BY <1>1, <2>1
    <2>3. k = j - 1 /\ s[j] = "\\"
      BY <1>1, <1>3, <2>2 DEF Osc
    <2> QED
      BY <1>1, <2>3
  <1>4. CASE Introducer(s, i, j)
    BY <1>1, <1>4 DEF Introducer
  <1> QED
    BY <1>2, <1>3, <1>4 DEF Match

LEMMA Shifted ==
  ASSUME NEW d \in Int, NEW i \in Int, NEW j \in Int, NEW n \in {1, 2},
         NEW k \in (i + d) + 2 .. (j + d) - n
  PROVE  k - d \in i + 2 .. j - n /\ k \in i + d .. j + d
  OBVIOUS

(* An escape sequence is one wherever it stands. *)
LEMMA MatchMoves ==
  ASSUME NEW S, NEW s \in Seq(S), NEW t \in Seq(S), NEW d \in Int,
         NEW i \in DOMAIN s, NEW j \in DOMAIN s, i + d \in DOMAIN t, j + d \in DOMAIN t,
         \A k \in i .. j : s[k] = t[k + d],
         Match(s, i, j)
  PROVE  Match(t, i + d, j + d)
  <1>1. i < j /\ j <= Len(s) /\ i \in Nat /\ j \in Nat /\ i + d < Len(t)
    BY MatchIsAhead
  <1>2. s[i] = t[i + d] /\ s[i + 1] = t[(i + d) + 1] /\ s[j] = t[j + d] /\ s[j - 1] = t[(j + d) - 1]
    <2>1. i \in i .. j /\ i + 1 \in i .. j /\ j \in i .. j /\ j - 1 \in i .. j
      BY <1>1
    <2>2. (i + 1) + d = (i + d) + 1 /\ (j - 1) + d = (j + d) - 1
      BY <1>1
    <2>3. s[i + 1] = t[(i + 1) + d] /\ s[j - 1] = t[(j - 1) + d]
      BY <2>1
    <2>4. s[i] = t[i + d] /\ s[j] = t[j + d]
      BY <2>1
    <2> QED
      BY <2>2, <2>3, <2>4
  <1>3. \A k \in i + d .. j + d : k - d \in i .. j /\ s[k - d] = t[k]
    <2> TAKE k \in i + d .. j + d
    <2>1. k - d \in i .. j /\ (k - d) + d = k
      BY <1>1
    <2> QED
      BY <2>1
  <1>8. i \in Int /\ j \in Int /\ 1 \in {1, 2} /\ 2 \in {1, 2}
    BY <1>1
  <1>4. Escape(t, i + d)
    BY <1>1, <1>2 DEF Match, Csi, Osc, Introducer, Escape
  <1>5. CASE Csi(s, i, j)
    <2>1. ASSUME NEW k \in (i + d) + 2 .. (j + d) - 1 PROVE t[k] = "0"
      <3>1. k - d \in i + 2 .. j - 1 /\ k \in i + d .. j + d
        BY <1>8, Shifted, Zenon
      <3> QED
        BY <1>3, <1>5, <3>1 DEF Csi
    <2>2. j + d \in (i + d) + 2 .. Len(t)
      BY <1>1, <1>5, SMTT(20) DEF Csi
    <2> QED
      BY <1>2, <1>4, <1>5, <2>1, <2>2 DEF Csi, Match
  <1>6. CASE Osc(s, i, j)
    <2>1. j + d \in (i + d) + 2 .. Len(t)
      BY <1>1, <1>6, SMTT(20) DEF Osc
    <2>2. CASE s[j] = "bel" /\ \A k \in i + 2 .. j - 1 : s[k] \notin {"esc", "bel"}
      <3>1. ASSUME NEW k \in (i + d) + 2 .. (j + d) - 1 PROVE t[k] \notin {"esc", "bel"}
        <4>1. k - d \in i + 2 .. j - 1 /\ k \in i + d .. j + d
          BY <1>8, Shifted, Zenon
        <4> QED
          BY <1>3, <2>2, <4>1
      <3> QED
        BY <1>2, <1>4, <1>6, <2>1, <2>2, <3>1 DEF Osc, Match
    <2>3. CASE /\ s[j] = "\\" /\ s[j - 1] = "esc"
               /\ \A k \in i + 2 .. j - 2 : s[k] \notin {"esc", "bel"}
      <3>1. ASSUME NEW k \in (i + d) + 2 .. (j + d) - 2 PROVE t[k] \notin {"esc", "bel"}
        <4>1. k - d \in i + 2 .. j - 2 /\ k \in i + d .. j + d
          BY <1>8, Shifted, Zenon
        <4> QED
          BY <1>3, <2>3, <4>1
      <3> QED
        BY <1>2, <1>4, <1>6, <2>1, <2>3, <3>1 DEF Osc, Match
    <2> QED
      BY <1>6, <2>2, <2>3 DEF Osc
  <1>7. CASE Introducer(s, i, j)
    BY <1>1, <1>2, <1>4, <1>7 DEF Introducer, Match
  <1> QED
    BY <1>5, <1>6, <1>7 DEF Match

(* The recursions of Strip and Text have a solution. *)

FromBody(f, s, i) ==
  IF i > Len(s) THEN <<>>
  ELSE IF \E j \in DOMAIN s : Match(s, i, j)
    THEN f[(CHOOSE j \in DOMAIN s : Match(s, i, j)) + 1]
    ELSE <<s[i]>> \o f[i + 1]

IsFrom(f, s) == f = [i \in 1 .. Len(s) + 1 |-> FromBody(f, s, i)]

UpToBody(f, s, n) ==
  IF n = 0 THEN <<>>
  ELSE IF InEscape(s, n) THEN f[n - 1] ELSE Append(f[n - 1], s[n])

IsUpTo(f, s) == f = [n \in 0 .. Len(s) |-> UpToBody(f, s, n)]

(* A step from the left depends on what is further right. *)
LEMMA FromDepends ==
  ASSUME NEW S, NEW s \in Seq(S), NEW i \in 1 .. Len(s) + 1, NEW f, NEW g,
         \A k \in i + 1 .. Len(s) + 1 : f[k] = g[k]
  PROVE  FromBody(f, s, i) = FromBody(g, s, i)
  <1>1. CASE i > Len(s)
    BY <1>1 DEF FromBody
  <1>2. CASE i <= Len(s) /\ \E j \in DOMAIN s : Match(s, i, j)
    <2> DEFINE j == CHOOSE k \in DOMAIN s : Match(s, i, k)
    <2>1. j \in DOMAIN s /\ Match(s, i, j)
      BY <1>2
    <2> HIDE DEF j
    <2>2. j + 1 \in i + 1 .. Len(s) + 1
      BY <2>1, MatchIsAhead
    <2>3. f[j + 1] = g[j + 1]
      BY <2>2
    <2> QED
      BY <1>2, <2>3 DEF FromBody, j
  <1>3. CASE i <= Len(s) /\ ~\E j \in DOMAIN s : Match(s, i, j)
    <2>1. f[i + 1] = g[i + 1]
      BY <1>3
    <2> QED
      BY <1>3, <2>1 DEF FromBody
  <1> QED
    BY <1>1, <1>2, <1>3

LEMMA FromExists ==
  ASSUME NEW S, NEW s \in Seq(S)
  PROVE  \E f : IsFrom(f, s)
  <1> DEFINE L == Len(s)
             Good(f, n) == \A i \in L + 1 - n .. L + 1 : f[i] = FromBody(f, s, i)
             T == {n \in Nat : n <= L => \E f : Good(f, n)}
  <1>0. L \in Nat
    OBVIOUS
  <1> HIDE DEF L
  <1>1. 0 \in T
    <2> DEFINE f == [i \in {L + 1} |-> <<>>]
    <2>1. L + 1 \in 1 .. Len(s) + 1 /\ L + 1 > Len(s)
      BY <1>0 DEF L
    <2>2. f[L + 1] = FromBody(f, s, L + 1)
      BY <2>1 DEF FromBody
    <2>3. Good(f, 0)
      BY <1>0, <2>2
    <2> QED
      BY <2>3
  <1>2. ASSUME NEW n \in Nat, n \in T PROVE n + 1 \in T
    <2> SUFFICES ASSUME n + 1 <= L PROVE \E f : Good(f, n + 1)
      OBVIOUS
    <2>1. PICK g : Good(g, n)
      BY <1>0, <1>2
    <2> DEFINE k == L - n
               f == [i \in 1 .. L + 1 |-> IF i = k THEN FromBody(g, s, k) ELSE g[i]]
    <2>2. k \in 1 .. L /\ L + 1 - n = k + 1 /\ L + 1 - (n + 1) = k
      BY <1>0
    <2> HIDE DEF k
    <2>3. \A i \in k + 1 .. L + 1 : f[i] = g[i]
      BY <1>0, <2>2
    <2>4. f[k] = FromBody(g, s, k)
      BY <1>0, <2>2
    <2> HIDE DEF f, Good
    <2>5. ASSUME NEW i \in k .. L + 1 PROVE f[i] = FromBody(f, s, i)
      <3>1. i \in 1 .. Len(s) + 1 /\ \A m \in i + 1 .. Len(s) + 1 : f[m] = g[m]
        BY <1>0, <2>2, <2>3 DEF L
      <3>2. FromBody(f, s, i) = FromBody(g, s, i)
        BY <3>1, FromDepends
      <3>3. CASE i = k
        BY <2>4, <3>2, <3>3
      <3>4. CASE i \in k + 1 .. L + 1
        BY <2>1, <2>2, <2>3, <3>2, <3>4 DEF Good
      <3> QED
        BY <1>0, <2>2, <3>3, <3>4
    <2>6. Good(f, n + 1)
      BY <2>2, <2>5 DEF Good
    <2> QED
      BY <2>6
  <1>3. L \in T
    <2> HIDE DEF T
    <2> QED
      BY <1>0, <1>1, <1>2, Induction
  <1>4. PICK g : Good(g, L)
    BY <1>0, <1>3
  <1> DEFINE f == [i \in 1 .. L + 1 |-> FromBody(g, s, i)]
  <1>5. \A i \in 1 .. L + 1 : g[i] = FromBody(g, s, i)
    BY <1>0, <1>4
  <1>6. \A i \in 1 .. L + 1 : f[i] = g[i]
    BY <1>5
  <1>7. ASSUME NEW i \in 1 .. L + 1 PROVE FromBody(f, s, i) = FromBody(g, s, i)
    <2>1. \A k \in i + 1 .. Len(s) + 1 : f[k] = g[k]
      BY <1>0, <1>6 DEF L
    <2> HIDE DEF f
    <2> QED
      BY <2>1, FromDepends DEF L
  <1>8. f = [i \in 1 .. L + 1 |-> FromBody(f, s, i)]
    <2> DEFINE h == [i \in 1 .. L + 1 |-> FromBody(f, s, i)]
    <2>1. h = f
      BY <1>7
    <2> QED
      BY <2>1
  <1>9. IsFrom(f, s)
    <2> HIDE DEF f
    <2> QED
      BY <1>8 DEF IsFrom, L
  <1> QED
    BY <1>9

LEMMA StripIs ==
  ASSUME NEW S, NEW s \in Seq(S)
  PROVE  \E f : IsFrom(f, s) /\ Strip(s) = f[1]
  <1> DEFINE f == CHOOSE g : IsFrom(g, s)
  <1>1. IsFrom(f, s)
    BY FromExists
  <1>2. Strip(s) = f[1]
    BY DEF Strip, IsFrom, FromBody
  <1> QED
    BY <1>1, <1>2

LEMMA UpToExists ==
  ASSUME NEW S, NEW s \in Seq(S)
  PROVE  \E f : IsUpTo(f, s)
  <1> DEFINE L == Len(s)
             Good(f, n) == \A i \in 0 .. n : f[i] = UpToBody(f, s, i)
             T == {n \in Nat : \E f : Good(f, n)}
  <1>0. L \in Nat
    OBVIOUS
  <1> HIDE DEF L
  <1>1. 0 \in T
    <2> DEFINE f == [i \in {0} |-> <<>>]
    <2>1. Good(f, 0)
      BY DEF UpToBody
    <2> QED
      BY <2>1
  <1>2. ASSUME NEW n \in Nat, n \in T PROVE n + 1 \in T
    <2>1. PICK g : Good(g, n)
      BY <1>2
    <2> DEFINE f == [i \in 0 .. n + 1 |-> IF i = n + 1 THEN UpToBody(g, s, n + 1) ELSE g[i]]
    <2>2. \A i \in 0 .. n : f[i] = g[i]
      OBVIOUS
    <2>3. f[n + 1] = UpToBody(g, s, n + 1)
      OBVIOUS
    <2> HIDE DEF f
    <2>4. ASSUME NEW i \in 0 .. n + 1 PROVE f[i] = UpToBody(f, s, i)
      <3>1. UpToBody(f, s, i) = UpToBody(g, s, i)
        BY <2>2 DEF UpToBody
      <3>2. CASE i = n + 1
        BY <2>3, <3>1, <3>2
      <3>3. CASE i \in 0 .. n
        BY <2>1, <2>2, <3>1, <3>3
      <3> QED
        BY <3>2, <3>3
    <2> QED
      BY <2>4
  <1>3. L \in T
    <2> HIDE DEF T
    <2> QED
      BY <1>0, <1>1, <1>2, Induction
  <1>4. PICK g : Good(g, L)
    BY <1>3
  <1> DEFINE f == [i \in 0 .. L |-> UpToBody(g, s, i)]
  <1>5. \A i \in 0 .. L : f[i] = g[i]
    BY <1>4
  <1>6. ASSUME NEW i \in 0 .. L PROVE UpToBody(f, s, i) = UpToBody(g, s, i)
    <2> HIDE DEF f
    <2> QED
      BY <1>0, <1>5 DEF UpToBody
  <1>7. f = [i \in 0 .. L |-> UpToBody(f, s, i)]
    <2> DEFINE h == [i \in 0 .. L |-> UpToBody(f, s, i)]
    <2>1. h = f
      BY <1>6
    <2> QED
      BY <2>1
  <1>8. IsUpTo(f, s)
    <2> HIDE DEF f
    <2> QED
      BY <1>7 DEF IsUpTo, L
  <1> QED
    BY <1>8

LEMMA TextIs ==
  ASSUME NEW S, NEW s \in Seq(S)
  PROVE  \E f : IsUpTo(f, s) /\ Text(s) = f[Len(s)]
  <1> DEFINE f == CHOOSE g : IsUpTo(g, s)
  <1>1. IsUpTo(f, s)
    BY UpToExists
  <1>2. Text(s) = f[Len(s)]
    BY DEF Text, IsUpTo, UpToBody
  <1> QED
    BY <1>1, <1>2

(* What the recursions say of each place, and their types. *)
LEMMA UpToSteps ==
  ASSUME NEW S, NEW s \in Seq(S), NEW f, IsUpTo(f, s)
  PROVE  /\ f[0] = <<>>
         /\ \A n \in 1 .. Len(s) :
              /\ InEscape(s, n) => f[n] = f[n - 1]
              /\ ~InEscape(s, n) => f[n] = Append(f[n - 1], s[n])
         /\ \A n \in 0 .. Len(s) : f[n] \in Seq(S)
  <1>0. Len(s) \in Nat
    OBVIOUS
  <1>1. \A n \in 0 .. Len(s) : f[n] = UpToBody(f, s, n)
    BY DEF IsUpTo
  <1>2. f[0] = <<>>
    BY <1>0, <1>1 DEF UpToBody
  <1>3. ASSUME NEW n \in 1 .. Len(s)
        PROVE  /\ InEscape(s, n) => f[n] = f[n - 1]
               /\ ~InEscape(s, n) => f[n] = Append(f[n - 1], s[n])
    <2>1. n \in 0 .. Len(s) /\ n # 0
      BY <1>0
    <2> QED
      BY <1>1, <2>1 DEF UpToBody
  <1> DEFINE T == {n \in Nat : n <= Len(s) => f[n] \in Seq(S)}
  <1>4. 0 \in T
    BY <1>2, EmptySeq
  <1>5. ASSUME NEW n \in Nat, n \in T PROVE n + 1 \in T
    <2> SUFFICES ASSUME n + 1 <= Len(s) PROVE f[n + 1] \in Seq(S)
      OBVIOUS
    <2>1. n + 1 \in 1 .. Len(s) /\ (n + 1) - 1 = n /\ f[n] \in Seq(S) /\ s[n + 1] \in S
      BY <1>0, <1>5
    <2>2. f[n + 1] = f[n] \/ f[n + 1] = Append(f[n], s[n + 1])
      BY <1>3, <2>1
    <2>3. \A q \in Seq(S), x \in S : Append(q, x) \in Seq(S)
      BY AppendProperties
    <2> QED
      BY <2>1, <2>2, <2>3, Zenon
  <1>6. Nat \subseteq T
    <2> HIDE DEF T
    <2> QED
      BY <1>4, <1>5, Induction
  <1> QED
    BY <1>0, <1>2, <1>3, <1>6

LEMMA FromSteps ==
  ASSUME NEW S, NEW s \in Seq(S), NEW f, IsFrom(f, s)
  PROVE  /\ f[Len(s) + 1] = <<>>
         /\ \A i, j \in DOMAIN s : Match(s, i, j) => f[i] = f[j + 1]
         /\ \A i \in DOMAIN s :
              (\A j \in DOMAIN s : ~Match(s, i, j)) => f[i] = <<s[i]>> \o f[i + 1]
  <1>0. Len(s) \in Nat
    OBVIOUS
  <1>1. \A i \in 1 .. Len(s) + 1 : f[i] = FromBody(f, s, i)
    BY DEF IsFrom
  <1>2. f[Len(s) + 1] = <<>>
    <2>1. Len(s) + 1 \in 1 .. Len(s) + 1 /\ Len(s) + 1 > Len(s)
      BY <1>0
    <2> QED
      BY <1>1, <2>1 DEF FromBody
  <1>3. ASSUME NEW i \in DOMAIN s, NEW j \in DOMAIN s, Match(s, i, j) PROVE f[i] = f[j + 1]
    <2> DEFINE k == CHOOSE m \in DOMAIN s : Match(s, i, m)
    <2>1. k \in DOMAIN s /\ Match(s, i, k)
      BY <1>3
    <2>2. i \in 1 .. Len(s) + 1 /\ ~(i > Len(s))
      BY <1>0
    <2>3. f[i] = f[k + 1]
      BY <1>1, <1>3, <2>2 DEF FromBody
    <2> HIDE DEF k
    <2>4. k = j
      BY <1>3, <2>1, MatchIsOne
    <2> QED
      BY <2>3, <2>4
  <1>4. ASSUME NEW i \in DOMAIN s, \A j \in DOMAIN s : ~Match(s, i, j)
        PROVE  f[i] = <<s[i]>> \o f[i + 1]
    <2>1. i \in 1 .. Len(s) + 1 /\ ~(i > Len(s))
      BY <1>0
    <2> QED
      BY <1>1, <1>4, <2>1 DEF FromBody
  <1> QED
    BY <1>2, <1>3, <1>4

LEMMA FromTypes ==
  ASSUME NEW S, NEW s \in Seq(S), NEW f, IsFrom(f, s)
  PROVE  \A i \in 1 .. Len(s) + 1 : f[i] \in Seq(S)
  <1> DEFINE L == Len(s)
             T == {n \in Nat : \A k \in 0 .. n : k <= L => f[L + 1 - k] \in Seq(S)}
  <1>0. L \in Nat /\ DOMAIN s = 1 .. L
    OBVIOUS
  <1> HIDE DEF L
  <1>1. 0 \in T
    <2>0. f[L + 1] = <<>>
      BY FromSteps DEF L
    <2>1. f[L + 1] \in Seq(S)
      BY <2>0, EmptySeq
    <2>2. \A k \in 0 .. 0 : L + 1 - k = L + 1
      BY <1>0
    <2> QED
      BY <2>1, <2>2
  <1>2. ASSUME NEW n \in Nat, n \in T PROVE n + 1 \in T
    <2> SUFFICES ASSUME n + 1 <= L PROVE f[L + 1 - (n + 1)] \in Seq(S)
      BY <1>0, <1>2
    <2> DEFINE i == L - n
    <2>1. i \in DOMAIN s /\ L + 1 - (n + 1) = i
      BY <1>0
    <2>2. \A k \in i + 1 .. L + 1 : f[k] \in Seq(S)
      <3> SUFFICES ASSUME NEW k \in i + 1 .. L + 1 PROVE f[k] \in Seq(S)
        OBVIOUS
      <3>1. L + 1 - k \in 0 .. n /\ L + 1 - k <= L /\ L + 1 - (L + 1 - k) = k
        BY <1>0
      <3> QED
        BY <1>2, <3>1
    <2> HIDE DEF i
    <2>3. CASE \E j \in DOMAIN s : Match(s, i, j)
      <3>1. PICK j \in DOMAIN s : Match(s, i, j)
        BY <2>3
      <3>2. j + 1 \in i + 1 .. L + 1
        BY <1>0, <2>1, <3>1, MatchIsAhead DEF L
      <3> QED
        BY <2>1, <2>2, <3>1, <3>2, FromSteps
    <2>4. CASE \A j \in DOMAIN s : ~Match(s, i, j)
      <3>1. f[i] = <<s[i]>> \o f[i + 1]
        BY <2>1, <2>4, FromSteps
      <3>2. <<s[i]>> \in Seq(S) /\ f[i + 1] \in Seq(S)
        BY <1>0, <2>1, <2>2
      <3>3. \A a, b \in Seq(S) : a \o b \in Seq(S)
        BY ConcatProperties
      <3>4. f[i] \in Seq(S)
        BY <3>1, <3>2, <3>3, Zenon
      <3> QED
        BY <2>1, <3>4
    <2> QED
      BY <2>3, <2>4
  <1>3. Nat \subseteq T
    <2> HIDE DEF T
    <2> QED
      BY <1>1, <1>2, Induction
  <1>4. ASSUME NEW i \in 1 .. L + 1 PROVE f[i] \in Seq(S)
    <2>1. L + 1 - i \in Nat /\ L + 1 - i \in 0 .. L + 1 - i /\ L + 1 - i <= L
          /\ L + 1 - (L + 1 - i) = i
      BY <1>0
    <2> QED
      BY <1>3, <2>1
  <1> QED
    BY <1>4 DEF L

(* Escape sequences put nothing into the text. *)
LEMMA TextSkips ==
  ASSUME NEW S, NEW s \in Seq(S), NEW g, IsUpTo(g, s),
         NEW a \in Nat, NEW b \in Nat, a <= b, b <= Len(s),
         \A n \in a + 1 .. b : InEscape(s, n)
  PROVE  g[b] = g[a]
  <1> DEFINE T == {n \in Nat : a + n <= b => g[a + n] = g[a]}
  <1>1. 0 \in T
    OBVIOUS
  <1>2. ASSUME NEW n \in Nat, n \in T PROVE n + 1 \in T
    <2> SUFFICES ASSUME a + (n + 1) <= b PROVE g[a + (n + 1)] = g[a]
      OBVIOUS
    <2>1. /\ a + (n + 1) \in 1 .. Len(s) /\ a + (n + 1) \in a + 1 .. b
          /\ (a + (n + 1)) - 1 = a + n /\ g[a + n] = g[a]
      BY <1>2
    <2> QED
      BY <2>1, UpToSteps
  <1>3. Nat \subseteq T
    <2> HIDE DEF T
    <2> QED
      BY <1>1, <1>2, Induction
  <1>4. b - a \in Nat /\ a + (b - a) = b
    OBVIOUS
  <1>5. b - a \in T
    BY <1>3, <1>4
  <1> QED
    BY <1>4, <1>5

(* The filter of pipePtyToCons (ansiRegexp.ReplaceAll) leaves out every    *)
(* escape sequence and nothing else, whatever the string and however long: *)
(* no match hides another.                                                 *)
THEOREM StripLeavesText ==
  ASSUME NEW S, NEW s \in Seq(S)
  PROVE  Strip(s) = Text(s) /\ Text(s) \in Seq(S)
  <1>1. PICK f : IsFrom(f, s) /\ Strip(s) = f[1]
    BY StripIs
  <1>2. PICK g : IsUpTo(g, s) /\ Text(s) = g[Len(s)]
    BY TextIs
  <1> DEFINE L == Len(s)
             Between(i) == \A k, l \in DOMAIN s : Match(s, k, l) => ~(k < i /\ i <= l)
             Parted(i) == Between(i) => g[i - 1] \o f[i] = g[L]
             T == {n \in Nat : \A k \in 0 .. n : k <= L => Parted(L + 1 - k)}
  <1>0. L \in Nat /\ DOMAIN s = 1 .. L
    OBVIOUS
  <1>3. /\ \A n \in 0 .. L : g[n] \in Seq(S)
        /\ \A i \in 1 .. L + 1 : f[i] \in Seq(S)
    BY <1>1, <1>2, UpToSteps, FromTypes
  <1> HIDE DEF L
  <1>4. 0 \in T
    <2>1. f[L + 1] = <<>>
      BY <1>1, FromSteps DEF L
    <2>2. g[L] \in Seq(S) /\ (L + 1) - 1 = L
      BY <1>0, <1>3
    <2>3. Parted(L + 1)
      BY <2>1, <2>2, ConcatEmptySeq
    <2>4. \A k \in 0 .. 0 : L + 1 - k = L + 1
      BY <1>0
    <2> HIDE DEF Parted
    <2> QED
      BY <2>3, <2>4
  <1>5. ASSUME NEW n \in Nat, n \in T PROVE n + 1 \in T
    <2> DEFINE i == L - n
    <2> SUFFICES ASSUME n + 1 <= L PROVE Parted(i)
      <3>1. \A k \in 0 .. n + 1 : k \in 0 .. n \/ (k = n + 1 /\ L + 1 - k = i)
        BY <1>0
      <3> HIDE DEF i, Parted
      <3>2. \A k \in 0 .. n : k <= L => Parted(L + 1 - k)
        BY <1>5
      <3>3. \A k \in 0 .. n + 1 : k <= L => Parted(L + 1 - k)
        BY <3>1, <3>2
      <3> QED
        BY <3>3
    <2> SUFFICES ASSUME Between(i) PROVE g[i - 1] \o f[i] = g[L]
      OBVIOUS
    <2>1. i \in 1 .. L /\ i \in DOMAIN s
      BY <1>0
    <2>2. \A k \in i + 1 .. L + 1 : Parted(k)
      <3> SUFFICES ASSUME NEW k \in i + 1 .. L + 1 PROVE Parted(k)
        OBVIOUS
      <3>1. L + 1 - k \in 0 .. n /\ L + 1 - k <= L /\ L + 1 - (L + 1 - k) = k
        BY <1>0
      <3> HIDE DEF Parted
      <3> QED
        BY <1>5, <3>1
    <2> HIDE DEF i
    <2>3. CASE \E j \in DOMAIN s : Match(s, i, j)
      <3>1. PICK j \in DOMAIN s : Match(s, i, j)
        BY <2>3
      <3>2. i < j /\ j <= L /\ j + 1 \in i + 1 .. L + 1 /\ (j + 1) - 1 = j
        BY <1>0, <2>1, <3>1, MatchIsAhead DEF L
      <3>3. Between(j + 1)
        <4> SUFFICES ASSUME NEW k \in DOMAIN s, NEW l \in DOMAIN s, Match(s, k, l),
                            k < j + 1, j + 1 <= l
                     PROVE  FALSE
          OBVIOUS
        <4>1. CASE k < i
          BY <1>0, <2>1, <3>2, <4>1
        <4>2. CASE k = i
          <5>1. l = j
            BY <2>1, <3>1, <4>2, MatchIsOne
          <5> QED
            BY <1>0, <5>1
        <4>3. CASE i < k
          <5>1. j < k
            BY <2>1, <3>1, <4>3, MatchesAreApart
          <5> QED
            BY <1>0, <5>1
        <4> QED
          BY <1>0, <2>1, <4>1, <4>2, <4>3
      <3>4. g[j] \o f[j + 1] = g[L]
        BY <2>2, <3>2, <3>3
      <3>5. g[j] = g[i - 1]
        <4>1. \A m \in (i - 1) + 1 .. j : InEscape(s, m)
          <5> SUFFICES ASSUME NEW m \in (i - 1) + 1 .. j PROVE InEscape(s, m)
            OBVIOUS
          <5>1. m \in i .. j /\ <<i, j>> \in (DOMAIN s) \X (DOMAIN s)
            BY <1>0, <2>1
          <5> QED
            BY <3>1, <5>1 DEF InEscape, EscapesIn
        <4>2. i - 1 \in Nat /\ j \in Nat /\ i - 1 <= j /\ j <= Len(s)
          BY <1>0, <2>1, <3>2 DEF L
        <4> QED
          BY <1>2, <4>1, <4>2, TextSkips
      <3>6. f[i] = f[j + 1]
        BY <1>1, <2>1, <3>1, FromSteps
      <3> QED
        BY <3>4, <3>5, <3>6
    <2>4. CASE \A j \in DOMAIN s : ~Match(s, i, j)
      <3>1. ~InEscape(s, i)
        <4> SUFFICES ASSUME NEW k \in DOMAIN s, NEW l \in DOMAIN s, Match(s, k, l), i \in k .. l
                     PROVE  FALSE
          BY DEF InEscape, EscapesIn
        <4>1. k # i
          BY <2>4
        <4> QED
          BY <1>0, <2>1, <4>1
      <3>2. Between(i + 1)
        <4> SUFFICES ASSUME NEW k \in DOMAIN s, NEW l \in DOMAIN s, Match(s, k, l),
                            k < i + 1, i + 1 <= l
                     PROVE  FALSE
          OBVIOUS
        <4>1. k # i
          BY <2>4
        <4> QED
          BY <1>0, <2>1, <4>1
      <3>3. g[i] \o f[i + 1] = g[L]
        <4>1. i + 1 \in i + 1 .. L + 1 /\ (i + 1) - 1 = i
          BY <1>0, <2>1
        <4> QED
          BY <2>2, <3>2, <4>1
      <3>4. g[i] = Append(g[i - 1], s[i]) /\ f[i] = <<s[i]>> \o f[i + 1]
        <4>1. g[i] = Append(g[i - 1], s[i])
          BY <1>2, <2>1, <3>1, UpToSteps DEF L
        <4>2. f[i] = <<s[i]>> \o f[i + 1]
          BY <1>1, <2>1, <2>4, FromSteps
        <4> QED
          BY <4>1, <4>2
      <3>5. g[i - 1] \in Seq(S) /\ f[i + 1] \in Seq(S) /\ s[i] \in S
        <4>1. i - 1 \in 0 .. L /\ i + 1 \in 1 .. L + 1
          BY <1>0, <2>1
        <4> QED
          BY <1>3, <2>1, <4>1
      <3>6. Append(g[i - 1], s[i]) = g[i - 1] \o <<s[i]>> /\ <<s[i]>> \in Seq(S)
        BY <3>5, SeqAlgebra, SMTT(20)
      <3>7. (g[i - 1] \o <<s[i]>>) \o f[i + 1] = g[i - 1] \o (<<s[i]>> \o f[i + 1])
        <4>1. \A a, b, c \in Seq(S) : (a \o b) \o c = a \o (b \o c)
          BY ConcatAssociative
        <4> QED
          BY <3>5, <3>6, <4>1
      <3> QED
        BY <3>3, <3>4, <3>6, <3>7
    <2> QED
      BY <2>3, <2>4
  <1>6. L \in T
    <2> HIDE DEF T
    <2> QED
      BY <1>0, <1>4, <1>5, Induction
  <1>7. Parted(1)
    <2>1. L \in 0 .. L /\ L + 1 - L = 1
      BY <1>0
    <2> HIDE DEF Parted
    <2> QED
      BY <1>6, <2>1
  <1>8. Between(1)
    BY <1>0
  <1>9. g[0] \o f[1] = f[1]
    <2>1. g[0] = <<>> /\ f[1] \in Seq(S)
      BY <1>0, <1>2, <1>3, UpToSteps
    <2> QED
      BY <2>1, ConcatEmptySeq
  <1>10. f[1] = g[L]
    <2> HIDE DEF Between
    <2>1. 1 - 1 = 0
      OBVIOUS
    <2>2. g[1 - 1] \o f[1] = g[L]
      BY <1>7, <1>8
    <2> QED
      BY <1>9, <2>1, <2>2
  <1>11. g[L] \in Seq(S)
    BY <1>0, <1>3
  <1> QED
    BY <1>1, <1>2, <1>10, <1>11 DEF L

(* The text of two pieces, when no escape sequence is cut between them. *)
LEMMA TextOfPieces ==
  ASSUME NEW S, NEW s \in Seq(S), NEW t \in Seq(S),
         \A m \in EscapesIn(s \o t) : ~(m[1] <= Len(s) /\ Len(s) < m[2])
  PROVE  Text(s \o t) = Text(s) \o Text(t)
  <1> DEFINE u == s \o t
             L == Len(s)
             M == Len(t)
  <1>0. /\ L \in Nat /\ M \in Nat /\ u \in Seq(S) /\ Len(u) = L + M
        /\ DOMAIN s = 1 .. L /\ DOMAIN t = 1 .. M /\ DOMAIN u = 1 .. L + M
    BY ConcatProperties
  <1>1. \A i \in 1 .. L + M : u[i] = IF i <= L THEN s[i] ELSE t[i - L]
    BY ConcatProperties
  <1>2. \A m \in EscapesIn(u) : m[2] <= L \/ L < m[1]
    <2> SUFFICES ASSUME NEW m \in EscapesIn(u) PROVE m[2] <= L \/ L < m[1]
      OBVIOUS
    <2>1. m[1] \in 1 .. L + M /\ m[2] \in 1 .. L + M
      BY <1>0 DEF EscapesIn
    <2> QED
      BY <1>0, <2>1
  <1>15. /\ \A a, b, c \in Seq(S) : (a \o b) \o c = a \o (b \o c)
         /\ \A a \in Seq(S), x \in S : Append(a, x) = a \o <<x>> /\ <<x>> \in Seq(S)
    BY SeqAlgebra
  <1> HIDE DEF u, L, M
  <1>3. ASSUME NEW i \in 1 .. L, NEW j \in 1 .. L
        PROVE  Match(u, i, j) <=> Match(s, i, j)
    <2>1. \A k \in i .. j : s[k] = u[k + 0] /\ u[k] = s[k + 0]
      BY <1>0, <1>1
    <2>2. /\ i \in DOMAIN s /\ j \in DOMAIN s /\ i \in DOMAIN u /\ j \in DOMAIN u
          /\ i + 0 = i /\ j + 0 = j /\ 0 \in Int /\ s \in Seq(S)
      BY <1>0
    <2>3. ASSUME Match(s, i, j) PROVE Match(u, i + 0, j + 0)
      BY <1>0, <2>1, <2>2, <2>3, MatchMoves
    <2>4. ASSUME Match(u, i, j) PROVE Match(s, i + 0, j + 0)
      BY <1>0, <2>1, <2>2, <2>4, MatchMoves
    <2> QED
      BY <2>2, <2>3, <2>4
  <1>4. ASSUME NEW i \in 1 .. M, NEW j \in 1 .. M
        PROVE  Match(u, L + i, L + j) <=> Match(t, i, j)
    <2>1. \A k \in i .. j : t[k] = u[k + L]
      <3> SUFFICES ASSUME NEW k \in i .. j PROVE t[k] = u[k + L]
        OBVIOUS
      <3>1. k + L \in 1 .. L + M /\ ~(k + L <= L) /\ (k + L) - L = k
        BY <1>0
      <3> QED
        BY <1>1, <3>1
    <2>2. \A k \in L + i .. L + j : u[k] = t[k + (0 - L)]
      <3> SUFFICES ASSUME NEW k \in L + i .. L + j PROVE u[k] = t[k + (0 - L)]
        OBVIOUS
      <3>1. k \in 1 .. L + M /\ ~(k <= L) /\ k - L = k + (0 - L)
        BY <1>0
      <3> QED
        BY <1>1, <3>1
    <2>3. /\ i \in DOMAIN t /\ j \in DOMAIN t /\ L + i \in DOMAIN u /\ L + j \in DOMAIN u
          /\ i + L = L + i /\ j + L = L + j
          /\ (L + i) + (0 - L) = i /\ (L + j) + (0 - L) = j
          /\ L \in Int /\ 0 - L \in Int /\ t \in Seq(S)
      BY <1>0
    <2>4. ASSUME Match(t, i, j) PROVE Match(u, i + L, j + L)
      BY <1>0, <2>1, <2>3, <2>4, MatchMoves
    <2>5. ASSUME Match(u, L + i, L + j) PROVE Match(t, (L + i) + (0 - L), (L + j) + (0 - L))
      BY <1>0, <2>2, <2>3, <2>5, MatchMoves
    <2> QED
      BY <2>3, <2>4, <2>5
  <1>5. ASSUME NEW n \in 1 .. L PROVE InEscape(u, n) <=> InEscape(s, n)
    <2>1. ASSUME InEscape(u, n) PROVE InEscape(s, n)
      <3>1. PICK m \in EscapesIn(u) : n \in m[1] .. m[2]
        BY <2>1 DEF InEscape
      <3>2. m[1] \in 1 .. L /\ m[2] \in 1 .. L /\ Match(u, m[1], m[2]) /\ m = <<m[1], m[2]>>
        <4>1. m[1] \in 1 .. L + M /\ m[2] \in 1 .. L + M /\ m = <<m[1], m[2]>>
          BY <1>0 DEF EscapesIn
        <4>2. Match(u, m[1], m[2])
          BY DEF EscapesIn
        <4> QED
          BY <1>0, <1>2, <3>1, <4>1, <4>2
      <3>3. m \in EscapesIn(s)
        BY <1>0, <1>3, <3>2 DEF EscapesIn
      <3> QED
        BY <3>1, <3>3 DEF InEscape
    <2>2. ASSUME InEscape(s, n) PROVE InEscape(u, n)
      <3>1. PICK m \in EscapesIn(s) : n \in m[1] .. m[2]
        BY <2>2 DEF InEscape
      <3>2. m[1] \in 1 .. L /\ m[2] \in 1 .. L /\ Match(s, m[1], m[2]) /\ m = <<m[1], m[2]>>
        BY <1>0 DEF EscapesIn
      <3>3. m \in EscapesIn(u)
        <4>1. m[1] \in 1 .. L + M /\ m[2] \in 1 .. L + M /\ Match(u, m[1], m[2])
          BY <1>0, <1>3, <3>2
        <4> QED
          BY <1>0, <3>2, <4>1 DEF EscapesIn
      <3> QED
        BY <3>1, <3>3 DEF InEscape
    <2> QED
      BY <2>1, <2>2
  <1>6. ASSUME NEW n \in 1 .. M PROVE InEscape(u, L + n) <=> InEscape(t, n)
    <2>1. ASSUME InEscape(u, L + n) PROVE InEscape(t, n)
      <3>1. PICK m \in EscapesIn(u) : L + n \in m[1] .. m[2]
        BY <2>1 DEF InEscape
      <3>2. m[1] \in 1 .. L + M /\ m[2] \in 1 .. L + M /\ Match(u, m[1], m[2])
        BY <1>0 DEF EscapesIn
      <3>3. m[1] - L \in 1 .. M /\ m[2] - L \in 1 .. M
            /\ L + (m[1] - L) = m[1] /\ L + (m[2] - L) = m[2] /\ n \in m[1] - L .. m[2] - L
        <4>1. m[2] > L
          BY <1>0, <3>1, <3>2
        <4>2. L < m[1]
          BY <1>0, <1>2, <3>2, <4>1
        <4>3. \A a \in 1 .. L + M : L < a => a - L \in 1 .. M /\ L + (a - L) = a
          BY <1>0
        <4>4. L + n >= m[1] => n >= m[1] - L
          BY <1>0, <3>2
        <4>5. L + n <= m[2] => n <= m[2] - L
          BY <1>0, <3>2
        <4>6. m[1] - L \in 1 .. M /\ m[2] - L \in 1 .. M
              /\ L + (m[1] - L) = m[1] /\ L + (m[2] - L) = m[2]
          BY <3>2, <4>1, <4>2, <4>3
        <4>7. L + n >= m[1] /\ L + n <= m[2]
          BY <1>0, <3>1, <3>2
        <4>8. n \in m[1] - L .. m[2] - L
          BY <4>4, <4>5, <4>6, <4>7
        <4> QED
          BY <4>6, <4>8
      <3>4. Match(t, m[1] - L, m[2] - L)
        BY <1>4, <3>2, <3>3
      <3> HIDE DEF EscapesIn
      <3>5. <<m[1] - L, m[2] - L>> \in EscapesIn(t)
        BY <1>0, <3>3, <3>4 DEF EscapesIn
      <3> QED
        BY <3>3, <3>5 DEF InEscape
    <2>2. ASSUME InEscape(t, n) PROVE InEscape(u, L + n)
      <3>1. PICK m \in EscapesIn(t) : n \in m[1] .. m[2]
        BY <2>2 DEF InEscape
      <3>2. m[1] \in 1 .. M /\ m[2] \in 1 .. M /\ Match(t, m[1], m[2])
        BY <1>0 DEF EscapesIn
      <3>3. L + m[1] \in 1 .. L + M /\ L + m[2] \in 1 .. L + M /\ L + n \in L + m[1] .. L + m[2]
        BY <1>0, <3>1, <3>2
      <3>4. Match(u, L + m[1], L + m[2])
        BY <1>4, <3>2
      <3>5. <<L + m[1], L + m[2]>> \in EscapesIn(u)
        BY <1>0, <3>3, <3>4 DEF EscapesIn
      <3> QED
        BY <3>3, <3>5 DEF InEscape
    <2> QED
      BY <2>1, <2>2
  <1>7. PICK f : IsUpTo(f, s) /\ Text(s) = f[L]
    BY TextIs DEF L
  <1>8. PICK g : IsUpTo(g, t) /\ Text(t) = g[M]
    BY TextIs DEF M
  <1>9. PICK h : IsUpTo(h, u) /\ Text(u) = h[L + M]
    BY <1>0, TextIs
  <1>10. /\ f[0] = <<>> /\ \A n \in 0 .. L : f[n] \in Seq(S)
         /\ \A n \in 1 .. L : f[n] = IF InEscape(s, n) THEN f[n - 1] ELSE Append(f[n - 1], s[n])
    BY <1>7, UpToSteps DEF L
  <1>11. /\ g[0] = <<>> /\ \A n \in 0 .. M : g[n] \in Seq(S)
         /\ \A n \in 1 .. M : g[n] = IF InEscape(t, n) THEN g[n - 1] ELSE Append(g[n - 1], t[n])
    BY <1>8, UpToSteps DEF M
  <1>12. /\ h[0] = <<>>
         /\ \A n \in 1 .. L + M :
              h[n] = IF InEscape(u, n) THEN h[n - 1] ELSE Append(h[n - 1], u[n])
    <2>1. /\ h[0] = <<>>
          /\ \A n \in 1 .. Len(u) :
               h[n] = IF InEscape(u, n) THEN h[n - 1] ELSE Append(h[n - 1], u[n])
      <3>1. u \in Seq(S)
        BY <1>0
      <3> QED
        BY <1>9, <3>1, UpToSteps
    <2> QED
      BY <1>0, <2>1
  <1>13. h[L] = f[L]
    <2> DEFINE T == {n \in Nat : n <= L => h[n] = f[n]}
    <2>1. 0 \in T
      BY <1>10, <1>12
    <2>2. ASSUME NEW n \in Nat, n \in T PROVE n + 1 \in T
      <3> SUFFICES ASSUME n + 1 <= L PROVE h[n + 1] = f[n + 1]
        OBVIOUS
      <3>1. n + 1 \in 1 .. L /\ n + 1 \in 1 .. L + M /\ (n + 1) - 1 = n /\ h[n] = f[n]
        BY <1>0, <2>2
      <3>2. u[n + 1] = s[n + 1] /\ (InEscape(u, n + 1) <=> InEscape(s, n + 1))
        BY <1>1, <1>5, <3>1
      <3> QED
        BY <1>10, <1>12, <3>1, <3>2
    <2> HIDE DEF T
    <2>3. L \in T
      BY <1>0, <2>1, <2>2, Induction
    <2> QED
      BY <1>0, <2>3 DEF T
  <1>14. h[L + M] = f[L] \o g[M]
    <2> DEFINE T == {n \in Nat : n <= M => h[L + n] = f[L] \o g[n]}
    <2>0. f[L] \in Seq(S)
      BY <1>0, <1>10
    <2>1. 0 \in T
      <3>1. f[L] \o <<>> = f[L] /\ L + 0 = L
        BY <1>0, <2>0, ConcatEmptySeq
      <3> QED
        BY <1>11, <1>13, <3>1
    <2>2. ASSUME NEW n \in Nat, n \in T PROVE n + 1 \in T
      <3>0. n + 1 \in Nat
        OBVIOUS
      <3> SUFFICES ASSUME n + 1 <= M PROVE h[L + (n + 1)] = f[L] \o g[n + 1]
        BY <3>0
      <3>1. /\ n + 1 \in 1 .. M /\ L + (n + 1) \in 1 .. L + M /\ (n + 1) - 1 = n
            /\ (L + (n + 1)) - 1 = L + n /\ ~(L + (n + 1) <= L) /\ (L + (n + 1)) - L = n + 1
        BY <1>0
      <3>2. h[L + n] = f[L] \o g[n] /\ g[n] \in Seq(S) /\ t[n + 1] \in S
        <4>1. n \in 0 .. M /\ n <= M
          BY <1>0
        <4> QED
          <5>1. h[L + n] = f[L] \o g[n]
            BY <2>2, <4>1
          <5>2. g[n] \in Seq(S)
            BY <1>11, <4>1
          <5>3. t[n + 1] \in S
            BY <1>0, <3>1
          <5> QED
            BY <5>1, <5>2, <5>3
      <3>3. u[L + (n + 1)] = t[n + 1] /\ (InEscape(u, L + (n + 1)) <=> InEscape(t, n + 1))
        BY <1>1, <1>6, <3>1
      <3>4. CASE InEscape(t, n + 1)
        <4>1. h[L + (n + 1)] = h[L + n] /\ g[n + 1] = g[n]
          BY <1>11, <1>12, <3>1, <3>3, <3>4
        <4> QED
          BY <3>2, <4>1
      <3>5. CASE ~InEscape(t, n + 1)
        <4>1. h[L + (n + 1)] = Append(h[L + n], t[n + 1]) /\ g[n + 1] = Append(g[n], t[n + 1])
          BY <1>11, <1>12, <3>1, <3>3, <3>5
        <4>2. f[L] \o g[n] \in Seq(S)
          BY <2>0, <3>2, ConcatProperties
        <4>3. /\ Append(f[L] \o g[n], t[n + 1]) = (f[L] \o g[n]) \o <<t[n + 1]>>
              /\ Append(g[n], t[n + 1]) = g[n] \o <<t[n + 1]>> /\ <<t[n + 1]>> \in Seq(S)
          BY <1>15, <3>2, <4>2
        <4>4. (f[L] \o g[n]) \o <<t[n + 1]>> = f[L] \o (g[n] \o <<t[n + 1]>>)
          BY <1>15, <2>0, <3>2, <4>3, ZenonT(40)
        <4> QED
          BY <3>2, <4>1, <4>3, <4>4, ZenonT(40)
      <3> QED
        BY <3>4, <3>5
    <2> HIDE DEF T
    <2>3. M \in T
      BY <1>0, <2>1, <2>2, Induction
    <2>4. M <= M
      BY <1>0
    <2> QED
      BY <2>3, <2>4 DEF T
  <1> QED
    BY <1>7, <1>8, <1>9, <1>14 DEF u

(* What follows does not undo an escape sequence. *)
LEMMA EscapesStay ==
  ASSUME NEW S, NEW s \in Seq(S), NEW t \in Seq(S), NEW m \in EscapesIn(s)
  PROVE  m \in EscapesIn(s \o t)
  <1> DEFINE u == s \o t
  <1>1. /\ Len(s) \in Nat /\ Len(t) \in Nat /\ u \in Seq(S) /\ Len(u) = Len(s) + Len(t)
        /\ DOMAIN s = 1 .. Len(s) /\ DOMAIN u = 1 .. Len(s) + Len(t)
        /\ \A i \in 1 .. Len(s) : u[i] = s[i]
    BY ConcatProperties
  <1> HIDE DEF u
  <1>2. PICK i \in DOMAIN s, j \in DOMAIN s : m = <<i, j>> /\ Match(s, i, j)
    BY DEF EscapesIn
  <1>3. i + 0 \in DOMAIN u /\ j + 0 \in DOMAIN u /\ i + 0 = i /\ j + 0 = j /\ 0 \in Int
    BY <1>1
  <1>4. \A k \in i .. j : s[k] = u[k + 0]
    BY <1>1
  <1>5. Match(u, i + 0, j + 0)
    BY <1>1, <1>2, <1>3, <1>4, MatchMoves
  <1>6. m \in EscapesIn(u)
    BY <1>2, <1>3, <1>5 DEF EscapesIn
  <1> QED
    BY <1>6 DEF u

(* The rest of two pieces, and the rest after all of a sequence. *)
LEMMA SinceOfPieces ==
  ASSUME NEW S, NEW s \in Seq(S), NEW t \in Seq(S), NEW n \in 0 .. Len(s)
  PROVE  /\ Since(s, n) \in Seq(S) /\ Len(Since(s, n)) = Len(s) - n
         /\ Since(s \o t, n) = Since(s, n) \o t
         /\ n = Len(s) => Since(s, n) = <<>>
  <1> DEFINE a == SubSeq(s, 1, n)
             b == SubSeq(s, n + 1, Len(s))
             u == s \o t
             d == SubSeq(u, n + 1, Len(u))
             f == b \o t
  <1>0. Len(s) \in Nat /\ Len(t) \in Nat /\ n \in Nat /\ n <= Len(s)
    BY LenProperties
  <1>1. /\ b \in Seq(S) /\ Len(b) = Len(s) - n
        /\ \A i \in 1 .. Len(s) - n : b[i] = s[n + i]
    <2>1. b \in Seq(S) /\ Len(b) = Len(s) - n
      BY CutInTwo
    <2>2. \A i \in 1 .. Len(s) - n : b[i] = s[n + i]
      <3>1. ASSUME NEW i \in 1 .. Len(s) - n PROVE b[i] = s[n + i]
        BY <1>0, <3>1, SubSeqProperties
      <3> QED
        BY <3>1
    <2> QED
      BY <2>1, <2>2
  <1>2. /\ u \in Seq(S) /\ Len(u) = Len(s) + Len(t)
        /\ \A i \in 1 .. Len(s) + Len(t) : u[i] = IF i <= Len(s) THEN s[i] ELSE t[i - Len(s)]
    BY ConcatProperties
  <1>3. /\ f \in Seq(S) /\ Len(f) = Len(s) - n + Len(t)
        /\ \A i \in 1 .. Len(s) - n + Len(t) :
             f[i] = IF i <= Len(s) - n THEN b[i] ELSE t[i - (Len(s) - n)]
    <2> HIDE DEF b
    <2>1. /\ f \in Seq(S) /\ Len(f) = Len(b) + Len(t)
          /\ \A i \in 1 .. Len(b) + Len(t) :
               f[i] = IF i <= Len(b) THEN b[i] ELSE t[i - Len(b)]
      BY <1>1, ConcatProperties
    <2> QED
      BY <1>1, <2>1
  <1>4. /\ d \in Seq(S) /\ Len(d) = Len(s) + Len(t) - n
        /\ \A i \in 1 .. Len(s) + Len(t) - n : d[i] = u[n + i]
    <2>1. n \in 0 .. Len(u)
      BY <1>0, <1>2
    <2>2. d \in Seq(S) /\ Len(d) = Len(s) + Len(t) - n
      BY <1>0, <1>2, <2>1, CutInTwo
    <2>3. ASSUME NEW i \in 1 .. Len(s) + Len(t) - n PROVE d[i] = u[n + i]
      BY <1>0, <1>2, SubSeqProperties
    <2> QED
      BY <2>2, <2>3
  <1> HIDE DEF b, u, d, f
  <1>5. d = f
    <2>1. Len(d) = Len(f)
      BY <1>0, <1>3, <1>4
    <2>2. ASSUME NEW i \in 1 .. Len(d) PROVE d[i] = f[i]
      <3>0. i \in Nat /\ 1 <= i /\ i <= Len(s) - n + Len(t)
        BY <1>0, <1>4
      <3>1. CASE i <= Len(s) - n
        <4>1. d[i] = u[n + i] /\ f[i] = b[i] /\ b[i] = s[n + i]
          BY <1>0, <1>1, <1>3, <1>4, <3>0, <3>1
        <4>2. u[n + i] = s[n + i]
          BY <1>0, <1>2, <3>0, <3>1
        <4> QED
          BY <4>1, <4>2
      <3>2. CASE i > Len(s) - n
        <4>1. d[i] = u[n + i] /\ f[i] = t[i - (Len(s) - n)]
          BY <1>0, <1>3, <1>4, <3>0, <3>2
        <4>2. u[n + i] = t[(n + i) - Len(s)]
          BY <1>0, <1>2, <3>0, <3>2
        <4>3. (n + i) - Len(s) = i - (Len(s) - n)
          BY <1>0, <3>0
        <4> QED
          BY <4>1, <4>2, <4>3
      <3> QED
        BY <1>0, <3>1, <3>2
    <2> QED
      BY <1>3, <1>4, <2>1, <2>2, SeqEqual
  <1>6. Len(b) = 0 => b = <<>>
    BY <1>1, EmptySeq
  <1>7. Since(s, n) = b /\ Since(s \o t, n) = d /\ f = b \o t
    BY DEF b, d, f, u, Since
  <1> QED
    BY <1>0, <1>1, <1>5, <1>6, <1>7

LEMMA SinceOfText ==
  \A s, t \in Seq(Alphabet) : \A n \in 0 .. Len(s) :
    /\ Since(s, n) \in Seq(Alphabet) /\ Len(Since(s, n)) = Len(s) - n
    /\ Since(s \o t, n) = Since(s, n) \o t
    /\ n = Len(s) => Since(s, n) = <<>>
  <1> TAKE s, t \in Seq(Alphabet)
  <1> TAKE n \in 0 .. Len(s)
  <1> QED
    BY SinceOfPieces

LEMMA SinceAll == \A s, t \in Seq(Alphabet) : Since(s \o t, Len(s)) = t
  <1> TAKE s, t \in Seq(Alphabet)
  <1> DEFINE n == Len(s)
  <1>1. n \in 0 .. Len(s) /\ n = Len(s)
    BY LenProperties
  <1> HIDE DEF n
  <1>2. Since(s \o t, n) = Since(s, n) \o t /\ Since(s, n) = <<>>
    BY <1>1, SinceOfText
  <1>3. <<>> \o t = t
    BY SeqAlgebra
  <1> QED
    BY <1>1, <1>2, <1>3

(* The pump holds a chunk only until it has written it; every read took    *)
(* something.                                                              *)
FilterInv ==
  /\ outPump # "writing" => chunk = <<>>
  /\ cuts \subseteq Nat \X Nat /\ missed \subseteq Nat
  /\ \A c \in cuts : c[1] < Len(taken) /\ c[2] <= Len(shown)
  /\ CleanUnlessCut

LEMMA FilterStart == Init => FilterInv
  BY EmptySeq DEF Init, FilterInv, CleanUnlessCut

LEMMA FilterReads ==
  ASSUME OutTypeOK, FilterInv, OutReads
  PROVE  FilterInv'
  <1>1. PICK n \in 1 .. Len(pty) :
          taken' = taken \o SubSeq(pty, 1, n) /\ chunk' = Strip(SubSeq(pty, 1, n))
    BY DEF OutReads
  <1> DEFINE a == SubSeq(pty, 1, n)
             d == <<Len(taken), Len(shown)>>
  <1>2. /\ a \in Seq(Alphabet) /\ Len(a) = n
        /\ taken \in Seq(Alphabet) /\ shown \in Seq(Alphabet)
    <2>1. pty \in Seq(Alphabet) /\ n \in 0 .. Len(pty)
      BY DEF OutTypeOK
    <2> QED
      BY <2>1, CutInTwo DEF OutTypeOK, FilterInv, CleanUnlessCut
  <1>3. taken' = taken \o a /\ chunk' = Strip(a)
    BY <1>1
  <1>4. /\ outPump' = "writing" /\ chunk = <<>> /\ shown' = shown /\ missed' = missed
        /\ cuts' = cuts \union {d}
    BY DEF OutReads, FilterInv
  <1>5. Strip(a) = Text(a) /\ Text(a) \in Seq(Alphabet)
    BY <1>2, StripLeavesText
  <1>6. Len(taken) \in Nat /\ Len(shown) \in Nat /\ Len(taken') = Len(taken) + n /\ n >= 1
    <2>1. Len(taken \o a) = Len(taken) + Len(a) /\ Len(taken) \in Nat /\ Len(shown) \in Nat
      BY <1>2, SeqAlgebra
    <2>2. n \in Nat /\ n >= 1
      OBVIOUS
    <2> QED
      BY <1>2, <1>3, <2>1, <2>2
  <1> HIDE DEF a
  <1>7. ASSUME NEW c \in cuts, ~CutSince(c[1])', ~MissedSince(c[1])'
        PROVE  Since(shown \o chunk', c[2]) = Text(Since(taken', c[1]))
    <2> DEFINE rest == Since(taken, c[1])
    <2>1. c[1] \in 0 .. Len(taken) /\ c[2] \in 0 .. Len(shown)
      BY <1>6 DEF FilterInv
    <2>2. /\ rest \in Seq(Alphabet) /\ Len(rest) = Len(taken) - c[1]
          /\ Since(taken', c[1]) = rest \o a
      <3> DEFINE b == c[1]
      <3>1. b \in 0 .. Len(taken)
        BY <2>1
      <3> HIDE DEF b
      <3>2. /\ Since(taken, b) \in Seq(Alphabet) /\ Len(Since(taken, b)) = Len(taken) - b
            /\ Since(taken \o a, b) = Since(taken, b) \o a
        BY <1>2, <3>1, SinceOfText
      <3> QED
        BY <1>3, <3>2 DEF b
    <2>3. Since(shown \o chunk', c[2]) = Since(shown, c[2]) \o chunk'
      BY <1>2, <1>3, <1>5, <2>1, SinceOfText
    <2> HIDE DEF rest
    <2>4. Since(shown, c[2]) = Text(rest)
      <3>1. ~CutSince(c[1])
        <4> SUFFICES ASSUME CutSince(c[1]) PROVE FALSE
          OBVIOUS
        <4>1. PICK e \in cuts, m \in EscapesIn(rest) : c[1] + m[1] <= e[1] /\ e[1] < c[1] + m[2]
          BY DEF CutSince, rest
        <4>2. m \in EscapesIn(rest \o a) /\ e \in cuts'
          BY <1>2, <1>4, <2>2, <4>1, EscapesStay
        <4> QED
          BY <1>7, <2>2, <4>1, <4>2 DEF CutSince
      <3>2. ~MissedSince(c[1])
        BY <1>4, <1>7 DEF MissedSince
      <3>3. Since(shown \o chunk, c[2]) = Text(rest)
        BY <3>1, <3>2 DEF FilterInv, CleanUnlessCut, rest
      <3>4. shown \o <<>> = shown
        BY <1>2, SeqAlgebra
      <3> QED
        BY <1>4, <3>3, <3>4
    <2>5. \A m \in EscapesIn(rest \o a) : ~(m[1] <= Len(rest) /\ Len(rest) < m[2])
      <3> SUFFICES ASSUME NEW m \in EscapesIn(rest \o a), m[1] <= Len(rest), Len(rest) < m[2]
                   PROVE  FALSE
        OBVIOUS
      <3>1. m[1] \in Nat /\ m[2] \in Nat
        <4>1. rest \o a \in Seq(Alphabet)
          BY <1>2, <2>2, SeqAlgebra
        <4>2. DOMAIN (rest \o a) \subseteq Nat
          BY <4>1
        <4> QED
          BY <4>2 DEF EscapesIn
      <3>2. d \in cuts' /\ d[1] = Len(taken)
        BY <1>4
      <3>3. c[1] + m[1] <= d[1] /\ d[1] < c[1] + m[2]
        <4>1. Len(rest) = Len(taken) - c[1] /\ c[1] \in Nat /\ Len(taken) \in Nat
          BY <1>6, <2>1, <2>2
        <4>2. c[1] + m[1] <= Len(taken) /\ Len(taken) < c[1] + m[2]
          BY <3>1, <4>1
        <4> QED
          BY <3>2, <4>2
      <3>4. m \in EscapesIn(Since(taken', c[1]))
        BY <2>2
      <3> QED
        BY <1>7, <3>2, <3>3, <3>4 DEF CutSince
    <2>6. Text(rest \o a) = Text(rest) \o Text(a)
      BY <1>2, <2>2, <2>5, TextOfPieces
    <2> QED
      BY <1>3, <1>5, <2>2, <2>3, <2>4, <2>6
  <1>8. Since(shown \o chunk', Len(shown)) = Text(Since(taken', Len(taken)))
    <2>1. Since(shown \o chunk', Len(shown)) = chunk'
      BY <1>2, <1>3, <1>5, SinceAll
    <2>2. Since(taken', Len(taken)) = a
      BY <1>2, <1>3, SinceAll
    <2> QED
      BY <1>3, <1>5, <2>1, <2>2
  <1>9. CleanUnlessCut'
    <2>1. chunk' \in Seq(Alphabet) /\ shown' \in Seq(Alphabet)
      BY <1>2, <1>3, <1>4, <1>5
    <2>2. ASSUME NEW c \in cuts', ~CutSince(c[1])', ~MissedSince(c[1])'
          PROVE  Since(shown' \o chunk', c[2]) = Text(Since(taken', c[1]))
      <3>1. CASE c \in cuts
        BY <1>4, <1>7, <2>2, <3>1
      <3>2. CASE c = d
        BY <1>4, <1>8, <3>2
      <3> QED
        BY <1>4, <3>1, <3>2
    <2> QED
      BY <2>1, <2>2 DEF CleanUnlessCut
  <1>10. \A c \in cuts' : c \in Nat \X Nat /\ c[1] < Len(taken') /\ c[2] <= Len(shown')
    <2>1. ASSUME NEW c \in cuts
          PROVE  c \in Nat \X Nat /\ c[1] < Len(taken') /\ c[2] <= Len(shown')
      <3>1. c \in Nat \X Nat /\ c[1] < Len(taken) /\ c[2] <= Len(shown)
        BY DEF FilterInv
      <3> QED
        BY <1>4, <1>6, <3>1
    <2>2. d \in Nat \X Nat /\ d[1] < Len(taken') /\ d[2] <= Len(shown')
      BY <1>4, <1>6
    <2> QED
      BY <1>4, <2>1, <2>2
  <1> QED
    BY <1>4, <1>9, <1>10 DEF FilterInv

LEMMA FilterWrites ==
  ASSUME OutTypeOK, FilterInv, OutWrites
  PROVE  FilterInv'
  <1>1. /\ chunk' = <<>> /\ outPump' = "loop" /\ UNCHANGED <<taken, cuts>>
        /\ \/ shown' = shown \o chunk /\ missed' = missed
           \/ missed' = missed \union {Len(taken)} /\ shown' = shown
    BY DEF OutWrites, WriteAt
  <1>2. /\ shown \in Seq(Alphabet) /\ chunk \in Seq(Alphabet) /\ <<>> \in Seq(Alphabet)
        /\ Len(shown) \in Nat /\ Len(chunk) \in Nat /\ Len(taken) \in Nat
        /\ shown \o chunk \in Seq(Alphabet) /\ Len(shown \o chunk) = Len(shown) + Len(chunk)
        /\ (shown \o chunk) \o <<>> = shown \o chunk
    BY SeqAlgebra DEF FilterInv, CleanUnlessCut, OutTypeOK
  <1>3. ASSUME NEW c \in cuts PROVE c \in Nat \X Nat /\ c[1] < Len(taken) /\ c[2] <= Len(shown)
    BY DEF FilterInv
  <1>4. CASE shown' = shown \o chunk /\ missed' = missed
    <2>1. ASSUME NEW c \in cuts', ~CutSince(c[1])', ~MissedSince(c[1])'
          PROVE  Since(shown' \o chunk', c[2]) = Text(Since(taken', c[1]))
      <3>1. c \in cuts /\ ~CutSince(c[1]) /\ ~MissedSince(c[1])
        BY <1>1, <1>4, <2>1 DEF CutSince, MissedSince
      <3>2. Since(shown \o chunk, c[2]) = Text(Since(taken, c[1]))
        BY <3>1 DEF FilterInv, CleanUnlessCut
      <3> QED
        BY <1>1, <1>2, <1>4, <3>2
    <2>2. CleanUnlessCut'
      BY <1>1, <1>2, <1>4, <2>1 DEF CleanUnlessCut
    <2>3. ASSUME NEW c \in cuts' PROVE c[1] < Len(taken') /\ c[2] <= Len(shown')
      <3>1. c \in Nat \X Nat /\ c[1] < Len(taken) /\ c[2] <= Len(shown)
        BY <1>1, <1>3
      <3>2. c[2] \in Nat /\ Len(shown') = Len(shown) + Len(chunk) /\ taken' = taken
        BY <1>1, <1>2, <1>4, <3>1
      <3> QED
        BY <1>2, <3>1, <3>2
    <2> QED
      BY <1>1, <1>4, <2>2, <2>3 DEF FilterInv
  <1>5. CASE missed' = missed \union {Len(taken)} /\ shown' = shown
    <2>1. \A c \in cuts' : MissedSince(c[1])'
      <3>1. ASSUME NEW c \in cuts' PROVE MissedSince(c[1])'
        <4>1. Len(taken) \in missed' /\ c[1] < Len(taken)
          BY <1>1, <1>3, <1>5
        <4> QED
          BY <4>1 DEF MissedSince
      <3> QED
        BY <3>1
    <2>2. CleanUnlessCut'
      BY <1>1, <1>2, <1>5, <2>1 DEF CleanUnlessCut
    <2> QED
      BY <1>1, <1>2, <1>3, <1>5, <2>2 DEF FilterInv
  <1> QED
    BY <1>1, <1>4, <1>5

LEMMA FilterNext ==
  ASSUME OutTypeOK, FilterInv, [Next]_vars
  PROVE  FilterInv'
  <1>1. ASSUME UNCHANGED <<taken, cuts, chunk, shown, missed>>,
               outPump = "writing" => outPump' = "writing"
        PROVE  FilterInv'
    <2>1. \A c \in cuts : /\ CutSince(c[1])' <=> CutSince(c[1])
                          /\ MissedSince(c[1])' <=> MissedSince(c[1])
      BY <1>1 DEF CutSince, MissedSince
    <2>2. /\ chunk' = chunk /\ shown' = shown /\ taken' = taken
          /\ cuts' = cuts /\ missed' = missed
      BY <1>1
    <2>3. CleanUnlessCut'
      BY <2>1, <2>2 DEF FilterInv, CleanUnlessCut
    <2>4. outPump' # "writing" => chunk' = <<>>
      BY <1>1, <2>2 DEF FilterInv
    <2> QED
      BY <2>2, <2>3, <2>4 DEF FilterInv
  <1>2. ASSUME NEW ch \in Alphabet, Writes(ch) PROVE FilterInv'
    BY <1>1, <1>2 DEF Writes
  <1>3. CASE CloseMaster
    BY <1>1, <1>3 DEF CloseMaster
  <1>4. CASE OutCallsRead
    BY <1>1, <1>4 DEF OutCallsRead
  <1>5. CASE OutReads
    BY <1>5, FilterReads
  <1>6. CASE OutFails
    BY <1>1, <1>6 DEF OutFails
  <1>7. CASE OutWrites
    BY <1>7, FilterWrites
  <1>8. CASE UNCHANGED outVars
    BY <1>1, <1>8 DEF outVars
  <1> QED
    BY <1>2, <1>3, <1>4, <1>5, <1>6, <1>7, <1>8
    DEF Next, OutPump, InPump, ShellExits, BackgroundExits, CloseSlave, Types, InReads,
        InWrites, ProxyRead, vars

-----------------------------------------------------------------------------
(* The theorems. *)

ConsoleInv == TypeOK /\ LineInv /\ OutInv /\ FilterInv

LEMMA ConsoleStart == Init => ConsoleInv
  <1> SUFFICES ASSUME Init PROVE ConsoleInv
    OBVIOUS
  <1>1. TypeOK
    <2>1. /\ <<>> \in Seq(Alphabet) /\ <<>> \in Seq(Lines) /\ <<>> \in Seq({0} \union Lines)
          /\ Len(<<>>) <= PtyCap
      BY EmptySeq, ConsoleBounds
    <2>2. /\ wrote = <<>> /\ pty = <<>> /\ taken = <<>> /\ typed = <<>> /\ cons = <<>>
          /\ input = <<>> /\ stolen = <<>> /\ dropped = <<>>
      BY DEF Init
    <2>3. /\ shell = "running" /\ background = FALSE /\ slave = TRUE /\ ptm = TRUE
          /\ cuts = {} /\ missed = {} /\ outPump = "loop" /\ inPump = "asking" /\ line = 0
      BY DEF Init
    <2> QED
      BY <2>1, <2>2, <2>3 DEF TypeOK
  <1>2. OutInv
    <2>1. wrote = (taken \o pty) \o <<>> /\ <<>> \in Seq(Alphabet) /\ Len(wrote) = 0
      BY SeqAlgebra DEF Init
    <2> QED
      BY <2>1, ConsoleBounds DEF OutInv
  <1>3. LineInv
    <2>1. LinesIn(<<>>) = {} /\ Ascends(<<>>) /\ Len(<<>>) = 0
      BY DEF LinesIn, Ascends
    <2>2. LinesIn(<<0>>) = {}
      BY OneLine DEF Marks
    <2> QED
      BY <2>1, <2>2, ConsoleBounds DEF Init, LineInv, Before
  <1> QED
    BY <1>1, <1>2, <1>3, FilterStart DEF ConsoleInv

LEMMA ConsoleHolds == Spec => []ConsoleInv
  <1>1. ConsoleInv /\ [Next]_vars => ConsoleInv'
    <2> SUFFICES ASSUME ConsoleInv, [Next]_vars PROVE ConsoleInv'
      OBVIOUS
    <2>1. InTypeOK'
      BY LineTypes DEF ConsoleInv
    <2>2. LineInv'
      BY <2>1, LineNext DEF ConsoleInv
    <2>3. OutTypeOK' /\ OutInv'
      BY OutNext DEF ConsoleInv, TypeOK, OutTypeOK
    <2>4. FilterInv'
      BY FilterNext DEF ConsoleInv, TypeOK, OutTypeOK
    <2>5. TypeOK'
      BY <2>1, <2>3, <2>4 DEF TypeOK, InTypeOK, OutTypeOK, FilterInv
    <2> QED
      BY <2>2, <2>3, <2>4, <2>5 DEF ConsoleInv
  <1> QED
    BY <1>1, ConsoleStart, PTL DEF Spec

(* In a session's terminal every line that was typed is in one place and   *)
(* the shell's lines are in order, and the output is read in order, once,  *)
(* with all that was not read still in the pty while that is open          *)
(* (pipeConsToPty, pipePtyToCons and ProxyFile of cmd/rcpud).              *)
THEOREM PumpsAreSafe == Spec => []PumpsSafe
  <1>1. ConsoleInv => PumpsSafe
    BY LinesAreOnce, OutReadsInOrder DEF ConsoleInv, PumpsSafe, TypeOK, OutTypeOK
  <1> QED
    BY <1>1, ConsoleHolds, PTL

(* From every read on, what the client's cons is given, with what the pump *)
(* is about to write, is the output without its escape sequences, however  *)
(* many more reads it takes, until a read ends inside a sequence or a      *)
(* write fails (pipePtyToCons of cmd/rcpud).                               *)
THEOREM OutputIsClean == Spec => []CleanUnlessCut
  <1>1. ConsoleInv => CleanUnlessCut
    BY DEF ConsoleInv, FilterInv
  <1> QED
    BY <1>1, ConsoleHolds, PTL

(* The steps the output pump has left once the master is closed. *)
OutRank == [gone |-> 0, loop |-> 1, writing |-> 2, reading |-> 3]

(* The deferred closes run in order, after cmd.Wait. *)
ClosesInOrder == /\ ~ptm => ~slave
                 /\ ~slave => shell = "exited"

LEMMA ClosesAreInOrder == Spec => []ClosesInOrder
  <1>1. Init => ClosesInOrder
    BY DEF Init, ClosesInOrder
  <1>2. ClosesInOrder /\ [Next]_vars => ClosesInOrder'
    BY DEF ClosesInOrder, Next, vars, shellVars, outVars, inVars, Writes, ShellExits,
       BackgroundExits, CloseSlave, CloseMaster, OutPump, OutCallsRead, OutReads, OutFails,
       OutWrites, Types, InPump, InReads, InWrites, ProxyRead
  <1> QED
    BY <1>1, <1>2, PTL DEF Spec

(* The safety half of OutputPumpEnds: once runShellPty has closed the       *)
(* master it stays closed, the slave is closed too, and no step of         *)
(* pipePtyToCons leaves it as far from its end as it was.                  *)
THEOREM OutputPumpIsEnding ==
  Spec => /\ [](~ptm => ~slave /\ shell = "exited")
          /\ [][~ptm => /\ ~ptm'
                        /\ \/ outPump' = outPump /\ ~OutPump
                           \/ OutRank[outPump'] < OutRank[outPump]]_vars
  <1>1. ClosesInOrder => (~ptm => ~slave /\ shell = "exited")
    BY DEF ClosesInOrder
  <1>2. ASSUME Next, ~ptm
        PROVE  /\ ~ptm'
               /\ \/ outPump' = outPump /\ ~OutPump
                  \/ OutRank[outPump'] < OutRank[outPump]
    <2>1. ~ptm'
      BY <1>2 DEF Next, shellVars, Writes, ShellExits, BackgroundExits, CloseSlave,
         CloseMaster, OutPump, OutCallsRead, OutReads, OutFails, OutWrites, Types, InPump,
         InReads, InWrites, ProxyRead
    <2>2. ASSUME OutPump PROVE OutRank[outPump'] < OutRank[outPump]
      <3>1. \/ outPump = "loop" /\ outPump' = "gone"
            \/ outPump = "reading" /\ outPump' \in {"writing", "gone"}
            \/ outPump = "writing" /\ outPump' = "loop"
        BY <1>2, <2>2 DEF OutPump, OutCallsRead, OutReads, OutFails, OutWrites
      <3> QED
        BY <3>1 DEF OutRank
    <2>3. ASSUME ~OutPump PROVE outPump' = outPump
      BY <1>2, <2>3 DEF Next, outVars, Writes, ShellExits, BackgroundExits, CloseSlave,
         CloseMaster, Types, InPump, InReads, InWrites, ProxyRead
    <2> QED
      BY <2>1, <2>2, <2>3
  <1>3. [Next]_vars => [~ptm => /\ ~ptm'
                               /\ \/ outPump' = outPump /\ ~OutPump
                                  \/ OutRank[outPump'] < OutRank[outPump]]_vars
    BY <1>2
  <1> QED
    BY <1>1, <1>3, ClosesAreInOrder, PTL DEF Spec
=============================================================================
