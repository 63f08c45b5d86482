------------------------------ MODULE DrawKbd -------------------------------
(***************************************************************************)
(* The keyboard of the draw server (drawsrv.go): connections on which scan *)
(* codes arrive, four bytes each, and the virtual keyboard they share.     *)
(* handleKbd takes what one Read returns for a code, whole or not.         *)
(*                                                                         *)
(* A code is its bytes, the lowest first, and may be any number they make. *)
(***************************************************************************)
EXTENDS Naturals, Sequences

CONSTANTS
  Keyboards,        \* keyboard connections
  Codes,            \* bound: the codes they send, each as its bytes
  CodeLen,          \* bytes of a code (4)
  MaxCodes          \* bound: codes sent on one connection

Bytes == 0 .. 255

ASSUME KbdBounds == CodeLen \in Nat \ {0} /\ MaxCodes \in Nat
ASSUME CodesAreBytes == Codes \subseteq [1 .. CodeLen -> Bytes]

VARIABLES
  kbd,              \* kbd[k]: where k's goroutine stands
  codes,            \* history: codes[k]: the codes k's client sent
  stream,           \* stream[k]: their bytes that were not read
  h,                \* h[k]: the goroutine's buffer
  torn,             \* torn[k]: a code arrived in pieces
  pressed,          \* the keys the device holds down
  synced            \* whether what it was told was followed by a synchronisation

kbdVars == <<kbd, codes, stream, h, torn, pressed, synced>>

(* The keys the device has, which are their own codes. *)
p9k == (1 .. 58) \union {97, 100} \union (102 .. 111)

KbdInit ==
  /\ kbd = [k \in Keyboards |-> "read"]
  /\ codes = [k \in Keyboards |-> <<>>]
  /\ stream = [k \in Keyboards |-> <<>>]
  /\ h = [k \in Keyboards |-> [i \in 1 .. CodeLen |-> 0]]
  /\ torn = [k \in Keyboards |-> FALSE]
  /\ pressed = {}
  /\ synced = TRUE

-----------------------------------------------------------------------------
(* The client. *)

SendCode(k) ==
  /\ kbd[k] # "closed"
  /\ Len(codes[k]) < MaxCodes
  /\ \E sc \in Codes :
       /\ codes' = [codes EXCEPT ![k] = Append(@, sc)]
       /\ stream' = [stream EXCEPT ![k] = @ \o sc]
  /\ UNCHANGED <<kbd, h, torn, pressed, synced>>

(* The client goes away; the device is not told. *)
KbdHangup(k) ==
  /\ kbd[k] = "read"
  /\ kbd' = [kbd EXCEPT ![k] = "closed"]
  /\ UNCHANGED <<codes, stream, h, torn, pressed, synced>>

-----------------------------------------------------------------------------
(* handleKbd. *)

(* Read returns some of what is there; the rest of h is what it was. *)
ReadCode(k) ==
  /\ kbd[k] = "read"
  /\ \E n \in 1 .. CodeLen :
       /\ n <= Len(stream[k])
       /\ stream' = [stream EXCEPT ![k] = SubSeq(@, n + 1, Len(@))]
       /\ h' = [h EXCEPT ![k] = SubSeq(stream[k], 1, n) \o SubSeq(@, n + 1, CodeLen)]
       /\ torn' = [torn EXCEPT ![k] = @ \/ n < CodeLen]
  /\ kbd' = [kbd EXCEPT ![k] = "key"]
  /\ UNCHANGED <<codes, pressed, synced>>

(* Mutant: the bytes are taken in the other order. *)
SaysCodeSwapped(b) == \A i \in 1 .. CodeLen - 1 : b[i] = 0

(* The buffer says a number below 256. *)
SaysCode(b) == \A i \in 2 .. CodeLen : b[i] = 0

(* A key's own code is its press, 128 more its release; Key ignores others. *)
NamesKey(b) == SaysCode(b) /\ b[1] % 128 \in p9k

(* Mutant: presses and releases are mistaken for each other. *)
KeySwapped(sc) == IF sc >= 128 THEN pressed \union {sc - 128} ELSE pressed \ {sc}

Key(sc) == IF sc < 128 THEN pressed \union {sc} ELSE pressed \ {sc - 128}

(* The event, after which a synchronisation is due; or nothing. *)
InjectKey(k) ==
  /\ kbd[k] = "key"
  /\ IF NamesKey(h[k])
       THEN /\ pressed' = Key(h[k][1])
            /\ synced' = FALSE
            /\ kbd' = [kbd EXCEPT ![k] = "sync"]
       ELSE /\ kbd' = [kbd EXCEPT ![k] = "read"]
            /\ UNCHANGED <<pressed, synced>>
  /\ UNCHANGED <<codes, stream, h, torn>>

sync(k) ==
  /\ kbd[k] = "sync"
  /\ synced' = TRUE
  /\ kbd' = [kbd EXCEPT ![k] = "read"]
  /\ UNCHANGED <<codes, stream, h, torn, pressed>>

handleKbd(k) == ReadCode(k) \/ InjectKey(k) \/ sync(k)

KbdNext == \E k \in Keyboards : SendCode(k) \/ KbdHangup(k) \/ handleKbd(k)

-----------------------------------------------------------------------------
(* Properties. *)

(* Every variable keeps to its type; only keys the device has are down. *)
KbdTypeOK ==
  /\ kbd \in [Keyboards -> {"read", "key", "sync", "closed"}]
  /\ codes \in [Keyboards -> Seq(Codes)]
  /\ stream \in [Keyboards -> Seq(Bytes)]
  /\ h \in [Keyboards -> [1 .. CodeLen -> Bytes]]
  /\ torn \in [Keyboards -> BOOLEAN]
  /\ pressed \subseteq p9k
  /\ synced \in BOOLEAN

(* The code whose number is n, below 256. *)
Code(n) == [i \in 1 .. CodeLen |-> IF i = 1 THEN n ELSE 0]

(* The keys that are down after a sequence of codes, which may be others   *)
(* than keys have.                                                         *)
DownAfter(scs) ==
  {key \in p9k : \E i \in DOMAIN scs :
     /\ scs[i] = Code(key)
     /\ \A j \in i + 1 .. Len(scs) : scs[j] # Code(key + 128)}

(* When everything a lone keyboard sent, never in pieces, has been read,   *)
(* the keys that are down are those it pressed and did not release, and    *)
(* the device has reported them.                                           *)
KeysFollow ==
  \A k \in Keyboards :
    /\ \A j \in Keyboards : codes[j] = <<>> <=> j # k
    /\ ~torn[k] /\ stream[k] = <<>> /\ kbd[k] = "read"
    => pressed = DownAfter(codes[k]) /\ synced

(* A key is down only if a client pressed it, or codes of a client arrived *)
(* in pieces and a byte of one of them, which need not be the code of a    *)
(* key, is the key's number.                                               *)
NoGhostKeys ==
  \A key \in pressed : \E k \in Keyboards : \E i \in DOMAIN codes[k] :
    \/ codes[k][i] = Code(key)
    \/ torn[k] /\ \E j \in 1 .. CodeLen : codes[k][i][j] = key

(* Types, and the above. *)
KeysSafe == KbdTypeOK /\ NoGhostKeys
=============================================================================
