----------------------------- MODULE ByteStore -----------------------------
(***************************************************************************)
(* What mc_access.h promises to its callers: the card as an array of bytes. *)
(* One call at a time stores given bytes at consecutive addresses, or       *)
(* fetches them, in one or several steps from the first to the last.  A     *)
(* call that fails has done the first part of its work and nothing else.    *)
(* Meanwhile the firmware stores single bytes of its own.                  *)
(***************************************************************************)
EXTENDS Integers

CONSTANTS
    CardBytes,      \* size of the card
    Tag,            \* names of what is stored
    Blank           \* what the card holds at first

Addr == 0 .. CardBytes - 1

\* Byte i of what a caller, or the firmware, stores
Byte(t, i) == <<t, i>>

VARIABLES
    card,       \* the bytes
    op,         \* the call in progress: "write", "read" or "none"
    at,         \* its first address
    tag,        \* the bytes to be stored
    len,        \* how many
    todo,       \* how many of them are left
    dst,        \* the bytes fetched so far
    result      \* of the last call

vars == <<card, op, at, tag, len, todo, dst, result>>

Init ==
    /\ card = [a \in Addr |-> Byte(Blank, 0)]
    /\ op = "none" /\ at = 0 /\ tag = Blank /\ len = 0 /\ todo = 0
    /\ dst = << >> /\ result = "none"

\* A call of n bytes at address a
Begin(o, a, n, t) ==
    /\ op = "none"
    /\ op' = o /\ at' = a /\ tag' = t /\ len' = n /\ todo' = n
    /\ dst' = << >> /\ result' = "none"
    /\ UNCHANGED card

\* The bytes handled when k more of them are
Piece(k) == at + (len - todo) .. at + (len - todo) + k - 1

Stored(k) == [a \in Addr |-> IF a \in Piece(k) THEN Byte(tag, a - at) ELSE card[a]]

StorePiece ==
    /\ op = "write"
    /\ \E k \in 1 .. todo : todo' = todo - k /\ card' = Stored(k)
    /\ UNCHANGED <<op, at, tag, len, dst, result>>

FetchPiece ==
    /\ op = "read"
    /\ \E k \in 1 .. todo :
        /\ todo' = todo - k
        /\ dst' = [i \in 0 .. len - todo + k - 1 |->
                      IF i < len - todo THEN dst[i] ELSE card[at + i]]
    /\ UNCHANGED <<card, op, at, tag, len, result>>

Succeed ==
    /\ op # "none" /\ todo = 0
    /\ op' = "none" /\ result' = "ok"
    /\ UNCHANGED <<card, at, tag, len, todo, dst>>

Fail ==
    /\ op # "none"
    /\ op' = "none" /\ result' = "failed"
    /\ \/ UNCHANGED card
       \/ op = "write" /\ \E k \in 1 .. todo : card' = Stored(k)
    /\ UNCHANGED <<at, tag, len, todo, dst>>

\* A store of the firmware
FwStore ==
    /\ \E a \in Addr, t \in Tag : card' = [card EXCEPT ![a] = Byte(t, 0)]
    /\ UNCHANGED <<op, at, tag, len, todo, dst, result>>

Next ==
    \/ \E a \in Addr, n \in 1 .. CardBytes, o \in {"write", "read"}, t \in Tag \union {Blank} :
        a + n <= CardBytes /\ Begin(o, a, n, t)
    \/ StorePiece \/ FetchPiece
    \/ Succeed \/ Fail
    \/ FwStore

Spec == Init /\ [][Next]_vars
=============================================================================
