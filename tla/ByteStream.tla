----------------------------- MODULE ByteStream -----------------------------
(***************************************************************************)
(* What an output stream over a fixed-size device promises its caller: the *)
(* device's content as the caller sees it through the stream, and a write  *)
(* position.  No sectors and no cache.                                     *)
(*                                                                         *)
(*  - Write stores bytes at the position and advances it. A write that     *)
(*    runs past the end of the device stores only a prefix, one that fits. *)
(*  - Seek moves the position anywhere from 0 to Size.                     *)
(*  - Fail is a call that the device failed. It may change only the bytes  *)
(*    this call was asked to write, and it may advance the position over   *)
(*    them. Bytes accepted earlier stay as they are.                       *)
(*  - Open starts at position 0, and Close keeps the content.              *)
(*                                                                         *)
(* BlkOutStream is shown to implement this module.                         *)
(***************************************************************************)
EXTENDS Integers, Sequences

CONSTANTS
    Size,       \* bytes in the device
    Bytes,      \* the values a byte may hold
    MaxLen      \* longest buffer a caller writes in one call

VARIABLES content, pos, isOpen

vars == <<content, pos, isOpen>>

Pos == 0..(Size - 1)

TypeOK ==
    /\ content \in [Pos -> Bytes]
    /\ pos \in 0..Size
    /\ isOpen \in BOOLEAN

\* c with the bytes of seq bs stored from position p on.
Overlay(c, p, bs) ==
    [i \in DOMAIN c |-> IF p <= i /\ i < p + Len(bs) THEN bs[i - p + 1] ELSE c[i]]

Init ==
    /\ content \in [Pos -> Bytes]
    /\ pos = 0
    /\ isOpen = FALSE

Open ==
    /\ ~isOpen
    /\ isOpen' = TRUE
    /\ pos' = 0
    /\ UNCHANGED content

\* Writing bs stores its first k bytes, and k is all of them unless the
\* write runs past the end of the device.
Write(bs) ==
    /\ isOpen
    /\ \E k \in 0..Len(bs) :
          /\ k = Len(bs) \/ pos + Len(bs) > Size
          /\ pos + k <= Size
          /\ content' = Overlay(content, pos, SubSeq(bs, 1, k))
          /\ pos' = pos + k
    /\ UNCHANGED isOpen

Fail(len) ==
    /\ isOpen
    /\ \A i \in Pos : (i < pos \/ i >= pos + len) => content'[i] = content[i]
    /\ pos' \in pos..(pos + len)
    /\ UNCHANGED isOpen

Seek(p) ==
    /\ isOpen
    /\ p \in 0..Size
    /\ pos' = p
    /\ UNCHANGED <<content, isOpen>>

Close ==
    /\ isOpen
    /\ isOpen' = FALSE
    /\ pos' = 0
    /\ UNCHANGED content

Next ==
    \/ Open
    \/ \E n \in 1..MaxLen : \E bs \in [1..n -> Bytes] : Write(bs)
    \/ \E n \in 1..MaxLen : Fail(n)
    \/ \E p \in 0..Size : Seek(p)
    \/ Close

Spec == Init /\ [][Next]_vars

=============================================================================
