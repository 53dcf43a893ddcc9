---------------------------- MODULE MCCursorText ----------------------------
(* A small instance of CursorText for TLC: lists whose names run together   *)
(* to the same bytes, offsets and snapshot ids of a byte and tags of two,   *)
(* at the edges of a byte. Like the 28 of the code, the 4 bytes of a cursor *)
(* leave one over behind the last three.                                    *)
EXTENDS CursorText, TLC

MCLists == {<<<<97, 98>>, <<99>>>>, <<<<97>>, <<98, 99>>>>, <<<<97>>, <<98>>, <<99>>>>}

(* Every way of framing the lists has its number. *)
Framed ==
  {Frame(l) : l \in MCLists} \cup {<<Len(l)>> \o FlattenSeq(l) : l \in MCLists}

MCDigest == LET s == SetToSeq(Framed) IN [f \in Framed |-> <<(85 * (CHOOSE i \in DOMAIN s : s[i] = f)) % 256>>]

MCOffsets == {<<1>>, <<2>>}

(* A process with key k shows pages of k tools. *)
MCBoundaries ==
  [p \in Keys \X Lists |-> {<<o>> : o \in {o \in 1..(Len(p[2]) - 1) : o % p[1] = 0}}]

Signed == Keys \X {Body(l, o) : l \in Lists, o \in Offsets}

MCMac == [x \in Signed |-> <<(64 * x[1] + 7 * x[2][1]) % 256, (255 * x[2][2]) % 256>>]

MCTyped == {0, 1, 4, 15, 16, 32, 48, 63}
=============================================================================
