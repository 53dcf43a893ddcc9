----------------------------- MODULE CursorText -----------------------------
(***************************************************************************)
(* A pagination cursor as clients see it: the text of src/src/paginate.rs, *)
(* "tc1." and the base64url of offset, snapshot id and tag, and what       *)
(* decode() makes of a text somebody edited. Pagination takes a cursor to  *)
(* be what its bytes encode; here are the bytes and their spelling.        *)
(*                                                                         *)
(* A character is its value in the base64url alphabet; Bad stands for      *)
(* every other. SHA-256 is a table without collisions, and HMAC one of the *)
(* tags that were ever computed: a client does not guess another.          *)
(***************************************************************************)
EXTENDS Integers, Sequences, SequencesExt

CONSTANTS
  OFFSET_LEN, SNAPSHOT_LEN, TAG_LEN,  \* in bytes: 4, 8 and 16 in the code
  Lists,     \* lists of visible tool names; a name is a sequence of bytes
  Keys,      \* cursor keys
  Offsets,   \* where pages may start, as big-endian bytes
  Boundaries, \* where the pages of a key's process start behind the first, by list
  Digest,    \* SHA-256 of what the snapshot id is taken of
  Mac,       \* HMAC of each body that a key has signed
  AccSize,   \* the values of the decoder's accumulator: 2^32 in the code
  Typed,     \* the characters a client may type
  Bad,       \* a character that is not in the alphabet
  MaxEdits   \* bound: how often a text is edited

Byte == 0..255
Bytes(n) == [1..n -> Byte]

BODY_LEN == OFFSET_LEN + SNAPSHOT_LEN
RAW_LEN == BODY_LEN + TAG_LEN

ASSUME LengthsAssumption == {OFFSET_LEN, SNAPSHOT_LEN, TAG_LEN} \subseteq Nat \ {0}
ASSUME TextAssumption ==
  Bad \notin 0..63 /\ Typed \subseteq 0..63 /\ Offsets \subseteq Bytes(OFFSET_LEN) /\ Lists \subseteq Seq(Seq(Byte))
ASSUME BoundariesAssumption == Boundaries \in [Keys \X Lists -> SUBSET Offsets]
ASSUME AccAssumption == AccSize \in Nat \ {0} /\ AccSize % 4096 = 0

VARIABLES
  minted,   \* what the text was minted for: key, list, offset
  server,   \* the key and the list of the process that reads it
  prefix,   \* whether the text begins with "tc1."
  text,     \* its other characters
  edits,    \* how often it was edited
  stage,    \* being edited, being decoded, or judged
  pos,      \* how many characters are decoded
  acc,      \* the bits the decoder holds
  nbits,    \* how many of them are not in a byte yet
  raw,      \* the bytes decoded
  verdict   \* what decode() says, "none" before

decoder == <<pos, acc, nbits, raw>>
vars == <<minted, server, prefix, text, edits, stage, decoder, verdict>>

-----------------------------------------------------------------------------
(* b64url_encode: every three bytes make four characters, what is left     *)
(* makes two or three.                                                     *)

(* Mutant: the last characters are those of a whole unit. *)
PaddedLen(n) == 4 * ((n + 2) \div 3)

EncodedLen(n) == 4 * (n \div 3) + (IF n % 3 = 0 THEN 0 ELSE (n % 3) + 1)

At(bytes, i) == IF i <= Len(bytes) THEN bytes[i] ELSE 0

Unit(bytes, u) ==
  At(bytes, 3 * u + 1) * 65536 + At(bytes, 3 * u + 2) * 256 + At(bytes, 3 * u + 3)

(* How far each character of a unit is from its end. *)
Shift == <<262144, 4096, 64, 1>>

Encode(bytes) ==
  [i \in 1..EncodedLen(Len(bytes)) |->
     (Unit(bytes, (i - 1) \div 4) \div Shift[((i - 1) % 4) + 1]) % 64]

(* Mutant: the names follow each other without their lengths. *)
FrameUnprefixed(names) == <<Len(names)>> \o FlattenSeq(names)

(* snapshot_id: the lengths keep <<"ab", "c">> from looking like           *)
(* <<"a", "bc">>.                                                          *)
Frame(names) == <<Len(names)>> \o FlattenSeq([i \in DOMAIN names |-> <<Len(names[i])>> \o names[i]])

SnapshotId(names) == Digest[Frame(names)]

Body(names, offset) == offset \o SnapshotId(names)

(* Paginator::encode, before base64. *)
Raw(key, names, offset) == Body(names, offset) \o Mac[<<key, Body(names, offset)>>]

ASSUME DigestAssumption ==
  /\ \A l \in Lists : Frame(l) \in DOMAIN Digest
  /\ \A f \in DOMAIN Digest : Digest[f] \in Bytes(SNAPSHOT_LEN)
  /\ \A f, g \in DOMAIN Digest : Digest[f] = Digest[g] => f = g
ASSUME MacAssumption ==
  /\ DOMAIN Mac = Keys \X {Body(l, o) : l \in Lists, o \in Offsets}
  /\ \A s \in DOMAIN Mac : Mac[s] \in Bytes(TAG_LEN)
  /\ \A r, s \in DOMAIN Mac : Mac[r] = Mac[s] => r = s

-----------------------------------------------------------------------------
(* The client. *)

Edit ==
  /\ stage = "editing" /\ edits < MaxEdits
  /\ edits' = edits + 1
  /\ \/ /\ \E i \in DOMAIN text, c \in Typed \cup {Bad} : text' = [text EXCEPT ![i] = c]
        /\ UNCHANGED prefix
     \/ /\ text # <<>> /\ text' = Front(text)
        /\ UNCHANGED prefix
     \/ /\ \E c \in Typed : text' = Append(text, c)
        /\ UNCHANGED prefix
     \/ prefix' = FALSE /\ UNCHANGED text
  /\ UNCHANGED <<minted, server, stage, decoder, verdict>>

-----------------------------------------------------------------------------
(* Paginator::decode. *)

Judge(v) == stage' = "judged" /\ verdict' = v

Submit ==
  /\ stage = "editing"
  /\ IF ~ prefix \/ Len(text) % 4 = 1 THEN Judge("malformed")
     ELSE stage' = "decoding" /\ UNCHANGED verdict
  /\ UNCHANGED <<minted, server, prefix, text, edits, decoder>>

TakesByte(bits) == bits >= 8

(* Of the bits that may be left over after a character. *)
Pow2 == [n \in {0, 2, 4, 6} |-> CASE n = 0 -> 1 [] n = 2 -> 4 [] n = 4 -> 16 [] n = 6 -> 64]

DecodeChar ==
  /\ stage = "decoding" /\ pos < Len(text)
  /\ LET c == text[pos + 1]
         bits == nbits + 6
     IN  IF c = Bad THEN Judge("malformed") /\ UNCHANGED decoder
         ELSE /\ pos' = pos + 1
              /\ acc' = (acc * 64 + c) % AccSize
              /\ nbits' = IF TakesByte(bits) THEN bits - 8 ELSE bits
              /\ raw' = IF TakesByte(bits) THEN Append(raw, (acc' \div Pow2[nbits']) % 256) ELSE raw
              /\ UNCHANGED <<stage, verdict>>
  /\ UNCHANGED <<minted, server, prefix, text, edits>>

(* Mutant: bits that are left over are dropped. *)
AnyEnd == TRUE

(* What is left of the last character must be zero. *)
CanonicalEnd == nbits > 0 => acc % Pow2[nbits] = 0

(* The tag of this key for a body, which nobody knows unless it was signed.*)
MacOf(key, body) == IF <<key, body>> \in DOMAIN Mac THEN Mac[<<key, body>>] ELSE <<>>

Verify ==
  /\ stage = "decoding" /\ pos = Len(text)
  /\ LET body == SubSeq(raw, 1, BODY_LEN)
         tag  == SubSeq(raw, BODY_LEN + 1, RAW_LEN)
     IN  Judge(IF ~ CanonicalEnd \/ Len(raw) # RAW_LEN THEN "malformed"
               ELSE IF MacOf(server.key, body) # tag THEN "bad_mac"
               ELSE IF SubSeq(body, OFFSET_LEN + 1, BODY_LEN) # SnapshotId(server.list)
                 THEN "snapshot_mismatch"
               ELSE IF SubSeq(body, 1, OFFSET_LEN) \notin Boundaries[<<server.key, server.list>>]
                 THEN "out_of_range"
               ELSE "ok")
  /\ UNCHANGED <<minted, server, prefix, text, edits, decoder>>

Judged == stage = "judged" /\ UNCHANGED vars

Init ==
  /\ minted \in {m \in [key: Keys, list: Lists, offset: Offsets] :
                   m.offset \in Boundaries[<<m.key, m.list>>]}
  /\ server \in [key: Keys, list: Lists]
  /\ prefix = TRUE
  /\ text = Encode(Raw(minted.key, minted.list, minted.offset))
  /\ edits = 0 /\ stage = "editing"
  /\ pos = 0 /\ acc = 0 /\ nbits = 0 /\ raw = <<>>
  /\ verdict = "none"

Next == Edit \/ Submit \/ DecodeChar \/ Verify \/ Judged

Spec == Init /\ [][Next]_vars

-----------------------------------------------------------------------------
(* Properties. *)

(* "Any edit, truncation, cross-session reuse, or restart-stale cursor     *)
(* fails verification": a text that is accepted is, character by           *)
(* character, one that a process with this key mints for this very list.   *)
OnlyMintedTexts ==
  verdict = "ok" =>
    /\ edits = 0 => minted.list = server.list /\ minted.key = server.key
    /\ \E offset \in Boundaries[<<server.key, server.list>>] :
         prefix /\ text = Encode(Raw(server.key, server.list, offset))

(* A text that reaches the process that minted it unharmed, or another     *)
(* with the same key and list, decodes to the bytes that were encoded.     *)
MintedTextsDecode ==
  stage = "judged" /\ edits = 0 /\ minted.key = server.key /\ minted.list = server.list =>
    verdict = "ok" /\ raw = Raw(minted.key, minted.list, minted.offset)

=============================================================================
