--------------------------- MODULE TranscriptProofs ---------------------------
(***************************************************************************)
(* Theorems about Transcript, for any pieces, budgets and outputs.         *)
(***************************************************************************)
EXTENDS Transcript, ListTheorems

LEMMA TextIsPiece ==
  ASSUME NEW n \in Nat \ {0}
  PROVE  Text(n) \in Piece
BY DEF Text, Piece

(* The pipe never takes more than it has room for. *)
LEMMA FittingFits ==
  ASSUME NEW piece \in Piece, NEW room \in Nat
  PROVE  Fitting(piece, room) \in Seq(Piece)
<1>1. CASE piece.size <= room
  BY <1>1 DEF Fitting
<1>2. CASE ~ (piece.size <= room) /\ room > 0
  BY <1>2, TextIsPiece DEF Fitting
<1>3. CASE ~ (piece.size <= room) /\ ~ (room > 0)
  BY <1>3 DEF Fitting
<1>4. QED
  BY <1>1, <1>2, <1>3

-----------------------------------------------------------------------------
(* What is typed. Of its own the guest only prints, so nothing is scanned  *)
(* before it has ended.                                                    *)
Typed ==
  /\ TypeOK
  /\ stage = "guest" => pos = 0 /\ line = {} /\ found = 0 /\ garbage = 0 /\ rpc = 0

LEMMA MatchTyped ==
  ASSUME Typed
  PROVE  Match(line) \in 0..pos
<1>1. CASE found = 0 /\ IsObject(line)
  <2>1. PICK i \in line : line = {i}
    BY <1>1 DEF IsObject
  <2>2. Place(line) = i
    BY <2>1 DEF Place
  <2>3. QED
    BY <1>1, <2>1, <2>2 DEF Match, Typed, TypeOK
<1>2. CASE ~ (found = 0 /\ IsObject(line))
  BY <1>2 DEF Match, Typed, TypeOK
<1>3. QED
  BY <1>1, <1>2

LEMMA TypedStep ==
  ASSUME Typed, [Next]_vars
  PROVE  Typed'
<1> USE DEF Typed
<1>1. ASSUME NEW piece \in Pieces, Emit(piece) PROVE Typed'
  <2>1. piece \in Piece /\ StdoutCap \in Nat /\ bytes \in 0..StdoutCap /\ piece.size \in Nat
    BY PiecesAssumption, BytesAssumption DEF TypeOK, StdoutCap, Piece
  <2>2. StdoutCap - bytes \in Nat
    BY <2>1
  <2>3. /\ stage = "guest" /\ stage' = stage /\ scan' = scan /\ exit' = exit
        /\ pos' = pos /\ line' = line /\ found' = found /\ garbage' = garbage /\ rpc' = rpc
        /\ printed' = Append(printed, piece)
        /\ stdout' = stdout \o Fitting(piece, StdoutCap - bytes)
        /\ bytes' = IF bytes + piece.size <= StdoutCap THEN bytes + piece.size ELSE StdoutCap
    BY <1>1 DEF Emit, scanner
  <2>4. stdout' \in Seq(Piece) /\ printed' \in Seq(Piece)
    BY <2>1, <2>2, <2>3, FittingFits DEF TypeOK
  <2>5. bytes' \in 0..StdoutCap
    BY <2>1, <2>3
  <2>6. pos' \in 0..Len(stdout')
    BY <2>3, <2>4
  <2>7. QED
    BY <2>3, <2>4, <2>5, <2>6 DEF TypeOK
<1>2. ASSUME NEW kind \in Exits, End(kind) PROVE Typed'
  BY <1>2 DEF End, scanner, TypeOK
<1>3. CASE ScanPiece
  <2>1. /\ stage = "scanning" /\ stage' = stage /\ scan' = scan /\ exit' = exit /\ bytes' = bytes
        /\ printed' = printed /\ stdout' = stdout /\ pos' = pos + 1 /\ pos < Len(stdout)
    BY <1>3 DEF ScanPiece
  <2>2. pos' \in 0..Len(stdout)
    BY <2>1 DEF TypeOK
  <2>3. /\ found' \in {found, Match(line)}
        /\ garbage' \in {garbage, garbage + 1} /\ rpc' \in {rpc, rpc + 1}
        /\ line' \in {line, {}, line \cup {pos + 1}}
    BY <1>3 DEF ScanPiece, ParseLine
  <2>4. found' \in 0..pos' /\ line' \subseteq 1..pos' /\ garbage' \in Nat /\ rpc' \in Nat
    BY <2>1, <2>3, MatchTyped DEF TypeOK
  <2>5. QED
    BY <2>1, <2>2, <2>4 DEF TypeOK
<1>4. CASE ScanEnd
  <2>1. /\ stage' = "scanned" /\ scan' = scan /\ exit' = exit /\ bytes' = bytes
        /\ printed' = printed /\ stdout' = stdout /\ pos' = pos /\ line' = {}
    BY <1>4 DEF ScanEnd
  <2>2. /\ found' = Match(line)
        /\ garbage' \in {garbage, garbage + 1} /\ rpc' \in {rpc, rpc + 1}
    BY <1>4 DEF ScanEnd, ParseLine
  <2>3. QED
    BY <2>1, <2>2, MatchTyped DEF TypeOK
<1>5. CASE Conclude
  BY <1>5 DEF Conclude, scanner, TypeOK
<1>6. CASE Done \/ UNCHANGED vars
  BY <1>6 DEF Done, vars, scanner, TypeOK
<1>7. CASE Abandon
  <2>1. <<>> \in Seq(Piece) /\ Len(<<>>) = 0 /\ StdoutCap \in Nat
    BY BytesAssumption DEF StdoutCap
  <2>2. /\ scan' = scan /\ stage' = "scanning" /\ printed' = printed /\ stdout' = <<>> /\ bytes' = 0
        /\ exit' = "abandoned" /\ pos' = 0 /\ line' = {} /\ found' = 0 /\ garbage' = 0 /\ rpc' = 0
    BY <1>7 DEF Abandon, scanner
  <2>3. QED
    BY <2>1, <2>2 DEF TypeOK, StdoutCap
<1>8. QED
  BY <1>1, <1>2, <1>3, <1>4, <1>5, <1>6, <1>7 DEF Next

-----------------------------------------------------------------------------
(* Lines. A piece is closed when the newline behind it was scanned.        *)
Newline(i) == stdout[i].form = "newline"
Solid(i) == stdout[i].form \in {"text", "object"}
Closed(i, p) == \E k \in (i + 1)..p : Newline(k)

(* The piece behind the scanned part ends the line: it is a newline, or    *)
(* there is none.                                                          *)
LineEnds == pos = Len(stdout) \/ (pos < Len(stdout) /\ Newline(pos + 1))

OpenLine == {i \in 1..pos : Solid(i) /\ ~ Closed(i, pos)}

(* At the end of a line, an object has it for itself exactly when nothing  *)
(* else is in it.                                                          *)
LEMMA AloneIsAlone ==
  ASSUME stdout \in Seq(Piece), pos \in 0..Len(stdout), LineEnds, NEW i \in OpenLine
  PROVE  Alone(stdout, i) <=> (OpenLine = {i} /\ stdout[i].form = "object")
<1>1. i \in 1..pos /\ Solid(i) /\ ~ Closed(i, pos) /\ DOMAIN stdout = 1..Len(stdout)
  BY DEF OpenLine
<1>2. ASSUME Alone(stdout, i), NEW j \in OpenLine, j # i PROVE FALSE
  <2>1. j \in 1..pos /\ Solid(j) /\ ~ Closed(j, pos)
    BY <1>2 DEF OpenLine
  <2>2. SameLine(stdout, i, j)
    <3>1. ASSUME NEW k \in (i..j) \cup (j..i), Newline(k) PROVE FALSE
      <4>1. k # i /\ k # j
        BY <1>1, <2>1, <3>1 DEF Solid, Newline
      <4>2. k \in (i + 1)..pos \/ k \in (j + 1)..pos
        BY <1>1, <2>1, <4>1
      <4>3. QED
        BY <1>1, <2>1, <3>1, <4>2 DEF Closed
    <3>2. QED
      BY <3>1 DEF SameLine, Newline
  <2>3. QED
    BY <1>1, <1>2, <2>1, <2>2 DEF Alone, Solid
<1>3. ASSUME OpenLine = {i}, stdout[i].form = "object", NEW j \in DOMAIN stdout \ {i},
             SameLine(stdout, i, j), stdout[j].form # "space"
      PROVE  FALSE
  <2>1. j \in 1..Len(stdout) /\ \A k \in (i..j) \cup (j..i) : ~ Newline(k)
    BY <1>1, <1>3 DEF SameLine, Newline
  <2>2. j \in 1..pos
    <3>1. CASE j > pos
      <4>1. pos + 1 \in i..j /\ pos < Len(stdout)
        BY <1>1, <2>1, <3>1
      <4>2. QED
        BY <2>1, <4>1 DEF LineEnds
    <3>2. QED
      BY <2>1, <3>1
  <2>3. Solid(j)
    <3>1. j \in (i..j) \cup (j..i) /\ stdout[j] \in Piece
      BY <1>1, <2>1
    <3>2. QED
      BY <1>3, <2>1, <3>1 DEF Solid, Newline, Piece
  <2>4. ASSUME NEW k \in (j + 1)..pos, Newline(k) PROVE FALSE
    <3>1. k \in (i + 1)..pos \/ k \in (i..j) \cup (j..i)
      BY <1>1, <2>2, <2>4
    <3>2. QED
      BY <1>1, <2>1, <2>4, <3>1 DEF Closed
  <2>5. j \in OpenLine
    BY <2>2, <2>3, <2>4 DEF OpenLine, Closed
  <2>6. QED
    BY <1>3, <2>5
<1>4. QED
  BY <1>1, <1>2, <1>3 DEF Alone

(* In a line with a solid piece exactly one piece opens it.                *)
LEMMA OneOpens ==
  ASSUME stdout \in Seq(Piece), pos \in 0..Len(stdout),
         NEW i \in OpenLine, NEW j \in OpenLine, OpensLine(i), OpensLine(j)
  PROVE  i = j
<1>1. ASSUME NEW a \in OpenLine, NEW b \in OpenLine, OpensLine(b), a < b PROVE FALSE
  <2>1. a \in 1..pos /\ b \in 1..pos /\ Solid(a) /\ Solid(b) /\ ~ Closed(a, pos)
    BY DEF OpenLine
  <2>2. ASSUME NEW k \in (a..b) \cup (b..a), Newline(k) PROVE FALSE
    <3>1. k # a
      BY <2>1, <2>2 DEF Solid, Newline
    <3>2. k \in (a + 1)..pos
      BY <1>1, <2>1, <3>1
    <3>3. QED
      BY <2>1, <2>2, <3>2 DEF Closed
  <2>3. SameLine(stdout, a, b) /\ a \in 1..(b - 1)
    BY <1>1, <2>1, <2>2 DEF SameLine, Newline
  <2>4. QED
    BY <1>1, <2>1, <2>3 DEF OpensLine, Solid
<1>2. i \in Int /\ j \in Int
  BY DEF OpenLine
<1>3. QED
  BY <1>1, <1>2

-----------------------------------------------------------------------------
(* The inductive invariant of the scan, p pieces into the output: the      *)
(* solid pieces of the line that is being read, the first answer of the    *)
(* lines that are closed, and what was counted of these.                   *)
ClosedOnes(S, p) == {i \in S : i \in 1..p /\ Closed(i, p)}

FirstOf(f, S) == IF S = {} THEN f = 0 ELSE f \in S /\ \A i \in S : f <= i

AloneOnes == {i \in DOMAIN stdout : Alone(stdout, i)}
Openers == {i \in DOMAIN stdout : OpensLine(i)}
Wanted == Answers(stdout, scan.want)

Scanning ==
  stage \in {"guest", "scanning"} =>
    /\ line = OpenLine
    /\ line # {} => \E i \in line : OpensLine(i)
    /\ FirstOf(found, ClosedOnes(Wanted, pos))
    /\ rpc = Cardinality(ClosedOnes(AloneOnes, pos))
    /\ garbage + rpc = Cardinality(ClosedOnes(Openers, pos))

Scanned ==
  stage = "scanned" =>
    /\ FirstOf(found, Wanted)
    /\ rpc = Cardinality(AloneOnes)
    /\ garbage + rpc = Cardinality(Openers)

(* What closing the line that is being read adds to the closed ones of S.  *)
LEMMA LineCloses ==
  ASSUME stdout \in Seq(Piece), pos \in 0..Len(stdout), NEW S, S \subseteq DOMAIN stdout,
         \A i \in S : Solid(i)
  PROVE  /\ pos < Len(stdout) /\ Newline(pos + 1) =>
              ClosedOnes(S, pos + 1) = ClosedOnes(S, pos) \cup (S \cap OpenLine)
         /\ pos = Len(stdout) => S = ClosedOnes(S, pos) \cup (S \cap OpenLine)
         /\ ClosedOnes(S, pos) \cap OpenLine = {}
         /\ pos < Len(stdout) /\ ~ Newline(pos + 1) => ClosedOnes(S, pos + 1) = ClosedOnes(S, pos)
         /\ IsFiniteSet(ClosedOnes(S, pos))
<1>1. DOMAIN stdout = 1..Len(stdout) /\ Len(stdout) \in Nat
  OBVIOUS
<1>2. ASSUME pos < Len(stdout), Newline(pos + 1)
      PROVE  ClosedOnes(S, pos + 1) = ClosedOnes(S, pos) \cup (S \cap OpenLine)
  <2>1. ASSUME NEW i \in ClosedOnes(S, pos + 1) PROVE i \in ClosedOnes(S, pos) \cup (S \cap OpenLine)
    <3>1. i \in S /\ i \in 1..(pos + 1) /\ Solid(i)
      BY DEF ClosedOnes
    <3>2. i \in 1..pos
      BY <1>2, <3>1 DEF Solid, Newline
    <3>3. QED
      BY <3>1, <3>2 DEF ClosedOnes, OpenLine
  <2>2. ASSUME NEW i \in S, i \in 1..pos PROVE i \in ClosedOnes(S, pos + 1)
    <3>1. i \in 1..(pos + 1) /\ pos + 1 \in (i + 1)..(pos + 1)
      BY <2>2
    <3>2. QED
      BY <1>2, <3>1 DEF ClosedOnes, Closed
  <2>3. ClosedOnes(S, pos) \cup (S \cap OpenLine) \subseteq {i \in S : i \in 1..pos}
    BY DEF ClosedOnes, OpenLine
  <2>4. QED
    BY <2>1, <2>2, <2>3
<1>3. ASSUME pos = Len(stdout) PROVE S = ClosedOnes(S, pos) \cup (S \cap OpenLine)
  BY <1>1, <1>3 DEF ClosedOnes, OpenLine
<1>4. ClosedOnes(S, pos) \cap OpenLine = {}
  BY DEF ClosedOnes, OpenLine
<1>5. ASSUME pos < Len(stdout), ~ Newline(pos + 1)
      PROVE  ClosedOnes(S, pos + 1) = ClosedOnes(S, pos)
  <2>1. ASSUME NEW i \in 1..(pos + 1) PROVE Closed(i, pos + 1) <=> (i \in 1..pos /\ Closed(i, pos))
    <3>1. ASSUME NEW k \in (i + 1)..(pos + 1), Newline(k) PROVE k \in (i + 1)..pos /\ i \in 1..pos
      BY <1>5, <3>1
    <3>2. ASSUME NEW k \in (i + 1)..pos PROVE k \in (i + 1)..(pos + 1)
      OBVIOUS
    <3>3. QED
      BY <3>1, <3>2 DEF Closed
  <2>2. 1..pos \subseteq 1..(pos + 1)
    OBVIOUS
  <2>3. QED
    BY <2>1, <2>2 DEF ClosedOnes
<1>6. IsFiniteSet(ClosedOnes(S, pos))
  <2>1. ClosedOnes(S, pos) \subseteq 1..Len(stdout) /\ IsFiniteSet(1..Len(stdout))
    BY <1>1, FS_Interval DEF ClosedOnes
  <2>2. QED
    BY <2>1, FS_Subset
<1>7. QED
  BY <1>2, <1>3, <1>4, <1>5, <1>6

(* What is counted and looked for are solid pieces. *)
LEMMA SolidOnes ==
  /\ AloneOnes \subseteq DOMAIN stdout /\ \A i \in AloneOnes : Solid(i)
  /\ Openers \subseteq DOMAIN stdout /\ \A i \in Openers : Solid(i)
  /\ Wanted \subseteq AloneOnes
BY DEF AloneOnes, Openers, Wanted, Answers, Alone, OpensLine, Solid

(* An object alone in its line. *)
LEMMA ObjectLine ==
  ASSUME stdout \in Seq(Piece), pos \in 0..Len(stdout), LineEnds, line = OpenLine
  PROVE  /\ IsObject(line) => /\ line = {Place(line)} /\ AloneOnes \cap OpenLine = {Place(line)}
                              /\ Place(line) \in 1..pos
         /\ ~ IsObject(line) => AloneOnes \cap OpenLine = {}
<1>1. OpenLine \subseteq 1..pos /\ 1..pos \subseteq DOMAIN stdout
  BY DEF OpenLine
<1>2. ASSUME IsObject(line)
      PROVE  line = {Place(line)} /\ AloneOnes \cap OpenLine = {Place(line)} /\ Place(line) \in 1..pos
  <2>1. PICK i \in line : line = {i} /\ stdout[i].form = "object"
    BY <1>2 DEF IsObject
  <2>2. Place(line) = i
    BY <2>1 DEF Place
  <2>3. Alone(stdout, i)
    BY <2>1, AloneIsAlone
  <2>4. QED
    BY <1>1, <2>1, <2>2, <2>3 DEF AloneOnes
<1>3. ASSUME NEW i \in AloneOnes \cap OpenLine PROVE IsObject(line)
  <2>1. OpenLine = {i} /\ stdout[i].form = "object"
    BY <1>3, AloneIsAlone DEF AloneOnes
  <2>2. QED
    BY <2>1 DEF IsObject
<1>4. QED
  BY <1>2, <1>3

(* At the end of a line the first answer is known of one line more.        *)
LEMMA AnswerCloses ==
  ASSUME stdout \in Seq(Piece), pos \in 0..Len(stdout), found \in 0..pos, LineEnds, line = OpenLine,
         FirstOf(found, ClosedOnes(Wanted, pos))
  PROVE  FirstOf(Match(line), ClosedOnes(Wanted, pos) \cup (Wanted \cap OpenLine))
<1> DEFINE Old == ClosedOnes(Wanted, pos)
           New == Wanted \cap OpenLine
<1>1. Old \subseteq 1..pos /\ \A i \in Old : Closed(i, pos)
  BY DEF ClosedOnes
<1>2. Old = {} <=> found = 0
  BY <1>1 DEF FirstOf
<1>3. New # {} => IsObject(line) /\ New = {Place(line)} /\ Place(line) \in 1..pos
  BY SolidOnes, ObjectLine
<1>4. ASSUME IsObject(line)
      PROVE  Place(line) \in New <=> (stdout[Place(line)].id = scan.want /\ stdout[Place(line)].has # {})
  <2>1. Place(line) \in AloneOnes /\ Place(line) \in OpenLine
    BY <1>4, ObjectLine
  <2>2. QED
    BY <2>1 DEF AloneOnes, Wanted, Answers
<1>5. CASE found # 0
  <2>1. Match(line) = found
    BY <1>5 DEF Match
  <2>2. ASSUME NEW i \in New PROVE found <= i
    <3>1. i \in 1..pos /\ ~ Closed(i, pos) /\ found \in 1..pos
      BY <1>2, <1>5 DEF OpenLine
    <3>2. Closed(found, pos)
      BY <1>1, <1>2, <1>5 DEF FirstOf
    <3>3. ASSUME i < found PROVE \A k \in (found + 1)..pos : k \in (i + 1)..pos
      BY <3>1, <3>3
    <3>4. QED
      BY <3>1, <3>2, <3>3 DEF Closed
  <2>3. QED
    BY <1>2, <1>5, <2>1, <2>2 DEF FirstOf
<1>6. CASE found = 0 /\ New = {}
  <2>1. Match(line) = 0
    BY <1>4, <1>6 DEF Match
  <2>2. QED
    BY <1>2, <1>6, <2>1 DEF FirstOf
<1>7. CASE found = 0 /\ New # {}
  <2>1. Match(line) = Place(line)
    BY <1>3, <1>4, <1>7 DEF Match
  <2>2. Old \cup New = {Place(line)}
    BY <1>2, <1>3, <1>7
  <2>3. QED
    BY <1>3, <1>7, <2>1, <2>2 DEF FirstOf
<1>8. QED
  BY <1>5, <1>6, <1>7

(* A set and one element more, or none. *)
LEMMA CountedOn ==
  ASSUME NEW S, IsFiniteSet(S), NEW T, S \cap T = {}
  PROVE  /\ T = {} => Cardinality(S \cup T) = Cardinality(S)
         /\ \A x : T = {x} => Cardinality(S \cup T) = Cardinality(S) + 1
         /\ Cardinality(S) \in Nat
<1>1. ASSUME NEW x, T = {x} PROVE Cardinality(S \cup T) = Cardinality(S) + 1
  <2>1. x \notin S
    BY <1>1
  <2>2. QED
    BY <1>1, <2>1, FS_AddElement
<1>2. Cardinality(S) \in Nat
  BY FS_CardinalityType
<1>3. T = {} => S \cup T = S
  OBVIOUS
<1>4. QED
  BY <1>1, <1>2, <1>3

(* And the counters have counted one line more. *)
LEMMA CountCloses ==
  ASSUME stdout \in Seq(Piece), pos \in 0..Len(stdout), LineEnds, line = OpenLine,
         garbage \in Nat, rpc \in Nat,
         line # {} => \E i \in line : OpensLine(i),
         rpc = Cardinality(ClosedOnes(AloneOnes, pos)),
         garbage + rpc = Cardinality(ClosedOnes(Openers, pos)),
         ParseLine(line)
  PROVE  /\ rpc' = Cardinality(ClosedOnes(AloneOnes, pos) \cup (AloneOnes \cap OpenLine))
         /\ garbage' + rpc' = Cardinality(ClosedOnes(Openers, pos) \cup (Openers \cap OpenLine))
<1>1. /\ rpc' = IF IsObject(line) THEN rpc + 1 ELSE rpc
      /\ garbage' = IF line # {} /\ ~ IsObject(line) THEN garbage + 1 ELSE garbage
  BY DEF ParseLine
<1>2. IsObject(line) => line # {}
  BY DEF IsObject
<1>3. rpc' = Cardinality(ClosedOnes(AloneOnes, pos) \cup (AloneOnes \cap OpenLine))
  <2>1. /\ IsFiniteSet(ClosedOnes(AloneOnes, pos))
        /\ ClosedOnes(AloneOnes, pos) \cap (AloneOnes \cap OpenLine) = {}
    BY SolidOnes, LineCloses
  <2>2. CASE IsObject(line)
    BY <1>1, <2>1, <2>2, ObjectLine, CountedOn
  <2>3. CASE ~ IsObject(line)
    BY <1>1, <2>1, <2>3, ObjectLine, CountedOn
  <2>4. QED
    BY <2>2, <2>3
<1>4. garbage' + rpc' = Cardinality(ClosedOnes(Openers, pos) \cup (Openers \cap OpenLine))
  <2>1. /\ IsFiniteSet(ClosedOnes(Openers, pos))
        /\ ClosedOnes(Openers, pos) \cap (Openers \cap OpenLine) = {}
    BY SolidOnes, LineCloses
  <2>2. CASE line = {}
    <3>1. Openers \cap OpenLine = {}
      BY <2>2
    <3>2. QED
      BY <1>1, <1>2, <2>1, <2>2, <3>1, CountedOn
  <2>3. CASE line # {}
    <3>1. PICK i \in OpenLine : OpensLine(i)
      BY <2>3
    <3>2. Openers \cap OpenLine = {i}
      <4>1. OpenLine \subseteq DOMAIN stdout
        BY DEF OpenLine
      <4>2. QED
        BY <3>1, <4>1, OneOpens DEF Openers
    <3>3. garbage' + rpc' = (garbage + rpc) + 1
      BY <1>1, <2>3
    <3>4. QED
      BY <2>1, <3>2, <3>3, CountedOn
  <2>4. QED
    BY <2>2, <2>3
<1>5. QED
  BY <1>3, <1>4

(* Before the scan nothing is open or closed. *)
LEMMA NothingScanned ==
  ASSUME NEW S
  PROVE  ClosedOnes(S, 0) = {} /\ FirstOf(0, {}) /\ Cardinality({}) = 0
BY FS_EmptySet DEF ClosedOnes, FirstOf

LEMMA AtStart ==
  ASSUME pos = 0, line = {}, found = 0, garbage = 0, rpc = 0
  PROVE  Scanning
<1>1. OpenLine = {}
  BY DEF OpenLine
<1>2. /\ ClosedOnes(Wanted, pos) = {} /\ ClosedOnes(AloneOnes, pos) = {} /\ ClosedOnes(Openers, pos) = {}
      /\ FirstOf(0, {}) /\ Cardinality({}) = 0
  BY NothingScanned
<1>3. garbage + rpc = 0
  OBVIOUS
<1>4. QED
  BY <1>1, <1>2, <1>3 DEF Scanning

LEMMA StillAtStart ==
  ASSUME pos' = 0, line' = {}, found' = 0, garbage' = 0, rpc' = 0
  PROVE  Scanning'
<1>1. OpenLine' = {}
  BY DEF OpenLine
<1>2. ClosedOnes(Wanted, pos)' = {} /\ ClosedOnes(AloneOnes, pos)' = {} /\ ClosedOnes(Openers, pos)' = {}
  BY DEF ClosedOnes
<1>3. FirstOf(0, {}) /\ Cardinality({}) = 0 /\ garbage' + rpc' = 0
  BY NothingScanned
<1>4. QED
  BY <1>1, <1>2, <1>3 DEF Scanning, FirstOf

(* A solid piece behind the last line opens one, unless it is open.        *)
LEMMA FirstOpens ==
  ASSUME stdout \in Seq(Piece), pos \in 0..(Len(stdout) - 1), OpenLine = {}, Solid(pos + 1)
  PROVE  OpensLine(pos + 1)
<1>1. ASSUME NEW j \in 1..pos, SameLine(stdout, j, pos + 1), stdout[j].form # "space"
      PROVE  FALSE
  <2>1. \A k \in j..(pos + 1) : ~ Newline(k)
    BY <1>1 DEF SameLine, Newline
  <2>2. stdout[j] \in Piece /\ ~ Newline(j)
    BY <1>1, <2>1
  <2>3. Solid(j)
    BY <1>1, <2>2 DEF Solid, Newline, Piece
  <2>4. ~ Closed(j, pos)
    BY <1>1, <2>1 DEF Closed
  <2>5. QED
    BY <1>1, <2>3, <2>4 DEF OpenLine
<1>2. pos \in Nat
  OBVIOUS
<1>3. QED
  BY <1>1, <1>2 DEF OpensLine, Solid

(* One piece of the scan. *)
LEMMA ScanPieceKeeps ==
  ASSUME Typed, Scanning, ScanPiece
  PROVE  Scanning'
<1>1. /\ stage = "scanning" /\ stage' = stage /\ stdout' = stdout /\ scan' = scan
      /\ pos < Len(stdout) /\ pos' = pos + 1
  BY DEF ScanPiece
<1>2. /\ stdout \in Seq(Piece) /\ pos \in 0..Len(stdout) /\ found \in 0..pos
      /\ garbage \in Nat /\ rpc \in Nat
  BY DEF Typed, TypeOK
<1>3. /\ line = OpenLine
      /\ line # {} => \E i \in line : OpensLine(i)
      /\ FirstOf(found, ClosedOnes(Wanted, pos))
      /\ rpc = Cardinality(ClosedOnes(AloneOnes, pos))
      /\ garbage + rpc = Cardinality(ClosedOnes(Openers, pos))
  BY <1>1 DEF Scanning
<1>4. /\ ClosedOnes(Wanted, pos)' = ClosedOnes(Wanted, pos + 1)
      /\ ClosedOnes(AloneOnes, pos)' = ClosedOnes(AloneOnes, pos + 1)
      /\ ClosedOnes(Openers, pos)' = ClosedOnes(Openers, pos + 1)
      /\ OpenLine' = {i \in 1..(pos + 1) : Solid(i) /\ ~ Closed(i, pos + 1)}
      /\ \A i : OpensLine(i)' <=> OpensLine(i)
  BY <1>1 DEF ClosedOnes, Wanted, AloneOnes, Openers, OpenLine, Answers, Alone, OpensLine,
              SameLine, Closed, Newline, Solid
<1>5. /\ Wanted \subseteq DOMAIN stdout /\ \A i \in Wanted : Solid(i)
  BY SolidOnes
<1>6. CASE Newline(pos + 1)
  <2>1. ParseLine(line) /\ line' = {}
    BY <1>6 DEF ScanPiece, Newline
  <2>2. LineEnds
    BY <1>1, <1>6 DEF LineEnds
  <2>3. FirstOf(found', ClosedOnes(Wanted, pos + 1))
    BY <1>1, <1>2, <1>3, <1>5, <1>6, <2>1, <2>2, AnswerCloses, LineCloses DEF ParseLine
  <2>4. /\ rpc' = Cardinality(ClosedOnes(AloneOnes, pos + 1))
        /\ garbage' + rpc' = Cardinality(ClosedOnes(Openers, pos + 1))
    BY <1>1, <1>2, <1>3, <1>6, <2>1, <2>2, CountCloses, LineCloses, SolidOnes
  <2>5. OpenLine' = {}
    <3>1. ASSUME NEW i \in 1..(pos + 1), Solid(i) PROVE Closed(i, pos + 1)
      <4>1. i # pos + 1
        BY <1>6, <3>1 DEF Solid, Newline
      <4>2. pos + 1 \in (i + 1)..(pos + 1)
        BY <1>2, <4>1
      <4>3. QED
        BY <1>6, <4>2 DEF Closed
    <3>2. QED
      BY <1>4, <3>1
  <2>6. QED
    BY <1>4, <2>1, <2>3, <2>4, <2>5 DEF Scanning
<1>7. CASE ~ Newline(pos + 1)
  <2>1. /\ found' = found /\ garbage' = garbage /\ rpc' = rpc
        /\ line' = IF Solid(pos + 1) THEN line \cup {pos + 1} ELSE line
    BY <1>7 DEF ScanPiece, Newline, Solid
  <2>2. /\ ClosedOnes(Wanted, pos + 1) = ClosedOnes(Wanted, pos)
        /\ ClosedOnes(AloneOnes, pos + 1) = ClosedOnes(AloneOnes, pos)
        /\ ClosedOnes(Openers, pos + 1) = ClosedOnes(Openers, pos)
    BY <1>1, <1>2, <1>5, <1>7, LineCloses, SolidOnes
  <2>3. \A i \in 1..pos : Closed(i, pos + 1) <=> Closed(i, pos)
    <3>1. ASSUME NEW i \in 1..pos, NEW k \in (i + 1)..(pos + 1), Newline(k) PROVE k \in (i + 1)..pos
      BY <1>2, <1>7, <3>1
    <3>2. \A i \in 1..pos : (i + 1)..pos \subseteq (i + 1)..(pos + 1)
      BY <1>2
    <3>3. QED
      BY <3>1, <3>2 DEF Closed
  <2>4. ~ Closed(pos + 1, pos + 1)
    BY <1>2 DEF Closed
  <2>5. OpenLine' = IF Solid(pos + 1) THEN OpenLine \cup {pos + 1} ELSE OpenLine
    <3>1. 1..(pos + 1) = (1..pos) \cup {pos + 1}
      BY <1>2
    <3>2. QED
      BY <1>4, <2>3, <2>4, <3>1 DEF OpenLine
  <2>6. line' # {} => \E i \in line' : OpensLine(i)
    <3>1. CASE line = {} /\ Solid(pos + 1)
      BY <1>1, <1>2, <1>3, <2>1, <3>1, FirstOpens
    <3>2. CASE line # {}
      BY <1>3, <2>1, <3>2
    <3>3. QED
      BY <2>1, <3>1, <3>2
  <2>7. QED
    BY <1>3, <1>4, <2>1, <2>2, <2>5, <2>6 DEF Scanning
<1>8. QED
  BY <1>6, <1>7

(* The end of the scan. *)
LEMMA ScanEndKeeps ==
  ASSUME Typed, Scanning, ScanEnd
  PROVE  Scanned'
<1>1. /\ stage = "scanning" /\ stdout' = stdout /\ scan' = scan /\ pos = Len(stdout)
      /\ ParseLine(line)
  BY DEF ScanEnd
<1>2. /\ stdout \in Seq(Piece) /\ pos \in 0..Len(stdout) /\ found \in 0..pos
      /\ garbage \in Nat /\ rpc \in Nat
  BY DEF Typed, TypeOK
<1>3. /\ line = OpenLine
      /\ line # {} => \E i \in line : OpensLine(i)
      /\ FirstOf(found, ClosedOnes(Wanted, pos))
      /\ rpc = Cardinality(ClosedOnes(AloneOnes, pos))
      /\ garbage + rpc = Cardinality(ClosedOnes(Openers, pos))
  BY <1>1 DEF Scanning
<1>4. Wanted' = Wanted /\ AloneOnes' = AloneOnes /\ Openers' = Openers
  BY <1>1 DEF Wanted, AloneOnes, Openers, Answers, Alone, OpensLine, SameLine
<1>5. LineEnds /\ Wanted \subseteq DOMAIN stdout /\ \A i \in Wanted : Solid(i)
  BY <1>1, SolidOnes DEF LineEnds
<1>6. FirstOf(found', Wanted)
  BY <1>1, <1>2, <1>3, <1>5, AnswerCloses, LineCloses DEF ParseLine
<1>7. rpc' = Cardinality(AloneOnes) /\ garbage' + rpc' = Cardinality(Openers)
  BY <1>1, <1>2, <1>3, <1>5, CountCloses, LineCloses, SolidOnes
<1>8. QED
  BY <1>4, <1>6, <1>7 DEF Scanned

-----------------------------------------------------------------------------
(* How much a guest printed, one piece at a time.                          *)
Sums(out, f, n) == f = [k \in 0..n |-> IF k = 0 THEN 0 ELSE f[k - 1] + out[k].size]

LEMMA SumsExist ==
  ASSUME NEW out, NEW n \in Nat
  PROVE  \E f : Sums(out, f, n)
<1> DEFINE T == {m \in Nat : ~ \E f : Sums(out, f, m)}
<1>1. SUFFICES ASSUME T # {} PROVE FALSE
  OBVIOUS
<1>2. PICK m \in T : \A k \in T : m <= k
  BY <1>1, Least
<1>3. CASE m = 0
  <2>1. Sums(out, [k \in 0..0 |-> 0], 0)
    BY DEF Sums
  <2> QED BY <1>3, <2>1
<1>4. CASE m # 0
  <2>1. m \in Nat /\ m - 1 \in Nat /\ m - 1 \notin T
    BY <1>2, <1>4
  <2>2. PICK f : Sums(out, f, m - 1)
    BY <2>1
  <2> DEFINE g == [k \in 0..m |-> IF k = m THEN f[m - 1] + out[m].size ELSE f[k]]
  <2>3. \A k \in 0..(m - 1) : f[k] = IF k = 0 THEN 0 ELSE f[k - 1] + out[k].size
    BY <2>2 DEF Sums
  <2>4. g = [k \in 0..m |-> g[k]] /\ g[m] = f[m - 1] + out[m].size
        /\ \A k \in 0..(m - 1) : g[k] = f[k]
    BY <2>1
  <2> HIDE DEF g
  <2>5. ASSUME NEW k \in 0..m PROVE g[k] = IF k = 0 THEN 0 ELSE g[k - 1] + out[k].size
    <3>1. CASE k = m
      <4>1. m - 1 \in 0..(m - 1)
        BY <2>1
      <4>2. g[m - 1] = f[m - 1]
        BY <2>4, <4>1
      <4>3. g[m] = g[m - 1] + out[m].size
        BY <2>4, <4>2
      <4> QED BY <1>4, <3>1, <4>3
    <3>2. CASE k # m
      <4>1. k \in 0..(m - 1) /\ (k # 0 => k - 1 \in 0..(m - 1))
        BY <2>1, <3>2
      <4>2. g[k] = f[k] /\ (k # 0 => g[k - 1] = f[k - 1])
        BY <2>4, <4>1
      <4>3. f[k] = IF k = 0 THEN 0 ELSE f[k - 1] + out[k].size
        BY <2>3, <4>1
      <4> QED BY <4>2, <4>3
    <3> QED BY <3>1, <3>2
  <2>6. Sums(out, g, m)
    BY <2>4, <2>5 DEF Sums
  <2> QED BY <2>6
<1> QED BY <1>3, <1>4

LEMMA PrintedSums ==
  ASSUME NEW out, Len(out) \in Nat
  PROVE  \E f : Sums(out, f, Len(out)) /\ Printed(out) = f[Len(out)]
<1> DEFINE f == CHOOSE g : Sums(out, g, Len(out))
<1>1. Sums(out, f, Len(out))
  BY SumsExist, Zenon
<1>2. Printed(out) = f[Len(out)]
  BY Zenon DEF Printed, Sums
<1> QED BY <1>1, <1>2

LEMMA PrintedNothing == Printed(<<>>) = 0
<1>1. PICK f : Sums(<<>>, f, 0) /\ Printed(<<>>) = f[0]
  BY PrintedSums
<1> QED BY <1>1 DEF Sums

LEMMA PrintedMore ==
  ASSUME NEW out \in Seq(Piece), NEW piece \in Piece
  PROVE  Printed(Append(out, piece)) = Printed(out) + piece.size
<1> DEFINE n == Len(out)
           all == Append(out, piece)
<1>1. /\ n \in Nat /\ Len(all) = n + 1 /\ all[n + 1] = piece
      /\ \A k \in 1..n : all[k] = out[k]
  OBVIOUS
<1> HIDE DEF all
<1>2. PICK f : Sums(out, f, n) /\ Printed(out) = f[n]
  BY <1>1, PrintedSums
<1>3. PICK g : Sums(all, g, n + 1) /\ Printed(all) = g[n + 1]
  BY <1>1, PrintedSums
<1>4. \A k \in 0..n : f[k] = IF k = 0 THEN 0 ELSE f[k - 1] + out[k].size
  BY <1>2 DEF Sums
<1>5. \A k \in 0..(n + 1) : g[k] = IF k = 0 THEN 0 ELSE g[k - 1] + all[k].size
  BY <1>3 DEF Sums
<1> DEFINE T == {k \in 0..n : f[k] # g[k]}
<1>6. ASSUME T # {} PROVE FALSE
  <2>1. T \in SUBSET Nat
    OBVIOUS
  <2>2. PICK k \in T : \A i \in T : k <= i
    <3> HIDE DEF T
    <3> QED BY <1>6, <2>1, Least
  <2>3. k # 0
    BY <1>1, <1>4, <1>5
  <2>4. k - 1 \in 0..n /\ k \in 1..n /\ k \in 0..n /\ k \in 0..(n + 1) /\ k - 1 \notin T
    BY <1>1, <2>2, <2>3
  <2>5. f[k - 1] = g[k - 1] /\ all[k] = out[k]
    BY <1>1, <2>4
  <2>6. f[k] = g[k]
    <3> HIDE DEF T
    <3> QED BY <1>4, <1>5, <2>3, <2>4, <2>5
  <2> QED BY <2>6
<1>7. f[n] = g[n]
  <2>1. n \in 0..n /\ n \notin T
    BY <1>1, <1>6
  <2> QED BY <2>1
<1>8. n + 1 \in 0..(n + 1) /\ n + 1 # 0 /\ (n + 1) - 1 = n
  BY <1>1
<1>9. g[n + 1] = g[n] + all[n + 1].size
  BY <1>5, <1>8
<1> QED BY <1>1, <1>2, <1>3, <1>7, <1>9 DEF all

-----------------------------------------------------------------------------
(* The inductive invariant of the pipe: as long as all that was printed    *)
(* fits it is what the pipe holds, and otherwise the pipe is full; nothing *)
(* is left of it when the guest is given up.                               *)
Piped ==
  /\ Printed(printed) \in Nat
  /\ stage = "guest" => exit # "abandoned"
  /\ IF exit = "abandoned" THEN stdout = <<>> /\ bytes = 0
     ELSE /\ Printed(printed) <= StdoutCap => bytes = Printed(printed) /\ stdout = printed
          /\ Printed(printed) > StdoutCap => bytes = StdoutCap

(* And of the outcome of a call: what is scanned is within the budget, and *)
(* the outcome is that of the first answer, or of the lack of one.         *)
Concluded ==
  scan.of = "call" =>
    /\ stage \in {"scanning", "scanned"} => bytes <= OutputMax
    /\ stage = "done" =>
         \/ bytes > OutputMax /\ outcome = "output_overflow"
         \/ /\ bytes <= OutputMax /\ FirstOf(found, Wanted)
            /\ outcome = IF found = 0 THEN ClassOfExit ELSE ReplyOutcome(stdout[found].has)

LEMMA PipedStep ==
  ASSUME Typed, Piped, [Next]_vars
  PROVE  Piped'
<1>1. ASSUME NEW piece \in Pieces, Emit(piece) PROVE Piped'
  <2>1. /\ printed' = Append(printed, piece)
        /\ stdout' = stdout \o Fitting(piece, StdoutCap - bytes)
        /\ bytes' = IF bytes + piece.size <= StdoutCap THEN bytes + piece.size ELSE StdoutCap
        /\ exit # "abandoned" /\ exit' = exit
    BY <1>1 DEF Emit, Piped
  <2>2. /\ piece \in Piece /\ piece.size \in Nat \ {0} /\ StdoutCap \in Nat /\ bytes \in 0..StdoutCap
        /\ printed \in Seq(Piece)
    BY PiecesAssumption, BytesAssumption DEF Typed, TypeOK, StdoutCap, Piece
  <2>3. StdoutCap' = StdoutCap
    BY DEF StdoutCap
  <2> DEFINE P == Printed(printed)
             s == piece.size
  <2>4. Printed(printed') = P + s
    BY <2>1, <2>2, PrintedMore
  <2>5. P \in Nat /\ s \in Nat \ {0} /\ bytes \in Nat /\ bytes <= StdoutCap
    BY <2>2 DEF Piped
  <2>6. /\ P <= StdoutCap => bytes = P /\ stdout = printed
        /\ P > StdoutCap => bytes = StdoutCap
    BY <2>1 DEF Piped
  <2> HIDE DEF P, s
  <2>7. CASE P + s <= StdoutCap
    <3>1. P <= StdoutCap /\ bytes = P /\ stdout = printed
      BY <2>2, <2>5, <2>6, <2>7
    <3>2. bytes' = P + s
      BY <2>1, <2>7, <3>1 DEF s
    <3>3. Fitting(piece, StdoutCap - bytes) = <<piece>>
      <4>1. s <= StdoutCap - bytes
        BY <2>2, <2>5, <2>7, <3>1
      <4> QED BY <4>1 DEF Fitting, s
    <3>4. stdout' = printed'
      <4>1. stdout' = printed \o <<piece>>
        BY <2>1, <3>1, <3>3
      <4>2. printed \o <<piece>> = Append(printed, piece)
        BY <2>2
      <4> QED BY <2>1, <4>1, <4>2
    <3>5. P + s \in Nat /\ ~ (P + s > StdoutCap)
      BY <2>2, <2>5, <2>7
    <3> QED BY <2>1, <2>3, <2>4, <3>2, <3>4, <3>5 DEF Piped
  <2>8. CASE ~ (P + s <= StdoutCap)
    <3>1. bytes' = StdoutCap
      <4>1. bytes + s > StdoutCap
        BY <2>2, <2>5, <2>6, <2>8
      <4>2. ~ (bytes + piece.size <= StdoutCap)
        BY <2>2, <2>5, <4>1 DEF s
      <4> QED BY <2>1, <4>2
    <3>2. P + s \in Nat
      BY <2>5
    <3> QED BY <2>1, <2>3, <2>4, <2>8, <3>1, <3>2 DEF Piped
  <2> QED BY <2>7, <2>8
<1>2. CASE UNCHANGED <<printed, stdout, bytes, stage, exit>>
  BY <1>2 DEF Piped, StdoutCap
<1>3. ASSUME NEW kind \in Exits, End(kind) PROVE Piped'
  <2>1. UNCHANGED <<printed, stdout, bytes>> /\ exit # "abandoned" /\ exit' # "abandoned" /\ stage' # "guest"
    BY <1>3 DEF End, Exits, Piped
  <2> QED BY <2>1 DEF Piped, StdoutCap
<1>4. CASE ScanPiece \/ ScanEnd \/ Conclude
  <2>1. UNCHANGED <<printed, stdout, bytes, exit>> /\ stage' # "guest"
    BY <1>4 DEF ScanPiece, ScanEnd, Conclude
  <2> QED BY <2>1 DEF Piped, StdoutCap
<1>5. CASE Done \/ UNCHANGED vars
  BY <1>2, <1>5 DEF Done, vars
<1>6. CASE Abandon
  BY <1>6 DEF Abandon, Piped
<1> QED BY <1>1, <1>3, <1>4, <1>5, <1>6 DEF Next

LEMMA ConcludedStep ==
  ASSUME Typed, Scanned, Concluded, [Next]_vars
  PROVE  Concluded'
<1>1. ASSUME NEW piece \in Pieces, Emit(piece) PROVE Concluded'
  <2>1. stage' = "guest"
    BY <1>1 DEF Emit
  <2> QED BY <2>1 DEF Concluded
<1>2. ASSUME NEW kind \in Exits, End(kind) PROVE Concluded'
  <2>1. /\ scan' = scan /\ bytes' = bytes /\ outcome' = Unscanned(kind)
        /\ stage' = IF outcome' = "none" THEN "scanning" ELSE "done"
        /\ bytes \in Nat /\ OutputMax \in Nat
    BY <1>2, BytesAssumption DEF End, Typed, TypeOK
  <2>2. CASE scan.of = "call" /\ bytes > OutputMax
    <3>1. stage' = "done" /\ outcome' = "output_overflow"
      BY <2>1, <2>2 DEF Unscanned
    <3> QED BY <2>1, <2>2, <3>1 DEF Concluded
  <2>3. CASE scan.of = "call" /\ ~ (bytes > OutputMax)
    <3>1. stage' = "scanning" /\ bytes <= OutputMax
      BY <2>1, <2>3 DEF Unscanned
    <3> QED BY <2>1, <3>1 DEF Concluded
  <2>4. CASE scan.of # "call"
    BY <2>1, <2>4 DEF Concluded
  <2> QED BY <2>2, <2>3, <2>4
<1>3. CASE ScanPiece \/ ScanEnd
  <2>1. /\ scan' = scan /\ bytes' = bytes /\ stage = "scanning"
        /\ stage' \in {"scanning", "scanned"}
    BY <1>3 DEF ScanPiece, ScanEnd
  <2> QED BY <2>1 DEF Concluded
<1>4. CASE Conclude
  <2>1. /\ stage = "scanned" /\ stage' = "done"
        /\ scan' = scan /\ bytes' = bytes /\ stdout' = stdout /\ found' = found /\ exit' = exit
        /\ outcome' = IF found = 0 THEN ClassOfExit ELSE ReplyOutcome(stdout[found].has)
    BY <1>4 DEF Conclude, scanner
  <2>2. Wanted' = Wanted /\ ClassOfExit' = ClassOfExit /\ FirstOf(found, Wanted)
    BY <2>1 DEF Wanted, Answers, Alone, SameLine, ClassOfExit, Scanned
  <2> QED BY <2>1, <2>2 DEF Concluded
<1>5. CASE Done \/ UNCHANGED vars
  <2>1. /\ stage' = stage /\ outcome' = outcome
        /\ scan' = scan /\ bytes' = bytes /\ stdout' = stdout /\ found' = found /\ exit' = exit
    BY <1>5 DEF Done, vars, scanner
  <2>2. Wanted' = Wanted /\ ClassOfExit' = ClassOfExit
    BY <2>1 DEF Wanted, Answers, Alone, SameLine, ClassOfExit
  <2> QED BY <2>1, <2>2 DEF Concluded
<1>6. CASE Abandon
  BY <1>6, BytesAssumption DEF Abandon, Concluded
<1> QED BY <1>1, <1>2, <1>3, <1>4, <1>5, <1>6 DEF Next

(* The first of a set is its least.                                        *)
LEMMA FirstIsMin ==
  ASSUME NEW S \in SUBSET Nat, S # {}, NEW f, FirstOf(f, S)
  PROVE  f = Min(S) /\ f \in S
<1>1. f \in S /\ \A i \in S : f <= i
  BY DEF FirstOf
<1> DEFINE Smallest(x) == x \in S /\ \A i \in S : x <= i
<1>2. Smallest(f)
  BY <1>1
<1>3. Min(S) = CHOOSE x : Smallest(x)
  BY Zenon DEF Min
<1> HIDE DEF Smallest
<1>4. Smallest(Min(S))
  BY <1>2, <1>3, Zenon
<1>5. Min(S) \in S /\ Min(S) <= f
  BY <1>1, <1>4 DEF Smallest
<1>6. f <= Min(S) /\ f \in Nat /\ Min(S) \in Nat
  BY <1>1, <1>5
<1> QED BY <1>1, <1>5, <1>6

-----------------------------------------------------------------------------

TranscriptInv == Typed /\ Scanning /\ Scanned /\ Piped /\ Concluded

LEMMA ScanStep ==
  ASSUME TranscriptInv, [Next]_vars
  PROVE  Scanning' /\ Scanned'
<1> USE DEF TranscriptInv
<1>1. ASSUME NEW piece \in Pieces, Emit(piece) PROVE Scanning' /\ Scanned'
  <2>1. /\ stage' = "guest" /\ pos' = 0 /\ line' = {} /\ found' = 0 /\ garbage' = 0 /\ rpc' = 0
    BY <1>1 DEF Emit, scanner, Typed
  <2>2. QED
    BY <2>1, StillAtStart DEF Scanned
<1>2. ASSUME NEW kind \in Exits, End(kind) PROVE Scanning' /\ Scanned'
  <2>1. /\ stage' # "scanned"
        /\ pos' = 0 /\ line' = {} /\ found' = 0 /\ garbage' = 0 /\ rpc' = 0
    BY <1>2 DEF End, scanner, Typed
  <2>2. QED
    BY <2>1, StillAtStart DEF Scanned
<1>3. CASE ScanPiece
  BY <1>3, ScanPieceKeeps DEF Scanned, ScanPiece
<1>4. CASE ScanEnd
  BY <1>4, ScanEndKeeps DEF Scanning, ScanEnd
<1>5. CASE Conclude
  BY <1>5 DEF Conclude, Scanning, Scanned
<1>6. CASE Done \/ UNCHANGED vars
  <2>1. /\ stage' = stage /\ stdout' = stdout /\ scan' = scan /\ pos' = pos /\ line' = line
        /\ found' = found /\ garbage' = garbage /\ rpc' = rpc
    BY <1>6 DEF Done, vars, scanner
  <2>2. QED
    BY <2>1 DEF Scanning, Scanned, OpenLine, ClosedOnes, Closed, Newline, Solid, Wanted, AloneOnes,
                Openers, Answers, Alone, OpensLine, SameLine, FirstOf
<1>7. CASE Abandon
  <2>1. stage' = "scanning" /\ pos' = 0 /\ line' = {} /\ found' = 0 /\ garbage' = 0 /\ rpc' = 0
    BY <1>7 DEF Abandon, scanner, Typed
  <2>2. QED
    BY <2>1, StillAtStart DEF Scanned
<1>8. QED
  BY <1>1, <1>2, <1>3, <1>4, <1>5, <1>6, <1>7 DEF Next

(* TranscriptInv is inductive: the pipe, the scan of extract_response and   *)
(* the conclusion drawn from it keep it.                                   *)
THEOREM TranscriptInvariant == Spec => []TranscriptInv
<1>1. Init => Typed
  BY BytesAssumption DEF Init, Typed, TypeOK, Scans, StdoutCap
<1>2. Init => TranscriptInv
  <2>1. Init => Piped
    BY PrintedNothing, BytesAssumption DEF Init, Piped, StdoutCap
  <2> QED BY <1>1, <2>1, AtStart DEF Init, TranscriptInv, Scanned, Concluded
<1>3. TranscriptInv /\ [Next]_vars => TranscriptInv'
  BY TypedStep, ScanStep, PipedStep, ConcludedStep DEF TranscriptInv
<1>4. QED
  BY <1>2, <1>3, PTL DEF Spec

(* Whatever guests print, what the pipe holds and what was scanned of it   *)
(* stays well typed: half an object is a piece of text.                    *)
THEOREM TranscriptTyped == Spec => []TypeOK
<1>1. TranscriptInv => TypeOK
  BY DEF TranscriptInv, Typed
<1>2. QED
  BY <1>1, TranscriptInvariant, PTL

(* The first matching response wins, whatever is printed around it.        *)
THEOREM FirstAnswer == Spec => []FirstAnswerWins
<1>1. ASSUME TranscriptInv PROVE FirstAnswerWins
  <2>1. ASSUME stage = "scanned", Wanted # {} PROVE found = Min(Wanted)
    <3>1. FirstOf(found, Wanted) /\ Wanted \subseteq Nat
      BY <1>1, <2>1 DEF TranscriptInv, Scanned, Wanted, Answers, Typed, TypeOK
    <3> QED BY <2>1, <3>1, FirstIsMin
  <2>2. ASSUME stage = "scanned", Wanted = {} PROVE found = 0
    BY <1>1, <2>2 DEF TranscriptInv, Scanned, FirstOf
  <2>3. QED
    BY <2>1, <2>2 DEF FirstAnswerWins, Wanted
<1>2. QED
  BY <1>1, TranscriptInvariant, PTL

(* Every line that is not blank is counted once.                           *)
THEOREM LinesCounted == Spec => []LinesAreCounted
<1>1. TranscriptInv => LinesAreCounted
  BY DEF TranscriptInv, Scanned, LinesAreCounted, AloneOnes, Openers
<1>2. QED
  BY <1>1, TranscriptInvariant, PTL

(* The outcome of a call whose guest ended is a function of everything the *)
(* guest printed: the cut the pipe makes never shows. A guest that was     *)
(* given up is a timeout, whatever it printed.                             *)
THEOREM OutcomeFollows == Spec => []OutcomeFollowsPrint
<1>1. ASSUME TranscriptInv, stage = "done", scan.of = "call"
      PROVE  LET answers == Answers(printed, 2) IN
             outcome = IF exit = "abandoned" THEN "timeout"
                       ELSE IF Printed(printed) > OutputMax THEN "output_overflow"
                       ELSE IF answers = {} THEN ClassOfExit
                       ELSE IF "result" \in printed[Min(answers)].has THEN "ok"
                       ELSE "guest_rpc_error"
  <2> DEFINE P == Printed(printed)
  <2>1. /\ bytes \in Nat /\ StdoutCap = OutputMax + Slack /\ OutputMax \in Nat /\ Slack \in Nat \ {0}
        /\ P \in Nat
        /\ IF exit = "abandoned" THEN stdout = <<>> /\ bytes = 0
           ELSE /\ P <= StdoutCap => bytes = P /\ stdout = printed
                /\ P > StdoutCap => bytes = StdoutCap
    BY <1>1, BytesAssumption DEF TranscriptInv, Typed, TypeOK, Piped, StdoutCap
  <2>2. \/ bytes > OutputMax /\ outcome = "output_overflow"
        \/ /\ bytes <= OutputMax /\ FirstOf(found, Wanted)
           /\ outcome = IF found = 0 THEN ClassOfExit ELSE ReplyOutcome(stdout[found].has)
    BY <1>1 DEF TranscriptInv, Concluded
  <2> HIDE DEF P
  <2>0. CASE exit = "abandoned"
    <3>1. /\ stdout = <<>> /\ FirstOf(found, Wanted)
          /\ outcome = IF found = 0 THEN ClassOfExit ELSE ReplyOutcome(stdout[found].has)
      BY <2>0, <2>1, <2>2
    <3>2. Wanted = {}
      BY <3>1 DEF Wanted, Answers
    <3>3. found = 0
      BY <3>1, <3>2 DEF FirstOf
    <3>4. ClassOfExit = "timeout"
      BY <2>0 DEF ClassOfExit
    <3> QED BY <2>0, <3>1, <3>3, <3>4
  <2>3. CASE exit # "abandoned" /\ bytes > OutputMax /\ outcome = "output_overflow"
    <3>1. P > OutputMax
      BY <2>1, <2>3
    <3> QED BY <2>3, <3>1 DEF P
  <2>4. CASE /\ exit # "abandoned"
             /\ bytes <= OutputMax /\ FirstOf(found, Wanted)
             /\ outcome = IF found = 0 THEN ClassOfExit ELSE ReplyOutcome(stdout[found].has)
    <3>1. ~ (P > OutputMax) /\ stdout = printed
      BY <2>1, <2>4
    <3>2. scan.want = 2 /\ stdout \in Seq(Piece)
      BY <1>1 DEF TranscriptInv, Typed, TypeOK, Scans
    <3>3. Wanted = Answers(printed, 2) /\ Wanted \in SUBSET Nat /\ Wanted \subseteq 1..Len(stdout)
      BY <3>1, <3>2 DEF Wanted, Answers
    <3>4. CASE Wanted = {}
      <4>1. outcome = ClassOfExit
        BY <2>4, <3>4 DEF FirstOf
      <4> QED BY <2>4, <3>1, <3>3, <3>4, <4>1 DEF P
    <3>5. CASE Wanted # {}
      <4>1. found = Min(Wanted) /\ found \in Wanted
        BY <2>4, <3>3, <3>5, FirstIsMin
      <4>2. found \in 1..Len(stdout) /\ found # 0 /\ stdout[found].has # {} /\ stdout[found] \in Piece
        <5>1. found \in 1..Len(stdout) /\ found # 0
          BY <3>3, <4>1
        <5>2. stdout[found].has # {}
          BY <4>1 DEF Wanted, Answers
        <5> QED BY <3>2, <5>1, <5>2
      <4>3. stdout[found].has \subseteq {"result", "error"}
        BY <4>2 DEF Piece
      <4>4. ReplyOutcome(stdout[found].has) =
              IF "result" \in stdout[found].has THEN "ok" ELSE "guest_rpc_error"
        <5>1. "result" \notin stdout[found].has => stdout[found].has = {"error"}
          BY <4>2, <4>3
        <5> QED BY <5>1 DEF ReplyOutcome
      <4> QED BY <2>4, <3>1, <3>3, <3>5, <4>1, <4>2, <4>4 DEF P
    <3> QED BY <3>4, <3>5
  <2> QED BY <2>0, <2>2, <2>3, <2>4
<1>2. TranscriptInv => OutcomeFollowsPrint
  BY <1>1 DEF OutcomeFollowsPrint
<1>3. QED
  BY <1>2, TranscriptInvariant, PTL
=============================================================================
