-------------------------- MODULE PaginationProofs --------------------------
(***************************************************************************)
(* Theorems about Pagination, for any tools, policies, page sizes and      *)
(* number of restarts.                                                     *)
(***************************************************************************)
EXTENDS Pagination, ListTheorems

(* The offsets of pages are multiples of the page size.                    *)

LEMMA SmallMultiple ==
  ASSUME NEW n \in Nat \ {0}, NEW k \in Int, n * k >= 0, n * k < n
  PROVE  k = 0
<1>1. k >= 1 => n * k >= n
  BY SMT
<1>2. k <= -1 => n * k <= -n
  BY SMT
<1> QED BY <1>1, <1>2

LEMMA SmallRemainder ==
  ASSUME NEW a \in Nat, NEW n \in Nat \ {0}, a < n
  PROVE  a % n = a
BY SMT

LEMMA NextMultiple ==
  ASSUME NEW a \in Nat, NEW n \in Nat \ {0}, a % n = 0
  PROVE  (a + n) % n = 0
<1> DEFINE q == a \div n
           p == (a + n) \div n
           r == (a + n) % n
<1>1. a = n * q /\ q \in Int
  BY SMT
<1>2. a + n = n * p + r /\ p \in Int /\ r \in 0..(n - 1)
  BY SMT
<1> HIDE DEF q, p, r
<1>3. n * ((q + 1) - p) = r
  BY <1>1, <1>2
<1>4. (q + 1) - p = 0
  BY <1>1, <1>2, <1>3, SmallMultiple
<1>5. r = 0
  BY <1>3, <1>4
<1> QED BY <1>5 DEF r

-----------------------------------------------------------------------------
(* What visible_tool_defs leaves of a list. *)

Fits(p) == p.tools \in Seq(Tools) /\ Len(p.tools) <= OffsetRange /\ p.pageSize \in Nat

LEMMA VisibleFilters ==
  ASSUME NEW p, Fits(p)
  PROVE  /\ Visible(p) \in Seq(Tools)
         /\ Total(p) \in 0..OffsetRange
         /\ \A i \in 1..Total(p) : Visible(p)[i] \in ToSet(p.tools) \ p.denied
<1> DEFINE n == Len(p.tools)
           S == ToSet(p.tools) \ p.denied
           ss == [i \in 1..n |-> IF p.tools[i] \in p.denied THEN <<>> ELSE <<p.tools[i]>>]
<1>1. p.tools \in Seq(Tools) /\ n \in Nat /\ n <= OffsetRange /\ DOMAIN p.tools = 1..n
  BY DEF Fits
<1>2. S \subseteq Tools
  BY <1>1 DEF ToSet
<1>3. \A i \in 1..n : ss[i] \in Seq(S) /\ Len(ss[i]) <= 1
  <2> SUFFICES ASSUME NEW i \in 1..n PROVE ss[i] \in Seq(S) /\ Len(ss[i]) <= 1
    OBVIOUS
  <2>1. p.tools[i] \in ToSet(p.tools)
    BY <1>1 DEF ToSet
  <2>2. CASE p.tools[i] \in p.denied
    BY <2>2
  <2>3. CASE p.tools[i] \notin p.denied
    <3>1. p.tools[i] \in S /\ ss[i] = <<p.tools[i]>>
      BY <2>1, <2>3
    <3> HIDE DEF S, ss
    <3> QED BY <3>1
  <2> QED BY <2>2, <2>3
<1>4. ss \in Seq(Seq(S)) /\ Len(ss) = n
  <2>1. ss \in [1..n -> Seq(S)]
    BY <1>3
  <2> HIDE DEF ss, S
  <2> QED BY <1>1, <2>1
<1>5. Visible(p) = FlattenSeq(ss)
  <2>1. [i \in DOMAIN p.tools |-> IF p.tools[i] \in p.denied THEN <<>> ELSE <<p.tools[i]>>] = ss
    BY <1>1
  <2> QED BY <2>1, Zenon DEF Visible
<1> HIDE DEF ss
<1>6. Visible(p) \in Seq(S) /\ Len(Visible(p)) <= n
  BY <1>3, <1>4, <1>5, FlattenIsSeq, FlattenShort
<1> QED BY <1>1, <1>2, <1>6, RangeAssumption DEF Total

-----------------------------------------------------------------------------
(* What a request is answered with. *)

(* Pages begin at multiples of the page size.                              *)
Aligned(n, size) == size # 0 => n % size = 0

(* A cursor that p signed is good, and stands for a place in its list.     *)
LEMMA GoodCursor ==
  ASSUME NEW p, NEW c, p.pageSize # 0, Verdict(p, c) = "ok", c.form = "cursor"
  PROVE  /\ c.key = p.boot
         /\ c.snapshot = Visible(p)
         /\ c.offset # 0
         /\ ~ (c.offset >= Total(p))
         /\ Aligned(c.offset, p.pageSize)
<1>1. Decode(p, c) = "ok"
  BY DEF Verdict
<1>2. c.key = p.boot
  BY <1>1 DEF Decode
<1>3. c.snapshot = Visible(p)
  BY <1>1, <1>2 DEF Decode
<1>4. ~ (c.offset = 0 \/ c.offset >= Total(p) \/ c.offset % p.pageSize # 0)
  BY <1>1, <1>2, <1>3 DEF Decode
<1> QED BY <1>2, <1>3, <1>4 DEF Aligned

(* The page that answers a request, and where it stands.                   *)
Served(p, c, start) ==
  /\ start \in Nat
  /\ start = IF p.pageSize = 0 THEN 0 ELSE c.offset
  /\ start = 0 \/ start < Total(p)
  /\ Aligned(start, p.pageSize)

Page(p, c, start, end, page) ==
  /\ end \in start..Total(p)
  /\ page \in Seq(Tools) /\ Len(page) = end - start
  /\ \A i \in 1..Len(page) : page[i] = Visible(p)[start + i]
  /\ end = start => Total(p) = 0
  /\ Response(p, c) =
       [cursor |-> c, from |-> p, result |-> "ok", start |-> start, tools |-> page,
        next |-> IF end < Total(p) THEN Cursor(end, Visible(p), p.boot) ELSE NoCursor]
  /\ end < Total(p) => end # 0 /\ p.pageSize # 0 /\ Aligned(end, p.pageSize)

LEMMA PageIsServed ==
  ASSUME NEW p, Fits(p), NEW c, Verdict(p, c) = "ok", NEW start, Served(p, c, start)
  PROVE  \E end, page : Page(p, c, start, end, page)
<1> PICK end : end = PageEnd(p, start)
  OBVIOUS
<1> PICK page : page = SubSeq(Visible(p), start + 1, end)
  OBVIOUS
<1>0. /\ start \in Nat /\ start = IF p.pageSize = 0 THEN 0 ELSE c.offset
      /\ start = 0 \/ start < Total(p)
      /\ Aligned(start, p.pageSize)
  BY DEF Served
<1>1. /\ Visible(p) \in Seq(Tools) /\ Total(p) \in 0..OffsetRange /\ Len(Visible(p)) = Total(p)
      /\ p.pageSize \in Nat /\ OffsetRange \in Nat \ {0}
  BY VisibleFilters, RangeAssumption DEF Fits, Total
<1>2. /\ end \in start..Total(p)
      /\ end < Total(p) => p.pageSize # 0 /\ end = start + p.pageSize
      /\ end = start => Total(p) = 0
  <2>1. CASE p.pageSize = 0 \/ start + p.pageSize >= Total(p)
    <3>1. end = Total(p)
      BY <2>1 DEF PageEnd
    <3>2. start <= Total(p) /\ Total(p) \in Nat
      BY <1>0, <1>1
    <3> QED BY <1>0, <3>1, <3>2
  <2>2. CASE ~ (p.pageSize = 0 \/ start + p.pageSize >= Total(p))
    <3>1. end = start + p.pageSize
      BY <2>2 DEF PageEnd
    <3>2. p.pageSize \in Nat \ {0} /\ start + p.pageSize < Total(p) /\ Total(p) \in Nat
      BY <1>0, <1>1, <2>2
    <3>3. start \in Nat
      BY <1>0
    <3>4. end \in start..Total(p) /\ end # start
      BY <3>1, <3>2, <3>3
    <3> QED BY <3>1, <3>2, <3>4, Zenon
  <2> QED BY <2>1, <2>2
<1>3. ASSUME end < Total(p)
      PROVE  end # 0 /\ p.pageSize # 0 /\ Aligned(end, p.pageSize) /\ end % OffsetRange = end
  <2>1. p.pageSize \in Nat \ {0} /\ end = start + p.pageSize /\ end # 0
    BY <1>0, <1>1, <1>2, <1>3
  <2>2. start % p.pageSize = 0
    BY <1>0, <2>1 DEF Aligned
  <2>3. (start + p.pageSize) % p.pageSize = 0
    BY <1>0, <2>1, <2>2, NextMultiple
  <2>4. end \in Nat /\ end < OffsetRange
    <3>1. Total(p) \in Nat /\ Total(p) <= OffsetRange
      BY <1>1
    <3>2. end \in Nat /\ end < Total(p)
      BY <1>0, <1>2, <1>3, <3>1
    <3> QED BY <1>1, <3>1, <3>2
  <2>5. end % OffsetRange = end
    BY <1>1, <2>4, SmallRemainder
  <2> QED BY <2>1, <2>3, <2>5 DEF Aligned
<1>5. page \in Seq(Tools) /\ Len(page) = end - start
      /\ \A i \in 1..Len(page) : page[i] = Visible(p)[start + i]
  <2> PICK v \in Seq(Tools) : v = Visible(p)
    BY <1>1
  <2>1. end \in start..Len(v)
    BY <1>0, <1>1, <1>2
  <2>2. /\ SubSeq(v, start + 1, end) \in Seq(Tools)
        /\ Len(SubSeq(v, start + 1, end)) = end - start
        /\ \A i \in 1..(end - start) : SubSeq(v, start + 1, end)[i] = v[start + i]
    BY <1>0, <2>1
  <2> QED BY <1>0, <2>2
<1>6. Response(p, c) =
        [cursor |-> c, from |-> p, result |-> "ok", start |-> start, tools |-> page,
         next |-> IF end < Total(p) THEN Cursor(end, Visible(p), p.boot) ELSE NoCursor]
  BY <1>0, <1>3, Zenon DEF Response, Encode
<1> QED BY <1>2, <1>3, <1>5, <1>6, Zenon DEF Page

-----------------------------------------------------------------------------
(* The invariant. *)

Results ==
  {"ok", "malformed", "not_a_string", "bad_mac", "snapshot_mismatch", "out_of_range"}

(* What is remembered of a minted cursor is what it says.                  *)
Honest(m) ==
  /\ Fits(m.from) /\ m.from.pageSize # 0
  /\ m.from.boot \in 1..process.boot
  /\ m.from.boot = process.boot => m.from = process
  /\ m.place \in 1..(Total(m.from) - 1) /\ Aligned(m.place, m.from.pageSize)
  /\ m.cursor = Cursor(m.place, Visible(m.from), m.from.boot)

Minted ==
  /\ process.boot \in 1..MaxBoots
  /\ Fits(process)
  /\ \A m \in minted : Honest(m)

Replied ==
  /\ reply.result \in Results
  /\ PagesContinue
  /\ PagesAreFiltered

(* The cursors that are sent: none, a minted one, or one of no process.    *)
Unsigned(c) == c.form \in {"malformed", "not_a_string"} \/ (c.form = "cursor" /\ c.key = 0)

Sent(c) == c = NoCursor \/ (\E m \in minted : c = m.cursor) \/ Unsigned(c)

LEMMA MadeUpUnsigned ==
  ASSUME Minted, NEW c \in MadeUp
  PROVE  Unsigned(c)
<1>1. CASE c \in {NotACursor("malformed"), NotACursor("not_a_string")}
  BY <1>1 DEF NotACursor, Unsigned
<1>2. ASSUME NEW m \in minted, c = [m.cursor EXCEPT !.key = 0] PROVE Unsigned(c)
  <2>1. m.cursor = Cursor(m.place, Visible(m.from), m.from.boot)
    BY DEF Minted, Honest
  <2> QED BY <1>2, <2>1 DEF Cursor, Unsigned
<1>3. ASSUME NEW o, c = Cursor(o, Visible(process), 0) PROVE Unsigned(c)
  BY <1>3 DEF Cursor, Unsigned
<1> QED BY <1>1, <1>2, <1>3 DEF MadeUp

(* A cursor that gets a page from a process with pages, or any, is none or *)
(* one that this process minted.                                           *)
LEMMA OnlyItsOwn ==
  ASSUME Minted, NEW c, Sent(c), Verdict(process, c) = "ok", process.pageSize # 0
  PROVE  c = NoCursor \/ \E m \in minted : c = m.cursor /\ m.from = process
<1>1. ASSUME NEW m \in minted, c = m.cursor PROVE m.from = process
  <2>1. /\ m.cursor = Cursor(m.place, Visible(m.from), m.from.boot)
        /\ m.from.boot = process.boot => m.from = process
    BY DEF Minted, Honest
  <2>2. c.form = "cursor" /\ c.key = m.from.boot
    BY <1>1, <2>1 DEF Cursor
  <2> QED BY <2>1, <2>2, GoodCursor
<1>2. ~ Unsigned(c)
  <2>1. CASE c.form \in {"malformed", "not_a_string"}
    BY <2>1 DEF Verdict, Decode
  <2>2. CASE c.form = "cursor" /\ c.key = 0
    BY <2>2, GoodCursor DEF Minted
  <2> QED BY <2>1, <2>2 DEF Unsigned
<1> QED BY <1>1, <1>2 DEF Sent

LEMMA WhereItStarts ==
  ASSUME Minted, NEW p, p = process, NEW c, Sent(c), Verdict(p, c) = "ok"
  PROVE  /\ c = NoCursor => Served(p, c, 0)
         /\ \A m \in minted : c = m.cursor /\ p.pageSize # 0 => Served(p, c, m.place)
         /\ \E start : Served(p, c, start)
<1>1. p.pageSize \in Nat
  BY DEF Minted, Fits
<1>2. p.pageSize = 0 => Served(p, c, 0)
  BY DEF Served, Aligned
<1>3. c = NoCursor => Served(p, c, 0)
  <2>1. NoCursor.offset = 0
    BY DEF NoCursor, NotACursor
  <2>2. Aligned(0, p.pageSize)
    BY <1>1, SmallRemainder DEF Aligned
  <2> QED BY <2>1, <2>2 DEF Served
<1>4. ASSUME NEW m \in minted, c = m.cursor, p.pageSize # 0 PROVE Served(p, c, m.place)
  <2>1. /\ m.cursor = Cursor(m.place, Visible(m.from), m.from.boot)
        /\ m.from.boot = process.boot => m.from = process
        /\ m.place \in 1..(Total(m.from) - 1) /\ Aligned(m.place, m.from.pageSize)
        /\ Fits(m.from)
    BY DEF Minted, Honest
  <2>2. c.form = "cursor" /\ c.key = m.from.boot /\ c.offset = m.place
    BY <1>4, <2>1 DEF Cursor
  <2>3. m.from = p
    BY <1>4, <2>1, <2>2, GoodCursor
  <2>4. Total(p) \in Nat
    BY <2>1, <2>3, VisibleFilters, RangeAssumption
  <2> QED BY <1>4, <2>1, <2>2, <2>3, <2>4 DEF Served
<1>5. p.pageSize # 0 => c = NoCursor \/ \E m \in minted : c = m.cursor
  BY OnlyItsOwn
<1> QED BY <1>2, <1>3, <1>4, <1>5

(* The cursor that comes with a page is good for the next one.             *)
NextCursor(p, end) == [cursor |-> Cursor(end, Visible(p), p.boot), from |-> p, place |-> end]

LEMMA NextIsHonest ==
  ASSUME Minted, NEW p, p = process, NEW c, NEW start \in Nat, NEW end, NEW page,
         Page(p, c, start, end, page), end < Total(p)
  PROVE  Honest(NextCursor(p, end))
<1>1. Fits(p) /\ p.boot \in 1..p.boot /\ Total(p) \in Nat
  BY VisibleFilters, RangeAssumption DEF Minted
<1>2. end \in 1..(Total(p) - 1) /\ p.pageSize # 0 /\ Aligned(end, p.pageSize)
  BY <1>1 DEF Page
<1> QED BY <1>1, <1>2 DEF Honest, NextCursor

(* A request is refused, or answered with a page; only a page mints.       *)
LEMMA RequestServes ==
  ASSUME Minted, NEW c, Sent(c), Request(c)
  PROVE  /\ process' = process
         /\ reply'.cursor = c /\ reply'.from = process /\ reply'.result = Verdict(process, c)
         /\ \/ /\ Verdict(process, c) # "ok" /\ minted' = minted
               /\ reply'.tools = <<>> /\ reply'.next = NoCursor
            \/ /\ Verdict(process, c) = "ok"
               /\ \A start : Served(process, c, start) =>
                    \E end, page :
                      /\ Page(process, c, start, end, page)
                      /\ reply' = Response(process, c)
                      /\ minted' = IF end < Total(process)
                           THEN minted \cup {NextCursor(process, end)}
                           ELSE minted
<1> PICK p : p = process
  OBVIOUS
<1>1. process' = process /\ reply' = Response(p, c)
  BY DEF Request
<1>2. minted' = IF Response(p, c).next = NoCursor THEN minted
                ELSE minted \cup {[cursor |-> Response(p, c).next, from |-> p,
                                   place |-> Response(p, c).start + Len(Response(p, c).tools)]}
  BY DEF Request
<1>3. Response(p, c).cursor = c /\ Response(p, c).from = p /\ Response(p, c).result = Verdict(p, c)
  BY DEF Response
<1>4. CASE Verdict(p, c) # "ok"
  <2>1. Response(p, c).tools = <<>> /\ Response(p, c).next = NoCursor
    BY <1>4 DEF Response
  <2> QED BY <1>1, <1>2, <1>3, <1>4, <2>1
<1>5. CASE Verdict(p, c) = "ok"
  <2>1. ASSUME NEW start, Served(p, c, start)
        PROVE  \E end, page :
                 /\ Page(p, c, start, end, page)
                 /\ minted' = IF end < Total(p)
                      THEN minted \cup {NextCursor(p, end)}
                      ELSE minted
    <3>1. PICK end, page : Page(p, c, start, end, page)
      BY <1>5, <2>1, PageIsServed DEF Minted
    <3>2. end \in start..Total(p) /\ Len(page) = end - start /\ start \in Nat /\ Total(p) \in Nat
      BY <2>1, <3>1, VisibleFilters, RangeAssumption DEF Page, Served, Minted
    <3>3. /\ Response(p, c).next = IF end < Total(p) THEN Cursor(end, Visible(p), p.boot) ELSE NoCursor
          /\ Response(p, c).start = start /\ Response(p, c).tools = page
      BY <3>1 DEF Page
    <3>4. Cursor(end, Visible(p), p.boot) # NoCursor
      BY DEF Cursor, NoCursor, NotACursor
    <3>5. start + Len(page) = end
      BY <3>2
    <3> QED BY <1>2, <3>1, <3>3, <3>4, <3>5 DEF NextCursor
  <2> QED BY <1>1, <1>3, <1>5, <2>1
<1> QED BY <1>4, <1>5

-----------------------------------------------------------------------------
(* One request. *)

LEMMA RequestMints ==
  ASSUME Minted, NEW c, Sent(c), Request(c)
  PROVE  Minted'
<1> PICK p : p = process
  OBVIOUS
<1>1. process' = process
  BY RequestServes
<1>2. \A m : Honest(m) => Honest(m)'
  BY <1>1 DEF Honest
<1>3. CASE minted' = minted
  BY <1>1, <1>2, <1>3 DEF Minted
<1>4. CASE minted' # minted
  <2>1. Verdict(p, c) = "ok"
    BY <1>4, RequestServes
  <2>2. PICK start : Served(p, c, start)
    BY <2>1, WhereItStarts
  <2>3. PICK end, page : Page(p, c, start, end, page) /\ end < Total(p)
                         /\ minted' = minted \cup {NextCursor(p, end)}
    BY <1>4, <2>1, <2>2, RequestServes
  <2>4. start \in Nat
    BY <2>2 DEF Served
  <2>5. Honest(NextCursor(p, end))
    BY <2>3, <2>4, NextIsHonest
  <2>6. \A m \in minted' : Honest(m)'
    BY <1>2, <2>3, <2>5 DEF Minted
  <2> QED BY <1>1, <2>6 DEF Minted
<1> QED BY <1>3, <1>4

LEMMA MintedGrows ==
  ASSUME Minted, NEW c, Sent(c), Request(c)
  PROVE  minted \subseteq minted'
<1> PICK p : p = process
  OBVIOUS
<1>1. CASE Verdict(p, c) = "ok"
  <2>1. PICK start : Served(p, c, start)
    BY <1>1, WhereItStarts
  <2> QED BY <1>1, <2>1, RequestServes
<1>2. CASE Verdict(p, c) # "ok"
  BY <1>2, RequestServes
<1> QED BY <1>1, <1>2

LEMMA PageFilters ==
  ASSUME NEW p, Fits(p), NEW c, NEW start, Served(p, c, start), NEW end, NEW page,
         Page(p, c, start, end, page)
  PROVE  /\ ToSet(page) \subseteq ToSet(p.tools) \ p.denied
         /\ page = <<>> => Visible(p) = <<>>
<1>3. /\ Visible(p) \in Seq(Tools) /\ Len(Visible(p)) = Total(p) /\ Total(p) \in Nat
      /\ \A i \in 1..Total(p) : Visible(p)[i] \in ToSet(p.tools) \ p.denied
  BY VisibleFilters, RangeAssumption DEF Total
<1>4. start \in Nat /\ end \in start..Total(p) /\ page \in Seq(Tools) /\ Len(page) = end - start
      /\ (\A i \in 1..Len(page) : page[i] = Visible(p)[start + i])
      /\ (end = start => Total(p) = 0)
  BY DEF Page, Served
<1>5. \A i \in 1..Len(page) : start + i \in 1..Total(p)
  BY <1>3, <1>4
<1>6. \A i \in DOMAIN page : page[i] \in ToSet(p.tools) \ p.denied
  BY <1>3, <1>4, <1>5
<1>7. ToSet(page) \subseteq ToSet(p.tools) \ p.denied
  BY <1>6 DEF ToSet
<1>8. page = <<>> => Visible(p) = <<>>
  <2> SUFFICES ASSUME page = <<>> PROVE Visible(p) = <<>>
    OBVIOUS
  <2>1. Len(page) = 0
    OBVIOUS
  <2>2. end = start
    BY <1>3, <1>4, <2>1
  <2>3. Len(Visible(p)) = 0
    BY <1>3, <1>4, <2>2
  <2> QED BY <1>3, <2>3
<1> QED BY <1>7, <1>8

LEMMA RequestReplies ==
  ASSUME Minted, NEW c, Sent(c), Request(c)
  PROVE  Replied'
<1> PICK p : p = process
  OBVIOUS
<1>1. Verdict(p, c) \in Results
  BY DEF Verdict, Decode, Results
<1>2. reply'.cursor = c /\ reply'.from = p /\ reply'.result = Verdict(p, c)
  BY RequestServes
<1>3. CASE Verdict(p, c) # "ok"
  BY <1>1, <1>2, <1>3 DEF Replied, PagesContinue, PagesAreFiltered
<1>4. CASE Verdict(p, c) = "ok"
  <2>1. PagesContinue'
    <3> SUFFICES ASSUME c # NoCursor, p.pageSize > 0
                 PROVE  \E m \in minted' : m.cursor = c /\ m.from = p /\ m.place = reply'.start
      BY <1>2 DEF PagesContinue
    <3>0. p.pageSize # 0
      BY DEF Minted, Fits
    <3>1. PICK m \in minted : c = m.cursor /\ m.from = p
      BY <1>4, <3>0, OnlyItsOwn
    <3>2. Served(p, c, m.place)
      BY <1>4, <3>0, <3>1, WhereItStarts
    <3>3. reply'.start = m.place
      BY <1>4, <3>2, RequestServes DEF Page
    <3> QED BY <3>1, <3>3, MintedGrows
  <2>2. PagesAreFiltered'
    <3>1. PICK start : Served(p, c, start)
      BY <1>4, WhereItStarts
    <3>2. PICK end, page : Page(p, c, start, end, page) /\ reply' = Response(p, c)
      BY <1>4, <3>1, RequestServes
    <3>3. reply'.tools = page /\ Fits(p)
      BY <3>2 DEF Page, Minted
    <3> QED BY <1>2, <3>1, <3>2, <3>3, PageFilters DEF PagesAreFiltered
  <2> QED BY <1>1, <1>2, <2>1, <2>2 DEF Replied
<1> QED BY <1>3, <1>4

-----------------------------------------------------------------------------
(* The walk. *)

(* A walk stands where its cursor does, once none of the processes without *)
(* pages follows one with pages.                                           *)
AlwaysPages == \A d \in Later : d.pageSize # 0

Walking ==
  /\ walk.state \in {"idle", "open", "done", "refused"}
  /\ walk.state = "open" =>
       \E m \in minted : /\ m.cursor = walk.cursor
                         /\ walk.list = Visible(m.from)
                         /\ walk.seen = SubSeq(walk.list, 1, m.place)

Pageless == AlwaysPages /\ process.pageSize = 0 => minted = {}

Whole == AlwaysPages => WalkIsWhole

LEMMA Joined ==
  ASSUME NEW S, NEW v \in Seq(S), NEW i \in 0..Len(v), NEW j \in i..Len(v), NEW page \in Seq(S),
         Len(page) = j - i, \A k \in 1..Len(page) : page[k] = v[i + k]
  PROVE  SubSeq(v, 1, i) \o page = SubSeq(v, 1, j)
<1>1. /\ SubSeq(v, 1, i) \in Seq(S) /\ Len(SubSeq(v, 1, i)) = i
      /\ \A k \in 1..i : SubSeq(v, 1, i)[k] = v[k]
  OBVIOUS
<1>2. /\ SubSeq(v, 1, j) \in Seq(S) /\ Len(SubSeq(v, 1, j)) = j
      /\ \A k \in 1..j : SubSeq(v, 1, j)[k] = v[k]
  OBVIOUS
<1> DEFINE a == SubSeq(v, 1, i)
           b == SubSeq(v, 1, j)
<1> HIDE DEF a, b
<1>3. a \o page \in Seq(S) /\ Len(a \o page) = j
      /\ \A k \in 1..j : (a \o page)[k] = IF k <= i THEN a[k] ELSE page[k - i]
  BY <1>1 DEF a
<1>4. \A k \in 1..j : (a \o page)[k] = b[k]
  BY <1>1, <1>2, <1>3 DEF a, b
<1> QED BY <1>2, <1>3, <1>4 DEF a, b

(* The walk goes on from where its page starts.                            *)
LEMMA FollowKeeps ==
  ASSUME Minted, NEW c, Sent(c), Request(c), NEW p, p = process, Verdict(p, c) = "ok",
         NEW start, Served(p, c, start), NEW seen, NEW list, Follow(seen, list),
         list = Visible(p), seen = SubSeq(list, 1, start)
  PROVE  Walking' /\ WalkIsWhole'
<1>1. PICK end, page : /\ Page(p, c, start, end, page)
                       /\ reply' = Response(p, c)
                       /\ minted' = IF end < Total(p) THEN minted \cup {NextCursor(p, end)} ELSE minted
  BY RequestServes
<1>2. /\ start \in Nat /\ end \in start..Total(p) /\ page \in Seq(Tools) /\ Len(page) = end - start
      /\ \A i \in 1..Len(page) : page[i] = Visible(p)[start + i]
  BY <1>1 DEF Page, Served
<1>3. list \in Seq(Tools) /\ Len(list) = Total(p) /\ Total(p) \in Nat
  BY VisibleFilters, RangeAssumption DEF Minted, Total
<1>4. seen \o page = SubSeq(list, 1, end)
  <2>1. start \in 0..Len(list) /\ end \in start..Len(list)
    BY <1>2, <1>3
  <2>2. \A i \in 1..Len(page) : page[i] = list[start + i]
    BY <1>2
  <2>3. SubSeq(list, 1, start) \o page = SubSeq(list, 1, end)
    <3>1. page \in Seq(Tools) /\ list \in Seq(Tools) /\ Len(page) = end - start
      BY <1>2, <1>3
    <3> QED BY <2>1, <2>2, <3>1, Joined, Zenon
  <2> QED BY <2>3
<1>5. /\ reply'.result = "ok" /\ reply'.tools = page
      /\ reply'.next = IF end < Total(p) THEN Cursor(end, Visible(p), p.boot) ELSE NoCursor
  BY <1>1 DEF Page
<1>6. walk'.seen = SubSeq(list, 1, end) /\ walk'.list = list /\ walk'.cursor = reply'.next
  BY <1>4, <1>5 DEF Follow
<1>7. CASE end < Total(p)
  <2>1. reply'.next # NoCursor
    BY <1>5, <1>7 DEF Cursor, NoCursor, NotACursor
  <2>2. walk'.state = "open"
    BY <1>5, <2>1 DEF Follow
  <2>3. NextCursor(p, end) \in minted'
    BY <1>1, <1>7
  <2>4. /\ NextCursor(p, end).cursor = walk'.cursor
        /\ NextCursor(p, end).from = p /\ NextCursor(p, end).place = end
    BY <1>5, <1>6, <1>7 DEF NextCursor
  <2> QED BY <1>6, <2>2, <2>3, <2>4 DEF Walking, WalkIsWhole
<1>8. CASE ~ (end < Total(p))
  <2>1. reply'.next = NoCursor
    BY <1>5, <1>8
  <2>2. walk'.state = "done"
    BY <1>5, <2>1 DEF Follow
  <2>3. end = Len(list)
    BY <1>2, <1>3, <1>8
  <2>4. SubSeq(list, 1, end) = list
    BY <1>3, <2>3
  <2> QED BY <1>6, <2>2, <2>4 DEF Walking, WalkIsWhole
<1> QED BY <1>7, <1>8

(* A walk that is refused ends there.                                      *)
LEMMA FollowRefused ==
  ASSUME NEW seen, NEW list, Follow(seen, list), reply'.result # "ok"
  PROVE  Walking' /\ WalkIsWhole'
<1>1. walk'.state = "refused"
  BY DEF Follow
<1> QED BY <1>1 DEF Walking, WalkIsWhole

LEMMA FirstPageKeeps ==
  ASSUME Minted, FirstPage
  PROVE  Walking' /\ WalkIsWhole'
<1> PICK p : p = process
  OBVIOUS
<1>1. Request(NoCursor) /\ Follow(<<>>, Visible(p)) /\ Sent(NoCursor)
  BY DEF FirstPage, Sent
<1>2. CASE Verdict(p, NoCursor) = "ok"
  <2>1. Served(p, NoCursor, 0)
    BY <1>1, <1>2, WhereItStarts
  <2>2. Visible(p) \in Seq(Tools)
    BY VisibleFilters DEF Minted
  <2>3. <<>> = SubSeq(Visible(p), 1, 0)
    BY <2>2
  <2> QED BY <1>1, <1>2, <2>1, <2>3, FollowKeeps
<1>3. CASE Verdict(p, NoCursor) # "ok"
  BY <1>1, <1>3, RequestServes, FollowRefused
<1> QED BY <1>2, <1>3

LEMMA NextPageKeeps ==
  ASSUME Minted, Walking, Pageless, NextPage
  PROVE  Walking' /\ Whole'
<1> PICK p : p = process
  OBVIOUS
<1>1. PICK m \in minted : /\ m.cursor = walk.cursor
                          /\ walk.list = Visible(m.from)
                          /\ walk.seen = SubSeq(walk.list, 1, m.place)
  BY DEF Walking, NextPage
<1>2. PICK c, seen, list : c = m.cursor /\ seen = walk.seen /\ list = walk.list
  OBVIOUS
<1>3. Request(c) /\ Follow(seen, list) /\ Sent(c)
  BY <1>1, <1>2 DEF NextPage, Sent
<1>4. CASE Verdict(p, c) # "ok"
  BY <1>3, <1>4, RequestServes, FollowRefused DEF Whole
<1>5. CASE Verdict(p, c) = "ok" /\ p.pageSize # 0
  <2>1. PICK n \in minted : c = n.cursor /\ n.from = p
    <3>1. c # NoCursor
      <4>1. m.cursor = Cursor(m.place, Visible(m.from), m.from.boot)
        BY DEF Minted, Honest
      <4> QED BY <1>2, <4>1 DEF Cursor, NoCursor, NotACursor
    <3> QED BY <1>3, <1>5, <3>1, OnlyItsOwn
  <2>2. m.from = p
    <3>1. /\ m.cursor = Cursor(m.place, Visible(m.from), m.from.boot)
          /\ n.cursor = Cursor(n.place, Visible(n.from), n.from.boot)
          /\ m.from.boot = process.boot => m.from = process
      BY DEF Minted, Honest
    <3>2. m.from.boot = n.from.boot
      <4>1. m.cursor.key = m.from.boot
        BY <3>1 DEF Cursor
      <4>2. n.cursor.key = n.from.boot
        BY <3>1 DEF Cursor
      <4> QED BY <1>2, <2>1, <4>1, <4>2
    <3> QED BY <2>1, <3>1, <3>2
  <2>3. Served(p, c, m.place)
    BY <1>2, <1>3, <1>5, WhereItStarts
  <2>4. list = Visible(p) /\ seen = SubSeq(list, 1, m.place)
    BY <1>1, <1>2, <2>2
  <2> QED BY <1>3, <1>5, <2>3, <2>4, FollowKeeps DEF Whole
<1>6. CASE Verdict(p, c) = "ok" /\ p.pageSize = 0
  <2>1. ~ AlwaysPages
    BY <1>6 DEF Pageless
  <2>2. PICK start : Served(p, c, start)
    BY <1>3, <1>6, WhereItStarts
  <2>3. PICK end, page : Page(p, c, start, end, page) /\ reply' = Response(p, c)
    BY <1>3, <1>6, <2>2, RequestServes
  <2>4. reply'.next = NoCursor /\ reply'.result = "ok"
    BY <1>6, <2>3 DEF Page
  <2>5. walk'.state = "done"
    BY <1>3, <2>4 DEF Follow
  <2>6. Whole'
    BY <2>1 DEF Whole, AlwaysPages
  <2> QED BY <2>5, <2>6 DEF Walking
<1> QED BY <1>4, <1>5, <1>6

-----------------------------------------------------------------------------
(* All together. *)

Inv == Minted /\ Replied /\ Walking /\ Pageless /\ Whole

LEMMA RequestPageless ==
  ASSUME Minted, Pageless, NEW c, Sent(c), Request(c)
  PROVE  Pageless'
<1> PICK p : p = process
  OBVIOUS
<1>1. process' = process
  BY RequestServes
<1>2. CASE p.pageSize # 0
  BY <1>1, <1>2 DEF Pageless
<1>3. CASE p.pageSize = 0 /\ Verdict(p, c) # "ok"
  BY <1>1, <1>3, RequestServes DEF Pageless, AlwaysPages
<1>4. CASE p.pageSize = 0 /\ Verdict(p, c) = "ok"
  <2>1. PICK start : Served(p, c, start)
    BY <1>4, WhereItStarts
  <2>2. PICK end, page : /\ Page(p, c, start, end, page)
                         /\ minted' = IF end < Total(p) THEN minted \cup {NextCursor(p, end)} ELSE minted
    BY <1>4, <2>1, RequestServes
  <2>3. minted' = minted
    BY <1>4, <2>2 DEF Page
  <2> QED BY <1>1, <2>3 DEF Pageless, AlwaysPages
<1> QED BY <1>2, <1>3, <1>4

LEMMA RestartKeeps ==
  ASSUME Inv, Restart
  PROVE  Inv'
<1>1. PICK d \in Later :
        process' = [boot |-> process.boot + 1, tools |-> d.tools, denied |-> d.denied,
                    pageSize |-> d.pageSize]
  BY DEF Restart
<1>2. minted' = minted /\ walk' = walk /\ reply' = reply /\ process.boot < MaxBoots
      /\ process.boot \in 1..MaxBoots
  BY DEF Restart, Inv, Minted
<1>3. process'.boot = process.boot + 1 /\ Fits(process)'
      /\ process'.pageSize = d.pageSize
  BY <1>1, DeploymentAssumption DEF Fits
<1>4. ASSUME NEW m \in minted PROVE Honest(m)'
  <2>1. Honest(m) /\ m.from.boot \in 1..process.boot
    BY DEF Inv, Minted, Honest
  <2>2. m.from.boot \in 1..process'.boot /\ m.from.boot # process'.boot
    BY <1>2, <1>3, <2>1, RangeAssumption
  <2> QED BY <2>1, <2>2 DEF Honest
<1>5. Minted'
  BY <1>2, <1>3, <1>4, RangeAssumption DEF Minted
<1>6. Replied' /\ Walking' /\ Whole'
  BY <1>2 DEF Inv, Replied, PagesContinue, PagesAreFiltered, Walking, Whole, WalkIsWhole, AlwaysPages
<1>7. Pageless'
  BY <1>1, <1>3 DEF Pageless, AlwaysPages
<1> QED BY <1>5, <1>6, <1>7 DEF Inv

LEMMA Step ==
  ASSUME Inv, [Next]_vars
  PROVE  Inv'
<1>1. CASE FirstPage
  <2>1. Request(NoCursor) /\ Sent(NoCursor)
    BY <1>1 DEF FirstPage, Sent
  <2> QED BY <1>1, <2>1, RequestMints, RequestReplies, RequestPageless, FirstPageKeeps
          DEF Inv, Whole
<1>2. CASE NextPage
  <2>1. PICK c : c = walk.cursor
    OBVIOUS
  <2>2. Request(c) /\ Sent(c)
    BY <1>2, <2>1 DEF NextPage, Sent, Inv, Walking
  <2> QED BY <1>2, <2>2, RequestMints, RequestReplies, RequestPageless, NextPageKeeps DEF Inv
<1>3. CASE StrayPage
  <2>1. PICK c \in {m.cursor : m \in minted} \cup MadeUp : Request(c)
    BY <1>3 DEF StrayPage
  <2>2. Sent(c)
    BY MadeUpUnsigned DEF Sent, Inv
  <2>3. minted \subseteq minted' /\ walk' = walk
    BY <1>3, <2>1, <2>2, MintedGrows DEF StrayPage, Inv
  <2>4. Walking' /\ Whole'
    BY <2>3 DEF Inv, Walking, Whole, WalkIsWhole, AlwaysPages
  <2> QED BY <2>1, <2>2, <2>4, RequestMints, RequestReplies, RequestPageless DEF Inv
<1>4. CASE Restart
  BY <1>4, RestartKeeps
<1>5. CASE UNCHANGED vars
  <2>1. process' = process /\ minted' = minted /\ walk' = walk /\ reply' = reply
    BY <1>5 DEF vars
  <2> QED BY <2>1 DEF Inv, Minted, Honest, Replied, PagesContinue, PagesAreFiltered, Walking,
                      Pageless, Whole, WalkIsWhole, AlwaysPages
<1> QED BY <1>1, <1>2, <1>3, <1>4, <1>5 DEF Next

LEMMA Start == Init => Inv
<1> SUFFICES ASSUME Init PROVE Inv
  OBVIOUS
<1>1. PICK d \in First :
        process = [boot |-> 1, tools |-> d.tools, denied |-> d.denied, pageSize |-> d.pageSize]
  BY DEF Init
<1>2. process.boot = 1 /\ Fits(process)
  BY <1>1, DeploymentAssumption DEF Fits
<1>3. minted = {} /\ walk.state = "idle" /\ reply = Response(process, NoCursor)
  BY DEF Init
<1>4. Minted /\ Walking /\ Pageless /\ Whole
  BY <1>2, <1>3, RangeAssumption DEF Minted, Walking, Pageless, Whole, WalkIsWhole
<1> PICK p : p = process
  OBVIOUS
<1>5. /\ reply.cursor = NoCursor /\ reply.from = p /\ reply.result = Verdict(p, NoCursor)
      /\ reply.result # "ok" => reply.tools = <<>>
  BY <1>3 DEF Response
<1>6. Replied
  <2>1. Verdict(p, NoCursor) \in Results
    BY DEF Verdict, Decode, Results
  <2>2. PagesContinue
    BY <1>5 DEF PagesContinue
  <2>3. ASSUME Verdict(p, NoCursor) = "ok" PROVE PagesAreFiltered
    <3>1. Served(p, NoCursor, 0)
      BY <1>4, <2>3, WhereItStarts DEF Sent
    <3>2. PICK end, page : Page(p, NoCursor, 0, end, page)
      BY <1>2, <2>3, <3>1, PageIsServed
    <3>3. reply.tools = page
      BY <1>3, <3>2 DEF Page
    <3> QED BY <1>2, <1>5, <3>1, <3>2, <3>3, PageFilters DEF PagesAreFiltered
  <2> QED BY <1>5, <2>1, <2>2, <2>3 DEF Replied, PagesAreFiltered
<1> QED BY <1>4, <1>6 DEF Inv

LEMMA Always == Spec => []Inv
BY Start, Step, PTL DEF Spec

(* Every variable of the paging has its type.                              *)
THEOREM PaginationTyped == Spec => []TypeOK
<1>1. Inv => TypeOK
  <2> SUFFICES ASSUME Inv PROVE TypeOK
    OBVIOUS
  <2>1. ASSUME NEW m \in minted PROVE m.cursor.offset \in 0..(OffsetRange - 1)
    <3>1. /\ m.cursor = Cursor(m.place, Visible(m.from), m.from.boot)
          /\ m.place \in 1..(Total(m.from) - 1) /\ Fits(m.from)
      BY DEF Inv, Minted, Honest
    <3>2. m.cursor.offset = m.place
      BY <3>1 DEF Cursor
    <3> QED BY <3>1, <3>2, VisibleFilters, RangeAssumption
  <2> QED BY <2>1 DEF Inv, Minted, Walking, Replied, Results, TypeOK
<1> QED BY <1>1, Always, PTL

(* A cursor is never silently mis-paginated: decode's checks and handle_list's slices. *)
THEOREM PagesFollow == Spec => []PagesContinue
<1>1. Inv => PagesContinue
  BY DEF Inv, Replied
<1> QED BY <1>1, Always, PTL

(* No page shows a denied tool, and only an empty list has an empty page:  *)
(* visible_tool_defs and the bounds of handle_list's slices.               *)
THEOREM PagesFilter == Spec => []PagesAreFiltered
<1>1. Inv => PagesAreFiltered
  BY DEF Inv, Replied
<1> QED BY <1>1, Always, PTL

(* The process honours every cursor it minted: what encode signs, decode   *)
(* accepts, and the list never changes while the process lives.            *)
THEOREM CursorsWork == Spec => []OwnCursorsWork
<1>1. Inv => OwnCursorsWork
  <2> SUFFICES ASSUME Inv, NEW m \in minted, m.from = process
               PROVE  Verdict(process, m.cursor) = "ok"
    BY DEF OwnCursorsWork
  <2> PICK p : p = process
    OBVIOUS
  <2>1. /\ m.cursor = Cursor(m.place, Visible(p), p.boot) /\ Fits(p)
        /\ m.place \in 1..(Total(p) - 1) /\ Aligned(m.place, p.pageSize) /\ p.pageSize # 0
    BY DEF Inv, Minted, Honest
  <2>2. /\ m.cursor.form = "cursor" /\ m.cursor.key = p.boot /\ m.cursor.snapshot = Visible(p)
        /\ m.cursor.offset = m.place
    BY <2>1 DEF Cursor
  <2>3. ~ (m.place = 0 \/ m.place >= Total(p) \/ m.place % p.pageSize # 0)
    <3>1. Total(p) \in Nat
      BY <2>1, VisibleFilters, RangeAssumption
    <3>2. m.place % p.pageSize = 0
      BY <2>1 DEF Aligned
    <3>3. m.place # 0 /\ ~ (m.place >= Total(p))
      BY <2>1, <3>1
    <3> QED BY <3>2, <3>3
  <2> QED BY <2>1, <2>2, <2>3 DEF Verdict, Decode
<1> QED BY <1>1, Always, PTL

(* Pagination_restart shows a stale cursor answered. It takes a process    *)
(* with pages off: one that pages answers no cursor but its own.           *)
THEOREM StaleRefused == Spec => [](reply.from.pageSize > 0 => StaleCursorsRefused)
<1>1. Inv => (reply.from.pageSize > 0 => StaleCursorsRefused)
  <2> SUFFICES ASSUME Inv, reply.from.pageSize > 0, reply.result = "ok",
                      NEW m \in minted, m.cursor = reply.cursor
               PROVE  m.from.boot = reply.from.boot
    BY DEF StaleCursorsRefused
  <2>1. ASSUME NEW n \in minted
        PROVE  n.cursor.form = "cursor" /\ n.cursor.key = n.from.boot
    <3>1. Honest(n)
      BY DEF Inv, Minted
    <3>2. PICK p : p = n.from
      OBVIOUS
    <3>3. n.cursor = Cursor(n.place, Visible(p), p.boot)
      BY <3>1, <3>2, Zenon DEF Honest
    <3> QED BY <3>2, <3>3 DEF Cursor
  <2>2. reply.cursor # NoCursor
    BY <2>1 DEF NoCursor, NotACursor
  <2>3. PICK n \in minted : n.cursor = reply.cursor /\ n.from = reply.from
    BY <2>2 DEF Inv, Replied, PagesContinue
  <2> QED BY <2>1, <2>3
<1> QED BY <1>1, Always, PTL

(* A client that follows the cursors reads the whole list, once and in     *)
(* order, as long as no process without pages follows one with pages: that *)
(* one ignores the cursor and sends its whole list.                        *)
THEOREM WalksAreWhole ==
  ASSUME \A d \in Later : d.pageSize # 0
  PROVE  Spec => []WalkIsWhole
<1>1. Inv => WalkIsWhole
  BY DEF Inv, Whole, AlwaysPages
<1> QED BY <1>1, Always, PTL

=============================================================================
