----------------------------- MODULE Pagination -----------------------------
(***************************************************************************)
(* tools/list page by page: the Paginator of src/src/paginate.rs, the      *)
(* handle_list of src/src/server.rs that builds one per request, and       *)
(* clients that walk the pages, replay old cursors and make cursors up,    *)
(* while the process is restarted with another guest, policy or page size. *)
(*                                                                         *)
(* A cursor is the record of what its bytes encode; the key that signed it *)
(* is named by the process that drew it, and a tag that no process signed  *)
(* has key 0. HMAC and the 8-byte digest of the tool names are taken to be *)
(* free of collisions.                                                     *)
(***************************************************************************)
EXTENDS Integers, Sequences, SequencesExt

CONSTANTS
  Tools,        \* the tools a guest may list
  First,        \* what the first process may be run with
  Later,        \* what a restarted process may be run with
  OffsetRange,  \* offsets are encoded modulo this: 2^32 in the code
  MaxBoots      \* bound: how many processes there are

ASSUME RangeAssumption == OffsetRange \in Nat \ {0} /\ MaxBoots \in Nat \ {0}

(* A list is shorter than the offsets reach: the probe reads at most the   *)
(* 1 GiB that output_max_kb allows, and every tool takes a byte of it.     *)
ASSUME DeploymentAssumption ==
  \A d \in First \cup Later :
    d.tools \in Seq(Tools) /\ Len(d.tools) <= OffsetRange /\ d.pageSize \in Nat

VARIABLES
  process,  \* the running process: its number and what it was run with
  minted,   \* every cursor sent, with the list and the place it stood for
  walk,     \* a client that reads the whole list, page after page
  reply     \* the last tools/list reply and the request's cursor

vars == <<process, minted, walk, reply>>

-----------------------------------------------------------------------------
(* paginate.rs. *)

Cursor(offset, snapshot, key) ==
  [form |-> "cursor", offset |-> offset, snapshot |-> snapshot, key |-> key]

NotACursor(form) == [form |-> form, offset |-> 0, snapshot |-> <<>>, key |-> 0]

NoCursor == NotACursor("none")

(* Mutant: the policy is left to tools/call. *)
Unfiltered(p) == p.tools

(* visible_tool_defs: the policy filters before anything is paged. *)
Visible(p) ==
  FlattenSeq([i \in DOMAIN p.tools |-> IF p.tools[i] \in p.denied THEN <<>> ELSE <<p.tools[i]>>])

Total(p) == Len(Visible(p))

(* Mutant: the cursor names the tool after the next one. *)
EncodeNext(p, offset) == Cursor((offset + 1) % OffsetRange, Visible(p), p.boot)

(* Mutant: the offset counts from the end of the list and is not cast. *)
EncodeFromEnd(p, offset) == Cursor(offset - Total(p), Visible(p), p.boot)

Encode(p, offset) == Cursor(offset % OffsetRange, Visible(p), p.boot)

(* Mutant: the tag is not verified. *)
DecodeUnsigned(p, c) ==
  CASE c.form \in {"not_a_string", "malformed"} -> c.form
    [] c.form = "cursor" /\ (c.offset = 0 \/ c.offset >= Total(p)) -> "out_of_range"
    [] OTHER -> "ok"

(* Mutant: the last page may not be short. *)
DecodeFullPages(p, c) ==
  CASE c.form \in {"not_a_string", "malformed"} -> c.form
    [] c.form = "cursor" /\ c.key # p.boot -> "bad_mac"
    [] c.form = "cursor" /\ c.key = p.boot /\ c.offset + p.pageSize > Total(p) -> "out_of_range"
    [] OTHER -> "ok"

(* The reason a cursor is refused for, or "ok". *)
Decode(p, c) ==
  CASE c.form = "not_a_string"         -> "not_a_string"
    [] c.form = "malformed"            -> "malformed"
    [] c.form = "cursor" /\ c.key # p.boot -> "bad_mac"
    [] c.form = "cursor" /\ c.key = p.boot /\ c.snapshot # Visible(p) -> "snapshot_mismatch"
    [] c.form = "cursor" /\ c.key = p.boot /\ c.snapshot = Visible(p) ->
         IF c.offset = 0 \/ c.offset >= Total(p) \/ c.offset % p.pageSize # 0
           THEN "out_of_range" ELSE "ok"
    [] OTHER -> "ok"

(* A cursor that is no string is refused first; with page_size 0 every     *)
(* other one is ignored.                                                   *)
Verdict(p, c) ==
  IF p.pageSize = 0 /\ c.form # "not_a_string" THEN "ok" ELSE Decode(p, c)

(* Mutant: the end of a page does not move with its start. *)
FixedEnd(p, start) == IF p.pageSize = 0 \/ p.pageSize >= Total(p) THEN Total(p) ELSE p.pageSize

PageEnd(p, start) ==
  IF p.pageSize = 0 \/ start + p.pageSize >= Total(p) THEN Total(p) ELSE start + p.pageSize

(* What is served for cursor c: a page, or the reason there is none. *)
Response(p, c) ==
  LET start == IF p.pageSize = 0 THEN 0 ELSE c.offset
      end   == PageEnd(p, start)
      good  == Verdict(p, c) = "ok"
  IN  [cursor |-> c,
       from   |-> p,
       result |-> Verdict(p, c),
       start  |-> IF good THEN start ELSE 0,
       tools  |-> IF good THEN SubSeq(Visible(p), start + 1, end) ELSE <<>>,
       next   |-> IF good /\ end < Total(p) THEN Encode(p, end) ELSE NoCursor]

-----------------------------------------------------------------------------
(* Requests. *)

Request(c) ==
  LET r == Response(process, c) IN
  /\ reply' = r
  /\ minted' = IF r.next = NoCursor THEN minted
               ELSE minted \cup {[cursor |-> r.next, from |-> process,
                                  place |-> r.start + Len(r.tools)]}
  /\ UNCHANGED process

(* What the walk makes of the reply to its request. *)
Follow(seen, list) ==
  walk' = [state  |-> CASE reply'.result # "ok"     -> "refused"
                        [] reply'.result = "ok" /\ reply'.next = NoCursor -> "done"
                        [] OTHER                    -> "open",
           cursor |-> reply'.next,
           seen   |-> seen \o reply'.tools,
           list   |-> list]

FirstPage ==
  /\ walk.state # "open"
  /\ Request(NoCursor)
  /\ Follow(<<>>, Visible(process))

NextPage ==
  /\ walk.state = "open"
  /\ Request(walk.cursor)
  /\ Follow(walk.seen, walk.list)

(* Another client, or the same one out of turn, sends a cursor it was      *)
(* given once or one it made up.                                           *)
MadeUp ==
  {NotACursor("malformed"), NotACursor("not_a_string")}
    \cup {[m.cursor EXCEPT !.key = 0] : m \in minted}
    \cup {Cursor(o, Visible(process), 0) : o \in 0..Total(process)}

StrayPage ==
  /\ \E c \in {m.cursor : m \in minted} \cup MadeUp : Request(c)
  /\ UNCHANGED walk

Restart ==
  /\ process.boot < MaxBoots
  /\ \E d \in Later :
       process' = [boot |-> process.boot + 1, tools |-> d.tools, denied |-> d.denied,
                   pageSize |-> d.pageSize]
  /\ UNCHANGED <<minted, walk, reply>>

Init ==
  /\ \E d \in First :
       process = [boot |-> 1, tools |-> d.tools, denied |-> d.denied, pageSize |-> d.pageSize]
  /\ minted = {}
  /\ walk = [state |-> "idle", cursor |-> NoCursor, seen |-> <<>>, list |-> <<>>]
  /\ reply = Response(process, NoCursor)

Next == FirstPage \/ NextPage \/ StrayPage \/ Restart

Spec == Init /\ [][Next]_vars

(* A client that has begun to read the list reads on. *)
FairSpec == Spec /\ WF_vars(NextPage)

-----------------------------------------------------------------------------
(* Properties. *)

TypeOK ==
  /\ process.boot \in 1..MaxBoots
  /\ \A m \in minted : m.cursor.offset \in 0..(OffsetRange - 1)
  /\ walk.state \in {"idle", "open", "done", "refused"}
  /\ reply.result \in {"ok", "malformed", "not_a_string", "bad_mac", "snapshot_mismatch",
                       "out_of_range"}

(* A page served for a cursor continues exactly where the page that came   *)
(* with that cursor ended, in the same list of the same process: a cursor  *)
(* is never silently mis-paginated.                                        *)
PagesContinue ==
  reply.result = "ok" /\ reply.cursor # NoCursor /\ reply.from.pageSize > 0 =>
    \E m \in minted : /\ m.cursor = reply.cursor
                      /\ m.from = reply.from
                      /\ m.place = reply.start

(* A client that follows the cursors to the end has read every visible     *)
(* tool once and in order, whatever was replayed meanwhile and whatever    *)
(* process with pages was started. One without pages, which ignores the    *)
(* cursor in the middle of the walk, is left to StaleCursorsRefused.       *)
WalkIsWhole == walk.state = "done" => walk.seen = walk.list

(* No denied tool is on any page, and none but the first page is empty. *)
PagesAreFiltered ==
  reply.result = "ok" =>
    /\ ToSet(reply.tools) \subseteq ToSet(reply.from.tools) \ reply.from.denied
    /\ reply.tools = <<>> => Visible(reply.from) = <<>>

(* A cursor the process minted itself is honoured for as long as it lives. *)
OwnCursorsWork ==
  \A m \in minted : m.from = process => Verdict(process, m.cursor) = "ok"

(* Following the cursors comes to an end. *)
WalksEnd == walk.state = "open" ~> walk.state # "open"

(* "reused after a restart fails verification and is rejected": a cursor   *)
(* that an earlier process minted is never answered with a page.           *)
StaleCursorsRefused ==
  reply.result = "ok" =>
    \A m \in minted : m.cursor = reply.cursor => m.from.boot = reply.from.boot

=============================================================================
