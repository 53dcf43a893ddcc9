------------------------------ MODULE MCStartup ------------------------------
(* A small instance of Startup for TLC: command lines of up to three flags, *)
(* good, bad and repeated. Every value is the name of a file.               *)
EXTENDS Startup, TLC

Items ==
  {<<"--module", "m.wasm">>, <<"--module", "n.wasm">>, <<"--policy", "p.yaml">>,
   <<"--policy", "q.yaml">>, <<"--audit", "a.jsonl">>, <<"--audit">>, <<"--policy">>, <<"--page-size", "2">>,
   <<"--page-size", "m.wasm">>, <<"--debug-guest-stderr">>, <<"--json">>, <<"--bogus">>, <<"2">>}

MCDashed ==
  {"--module", "--policy", "--audit", "--page-size", "--debug-guest-stderr", "--json", "--bogus",
   "--version", "--help"}

MCCommandLines ==
  {<<c>> \o FlattenSeq(items) : c \in Commands, items \in SeqOf(Items, 2)}
    \cup {<<"run", "--module", "m.wasm">> \o FlattenSeq(items) : items \in SeqOf(Items, 2)}
    \cup {<<>>, <<"--version">>, <<"--help">>, <<"serve">>, <<"run", "--module", "m.wasm", "--audit", "m.wasm">>,
           <<"run", "--policy", "p.yaml", "--audit", "p.yaml", "--module", "p.yaml">>}

Disk(m, n, p, q, a) ==
  "m.wasm" :> m @@ "n.wasm" :> n @@ "p.yaml" :> p @@ "q.yaml" :> q @@ "a.jsonl" :> a @@ "2" :> "missing"
    @@ "--policy" :> "missing"

MCDisks ==
  {Disk("wasm 1", "wasm 2", "policy 1", "policy 2", "missing"),
   Disk("wasm 1", "missing", "policy 1", "text", "directory")}

MCContents == {"wasm 1", "wasm 2", "policy 1", "policy 2", "text", "missing"}

Lists(pages) == [answer |-> "tools", pages |-> pages]

MCOutputs ==
  {Silent, [answer |-> "no_tools", pages |-> <<<<>>>>], Lists(<<<<>>>>), Lists(<<<<"t", Unnamed, "u">>>>),
   Lists(<<<<"t">>, <<"u">>>>), Lists(<<<<"t">>, <<Unnamed>>>>)}
=============================================================================
