---------------------------- MODULE MCAlgorithms ----------------------------
(***************************************************************************)
(* Small inputs of what a thread does by itself: parsers, the merging and  *)
(* writing of answers, the choice of a server, scans and the configuration *)
(* files.  A behaviour is one of the component that reading names, and the *)
(* others rest; the parsers share their stream.                            *)
(***************************************************************************)
EXTENDS RequestParser, ResponseParser, ClusterNodesParser, AddrParser, Answers, Scan,
        ReadServer, ConfParser

CONSTANT Transactions   \* whether clients use them

Text(s) == <<"$", ToString(Len(s))>> \o CRLF \o s \o CRLF
-----------------------------------------------------------------------------
(* Commands of clients: names are one or two letters.                      *)

Entry(mode, min, max) ==
    [mode |-> mode, min |-> min, max |-> max, pairs |-> FALSE, inline |-> FALSE,
     transaction |-> ""]

Commands ==
    <<"g">> :> Entry("Any", 2, 2) @@ <<"d", "l">> :> Entry("MultiKey", 2, 9)
    @@ <<"s">> :> [Entry("MultiKeyVal", 3, 9) EXCEPT !.pairs = TRUE]
    @@ <<"u">> :> Entry("SMultiKey", 2, 9)
    @@ <<"e">> :> Entry("KeyAt3", 3, 9) @@ <<"b">> :> Entry("KeyAt2", 4, 9)
    @@ <<"p">> :> [Entry("Any", 1, 2) EXCEPT !.inline = TRUE]
    @@ <<"M">> :> [Entry("NoKey", 1, 1) EXCEPT !.transaction = "begin"]
    @@ <<"X">> :> [Entry("NoKey", 1, 1) EXCEPT !.transaction = "end"]

Sent(args) == [args |-> args, inline |-> FALSE, wrong |-> FALSE, bytes |-> Encoded(args)]
Typed(args, bytes) == [args |-> args, inline |-> TRUE, wrong |-> FALSE, bytes |-> bytes]
Garbage(bytes) == [args |-> <<>>, inline |-> FALSE, wrong |-> TRUE, bytes |-> bytes]

a == <<"a">>
aCR == <<"a", "CR">>
none == <<>>

Conversations ==
    IF Transactions
    THEN {<<Sent(<<<<"M">>>>), Sent(<<<<"d", "l">>, a, aCR>>), Sent(<<<<"X">>>>)>>}
    ELSE {
      <<Sent(<<<<"g">>, aCR>>), Sent(<<<<"g">>, a>>)>>,
      <<Sent(<<<<"g">>, none>>), Typed(<<<<"p">>>>, <<"p", "LF">>)>>,
      <<Sent(<<<<"d", "l">>, a, aCR, none>>), Sent(<<<<"d", "l">>, aCR>>)>>,
      <<Sent(<<<<"s">>, a, none, aCR, a>>), Garbage(<<"*", "0", "CR">>)>>,
      <<Sent(<<<<"s">>, a, none, aCR>>), Sent(<<<<"u">>, a, aCR>>)>>,
      <<Sent(<<<<"e">>, aCR, <<"1">>, a, none>>)>>,
      <<Sent(<<<<"b">>, aCR, none, a>>)>>,
      <<Sent(<<<<"z">>, aCR, a>>), Sent(<<<<"g">>>>), Sent(<<<<"p">>>>)>>,
      <<Typed(<<<<"p">>, <<"a", "\"", "CR", "\\", "\"", " ", "\"">>>>,
              <<"p", " ", "a", "\"", "CR", "\\", "\"", " ", "\"", "CR", "LF">>),
        Typed(<<<<"g">>, a>>, <<"g", " ", "a", "LF">>)>> }

Bytes(items) == FlattenSeq([k \in DOMAIN items |-> items[k].bytes])

RequestsInit ==
    \E conversation \in Conversations, splitting \in BOOLEAN :
       /\ Opened("requests", conversation, Bytes(conversation), NewRequest)
       /\ conn = [splitMultiKey |-> splitting, split |-> FALSE, transaction |-> FALSE]

RequestsRest ==
    conn = [splitMultiKey |-> FALSE, split |-> FALSE, transaction |-> FALSE]
-----------------------------------------------------------------------------
(* Answers of servers.                                                     *)

Answer(type, n, bytes) ==
    [type |-> type, integer |-> n, wrong |-> FALSE, bytes |-> bytes]
Array(n, elements) == <<"*", n>> \o CRLF \o FlattenSeq(elements)
Null == <<"$", "-", "1">> \o CRLF
One == <<":", "1">> \o CRLF
Ok == <<"+", "O">> \o CRLF

ServerAnswers == {
    <<Answer("Status", 0, Ok), Answer("Integer", -12, <<":", "-", "1", "2">> \o CRLF),
      Answer("Error", 0, <<"-", "*">> \o CRLF)>>,
    <<Answer("String", 0, Text(<<"CR", "LF", "+">>)), Answer("String", 0, Null),
      Answer("String", 0, Text(none)), Answer("Integer", 1, One)>>,
    <<Answer("Array", 0, Array("2", <<Text(<<"CR">>), Array("2", <<Null, One>>)>>)),
      Answer("Array", 0, <<"*", "-", "1">> \o CRLF), Answer("Status", 0, Ok)>>,
    <<Answer("Array", 0, Array("2", <<Array("1", <<Array("0", <<>>)>>), Text(none)>>)),
      Answer("Array", 0, Array("0", <<>>)), Answer("Integer", 1, One)>>,
    <<Answer("Array", 0, Array("2", <<Array("1", <<Array("1", <<One>>)>>), Ok>>)),
      Answer("Integer", 1, One)>>,
    <<Answer("Integer", 1, One),
      [Answer("None", 0, Array("1", <<Array("1", <<Array("1", <<Array("1", <<One>>)>>)>>)>>))
         EXCEPT !.wrong = TRUE]>> }

ResponsesInit ==
    \E answers \in ServerAnswers :
       Opened("responses", answers, Bytes(answers), NewResponse)
-----------------------------------------------------------------------------
(* Answers to CLUSTER NODES and of sentinels.                              *)

NodeLine(id, addr, flags, master, slots, text) ==
    [id |-> id, addr |-> addr, flags |-> flags, master |-> master, slots |-> slots,
     wrong |-> FALSE,
     bytes |-> id \o <<" ">> \o addr \o <<" ">> \o flags \o <<" ">> \o master
               \o <<" ", "0", " ", "0", " ", "1", " ", "l">> \o text \o <<"LF">>]

Room == <<2, 2, 3, 2>>

NodeLists == {
    <<NodeLine(a, <<"x">>, <<"myself", ",", "master">>, <<"-">>, <<0..12, {7}, 14..15>>,
               <<" ", "0", "-", "1", "2", " ", "7", " ", "1", "4", "-", "1", "5">>),
      NodeLine(<<"b">>, <<"y">>, <<"slave">>, a, <<>>, <<>>)>>,
    <<NodeLine(<<"b">>, <<"y">>, <<"slave", ",", "noaddr">>, a, <<>>, <<>>),
      NodeLine(a, <<"x", "1">>, <<"master">>, <<"-">>, <<3..4, {}, {8}>>,
               <<" ", "3", "-", "4", " ", "[", "9", "-", ">", "b", "]", " ", "8">>)>>,
    <<NodeLine(a, <<"x", "1">>, <<"master">>, <<"-">>, <<{}>>,
               <<" ", "[", "9", "-", "<", "b", "]">>),
      NodeLine(<<"c">>, <<"z">>, <<"handshake">>, <<"-">>, <<>>, <<>>)>>,
    <<NodeLine(a, <<"x">>, <<"master">>, <<"-">>, <<{5}, {}>>,
               <<" ", "5", " ", "[", "9", "-", "<", "b", "]">>),
      [NodeLine(<<"c">>, <<"z", "z", "z">>, <<"handshake">>, <<"-">>, <<>>, <<>>)
         EXCEPT !.wrong = TRUE]>> }

NodesInit ==
    \E lines \in NodeLists :
       Opened("nodes", lines, <<"$", "9">> \o CRLF \o Bytes(lines) \o CRLF, NewNodes)

\* The pairs before the ip, those between it and the port, and those behind.
Told(before, ip, between, port, after) ==
    LET texts(strings) == FlattenSeq([k \in DOMAIN strings |-> Text(strings[k])])
    IN [ip |-> ip, port |-> port, wrong |-> FALSE,
        bytes |-> <<"*", ToString(4 + Len(before) + Len(between) + Len(after))>> \o CRLF
          \o texts(before \o <<<<"i", "p">>, ip>> \o between \o <<<<"p", "o", "r", "t">>,
                   [k \in DOMAIN port |-> Digits[port[k] + 1]]>> \o after)]

Sentences == {
    <<>>,
    <<Told(<<<<"n", "a", "m", "e">>, <<"m">>>>, <<"1">>, <<>>, <<7>>, <<>>),
      Told(<<>>, <<"2">>, <<>>, <<9, 9>>, <<>>)>>,
    <<Told(<<<<"f">>, <<"p", "o">>>>, <<":", ":", "1">>, <<<<"i", "d">>, <<>>>>, <<0>>,
           <<<<"o", "k">>, <<"d">>>>),
      [ip |-> <<>>, port |-> <<>>, wrong |-> TRUE, bytes |-> Null]>> }

AddressesInit ==
    \E told \in Sentences :
       Opened("addresses", told, <<"*", ToString(Len(told))>> \o CRLF \o Bytes(told), NewAddr)
-----------------------------------------------------------------------------
(* Split commands and the answers to their parts.                          *)

Part(type, n, before, bytes) ==
    [type |-> type, integer |-> n, before |-> before, bytes |-> bytes \o CRLF]
Got(v, before) ==
    Part("Array", 0, before, <<"*", "1", "CR", "LF", "$", "1", "CR", "LF", v>>)
Missing(before) == Part("Array", 0, before, <<"*", "1", "CR", "LF", "$", "-", "1">>)
Number(n, before) == Part("Integer", n, before, <<":", ToString(n)>>)
Wrong(before) == Part("Error", 0, before, <<"-", "E">>)
Fine(before) == Part("Status", 0, before, <<"+", "O">>)
Sha == Part("String", 0, 1, <<"$", "1", "CR", "LF", "s">>)

Command(type, parts) == [type |-> type, parts |-> parts]

SplitCommands == {
    <<Command("Mget", <<Got("v", 0), Missing(2)>>), Command("Single", <<Fine(1)>>)>>,
    <<Command("Single", <<Fine(0)>>), Command("Mget", <<Wrong(1), Got("w", 1), Wrong(0)>>)>>,
    <<Command("Del", <<Wrong(2), Number(1, 0), Number(1, 1)>>), Command("Single", <<Sha>>)>>,
    <<Command("Exists", <<Number(1, 2), Number(0, 0)>>),
      Command("Touch", <<Wrong(0), Wrong(1)>>)>>,
    <<Command("Mset", <<Fine(0), Wrong(1), Fine(2)>>),
      Command("Msetnx", <<Number(1, 0), Number(0, 1)>>)>>,
    <<Command("Msetnx", <<Number(0, 0), Wrong(1), Number(1, 2)>>),
      Command("Mset", <<Fine(0), Fine(0)>>)>>,
    <<Command("ScriptLoad", <<Sha, Wrong(1), Sha>>), Command("ScriptLoad", <<Sha, Sha>>)>> }

PageSequences == {<<0>>, <<0, 2>>, <<0, 3, 1>>}
-----------------------------------------------------------------------------
(* Servers to read from.  Prefixes are sequences of numbers, nested ones   *)
(* with different data centres; one data centre has no weight and one no   *)
(* priority.                                                               *)

Serv(online, fail, role, addr, pend) ==
    [online |-> online, fail |-> fail, role |-> role, addr |-> addr, pend |-> pend]

Servs == {
    Serv(FALSE, FALSE, "master", <<1, 1>>, 0), Serv(TRUE, FALSE, "master", <<1, 1>>, 1),
    Serv(TRUE, TRUE, "master", <<1>>, 0), Serv(TRUE, FALSE, "static", <<1, 2, 1>>, 0),
    Serv(TRUE, FALSE, "static", <<2, 1>>, 1), Serv(TRUE, FALSE, "static", <<1, 2, 1>>, 2),
    Serv(TRUE, TRUE, "static", <<2, 1>>, 0), Serv(TRUE, FALSE, "static", <<1, 3>>, 1),
    Serv(TRUE, FALSE, "unknown", <<2, 1>>, 0), Serv(TRUE, FALSE, "dynamic", <<2, 2>>, 0),
    Serv(TRUE, FALSE, "dynamic", <<3, 1>>, 0), Serv(TRUE, TRUE, "dynamic", <<1, 3>>, 0)}

Priorities == [master |-> 1, static |-> 2, dynamic |-> 2, unknown |-> 0]
Prefixed == <<1>> :> "a" @@ <<1, 2>> :> "b" @@ <<1, 2, 2>> :> "a" @@ <<2>> :> "c"
            @@ <<2, 2>> :> "d"
DCPriorities == [a |-> 2, b |-> 1, c |-> 1, d |-> 0]
DCWeights == [a |-> 1, b |-> 2, c |-> 0, d |-> 3]
-----------------------------------------------------------------------------
(* Configuration files: four lines, with one that is included.             *)

ConfLine(text, says, key, val) == [text |-> text, says |-> says, key |-> key, val |-> val]

ConfLines == {
    ConfLine(<<" ", "a", " ", " ", "b", "c", " ", "#", "d">>, "pair", <<"a">>, <<"b", "c">>),
    ConfLine(<<"a", " ", "\"", "b", " ", "\\", "\"", "#", "\"", "#">>, "pair",
             <<"a">>, <<"b", " ", "\"", "#">>),
    ConfLine(<<"s", " ", "{">>, "open", <<"s">>, <<>>),
    ConfLine(<<"s", " ", "\"", "n", "\"", "{", " ">>, "open", <<"s">>, <<"n">>),
    ConfLine(<<" ", "}", " ", "#", "x">>, "close", <<>>, <<>>),
    ConfLine(<<" ", "#", "{">>, "nothing", <<>>, <<>>),
    ConfLine(<<"Include", " ", "part">>, "include", <<>>, <<"part">>),
    ConfLine(<<"a", " ", "\"", "n", "\"", "x">>, "wrong", <<>>, <<>>) }

Included == {
    <<ConfLine(<<"t", " ", "n", " ", "{">>, "open", <<"t">>, <<"n">>),
      ConfLine(<<"p", " ", "v">>, "pair", <<"p">>, <<"v">>),
      ConfLine(<<"}">>, "close", <<>>, <<>>)>>,
    <<ConfLine(<<"p">>, "pair", <<"p">>, <<>>), ConfLine(<<"}">>, "close", <<>>, <<>>)>>,
    <<ConfLine(<<"Include", " ", "main">>, "include", <<>>, <<"main">>)>> }

Content(main, part) ==
    [f \in {<<"main">>, <<"part">>} |-> IF f = <<"main">> THEN main ELSE part]
-----------------------------------------------------------------------------
NothingToParse(kind) == Opened(kind, <<>>, <<>>, NewResponse)

Parsers == {"requests", "responses", "nodes", "addresses"}

AlgorithmsInit ==
    /\ \/ RequestsInit
       \/ RequestsRest /\ ~Transactions
          /\ \/ ResponsesInit \/ NodesInit \/ AddressesInit
             \/ \E kind \in {"answers", "scan", "read", "conf"} : NothingToParse(kind)
    /\ IF reading = "answers"
       THEN \E cs \in SplitCommands : AnswersInit(cs) ELSE AnswersInit(<<>>)
    /\ IF reading = "scan"
       THEN \E n \in 0..2, masters \in SUBSET (0..2) : \E ps \in [0..n -> PageSequences] :
               masters \subseteq 0..n /\ ScanInit(ps, masters)
       ELSE ScanInit(<<>>, {})
    /\ IF reading = "read" THEN servs \in [1..3 -> Servs] /\ located \in BOOLEAN
       ELSE servs = <<>> /\ located = FALSE
    /\ chosen = Unread
    /\ IF reading = "conf"
       THEN \E main \in [1..4 -> ConfLines], part \in Included :
               ConfInit(Content(main, part), <<"main">>)
       ELSE ConfInit(Content(<<>>, <<>>), <<"main">>)

Parses ==
    /\ reading \in Parsers
    /\ \/ RequestNext
       \/ (ResponseNext \/ NodesNext \/ AddrNext) /\ UNCHANGED conn
    /\ UNCHANGED <<answerVars, scanVars, readVars, confVars>>

Computes ==
    /\ \/ reading = "answers" /\ AnswersNext /\ UNCHANGED <<scanVars, readVars, confVars>>
       \/ reading = "scan" /\ ScanNext /\ UNCHANGED <<answerVars, readVars, confVars>>
       \/ reading = "read" /\ ReadNext /\ UNCHANGED <<answerVars, scanVars, confVars>>
       \/ reading = "conf" /\ ConfNext /\ UNCHANGED <<answerVars, scanVars, readVars>>
    /\ UNCHANGED requestVars

AlgorithmsNext == Parses \/ Computes

AlgorithmsSpec ==
    AlgorithmsInit
    /\ [][AlgorithmsNext]_<<requestVars, answerVars, scanVars, readVars, confVars>>
=============================================================================
