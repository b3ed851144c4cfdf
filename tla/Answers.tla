------------------------------- MODULE Answers -------------------------------
(***************************************************************************)
(* From the responses of the parts of split commands to the bytes that a   *)
(* client receives: how they are merged (Response::adjustForLeader and     *)
(* Request::setResponse), filled into vectors and written in pieces        *)
(* (AcceptConnection::fill and write).  A number is one byte here.         *)
(***************************************************************************)
EXTENDS Segments, TLC

CONSTANT MaxIOVecLen

VARIABLES
    commands,   \* what the client asked: a type, and the answer to each part, with
                \* the bytes that stand before it in its chain of buffers
    list,       \* mRequests: <<command, part>>; the first part is the leader
    done,       \* the parts that are answered
    merged,     \* mRes of each part
    written     \* what the client has received

answerVars == <<commands, list, done, merged, written>>

Sums == {"Touch", "Exists", "Del", "Unlink"}
CRLF == <<"CR", "LF">>

PartsOf(c) == {c} \X DOMAIN commands[c].parts
Leader(r) == <<r[1], 1>>
Type(r) == commands[r[1]].type

NoResponse == [type |-> "None", integer |-> 0, head |-> EmptySegment, body |-> EmptySegment]

\* The leader of a LOAD is in the list, and its followers are not.
AnswersInit(cs) ==
    /\ commands = cs
    /\ list = FlattenSeq([c \in DOMAIN cs |->
                 [k \in 1..(IF cs[c].type = "ScriptLoad" THEN 1 ELSE Len(cs[c].parts)) |->
                    <<c, k>>]])
    /\ done = {}
    /\ merged = [r \in UNION {PartsOf(c) : c \in DOMAIN cs} |-> NoResponse]
    /\ written = <<>>

\* isDone()
IsDone(r) ==
    IF r = Leader(r) /\ Type(r) \notin {"Mget", "Single"}
    THEN PartsOf(r[1]) \subseteq done ELSE r \in done
-----------------------------------------------------------------------------
\* The response to a part, in the buffers of its server's connection.
ResponseOf(r) ==
    LET p == commands[r[1]].parts[r[2]]
    IN [type |-> p.type, integer |-> p.integer, head |-> EmptySegment,
        body |-> SegmentIn([i \in 1..p.before |-> "x"], p.bytes, <<"y">>)]

\* adjustForLeader() of a piece of MGET: "*1\r\n" is cut, and the leader's piece
\* has the head of the whole.  An error is a null.
MgetPiece(r, res) ==
    LET head == IF r = Leader(r)
                THEN <<"*", ToString(Cardinality(PartsOf(r[1])))>> \o CRLF ELSE <<>>
    IN IF res.type = "Array"
       THEN [res EXCEPT !.body = Cut(@, 4), !.head = NewSegment(head)]
       ELSE [res EXCEPT !.type = "Array",
                        !.body = NewSegment(head \o <<"$", "-", "1">> \o CRLF)]

\* The integer of another part is added to that of the leader's response.
Added(old, res) ==
    IF res.type = "Integer" /\ res.integer > 0
    THEN [old EXCEPT !.integer = @ + res.integer] ELSE old

Total(res) ==
    [res EXCEPT !.type = "Integer",
                !.body = NewSegment(<<":", ToString(res.integer)>> \o CRLF)]

\* setResponse(), where old is the response that the leader has.
Responded(r, res) ==
    LET type   == Type(r)
        old    == merged[Leader(r)]
        none   == old.type = "None"
        sum    == IF none THEN res ELSE Added(old, res)
        all    == PartsOf(r[1]) \subseteq done \cup {r}
        better == CASE type = "Mset" -> res.type = "Error" /\ old.type # "Error"
                    [] type = "Msetnx" -> /\ old.type # "Error"
                                          /\ res.type = "Error" \/ res.integer = 0
                    [] type = "ScriptLoad" -> old.type = "String" /\ res.type # "String"
                    [] OTHER -> FALSE
    IN CASE type = "Single" -> [merged EXCEPT ![r] = res]
         [] type = "Mget"   -> [merged EXCEPT ![r] = MgetPiece(r, res)]
         [] type \in Sums   -> [merged EXCEPT ![Leader(r)] = IF all THEN Total(sum) ELSE sum]
         [] OTHER -> [merged EXCEPT ![Leader(r)] = IF none \/ better THEN res ELSE old]

\* Handler::handleResponse(): the parts are answered in any order.
Respond ==
    \E r \in DOMAIN merged \ done :
       /\ merged' = Responded(r, ResponseOf(r))
       /\ done' = done \cup {r}
       /\ UNCHANGED <<commands, list, written>>
-----------------------------------------------------------------------------
\* Response::fill(): the last vector of a response names the request.
ResponseFill(r, count) ==
    LET head == FillOf(merged[r].head, count)
        body == FillOf(merged[r].body, count - Len(head.vecs))
        vecs(fill, part) == [k \in DOMAIN fill.vecs |->
                               [r |-> r, part |-> part, vec |-> fill.vecs[k], last |-> FALSE]]
        both == vecs(head, "head") \o (IF head.all THEN vecs(body, "body") ELSE <<>>)
    IN IF head.all /\ body.all /\ both # <<>> THEN [both EXCEPT ![Len(both)].last = TRUE]
       ELSE both

\* AcceptConnection::fill(): a request without a response is dropped if nothing
\* is before it, else when what follows it is written.
Filled ==
    FoldLeft(LAMBDA acc, r :
       IF acc.stop \/ Len(acc.vecs) = MaxIOVecLen \/ ~IsDone(r) THEN [acc EXCEPT !.stop = TRUE]
       ELSE IF merged[r].type = "None"
       THEN [acc EXCEPT !.dropped = IF acc.vecs = <<>> THEN @ + 1 ELSE @]
       ELSE [acc EXCEPT !.vecs = @ \o ResponseFill(r, MaxIOVecLen - Len(@))],
       [vecs |-> <<>>, dropped |-> 0, stop |-> FALSE], list)

\* AcceptConnection::write(), of which the socket takes num bytes.
WrittenWhole(acc, v) ==
    IF acc.num <= 0 THEN acc
    ELSE [num |-> acc.num - v.vec.len,
          list |-> IF v.last THEN SubSeq(acc.list, SelectInSeq(acc.list, LAMBDA r : r = v.r) + 1,
                                         Len(acc.list))
                   ELSE acc.list,
          merged |-> [acc.merged EXCEPT ![v.r][v.part] = Sought(@, v.vec.from, v.vec.len)]]

Written(acc, v) ==
    IF acc.num <= 0 THEN acc
    ELSE [num |-> acc.num - v.vec.len,
          list |-> IF v.last /\ v.vec.len <= acc.num
                   THEN SubSeq(acc.list, SelectInSeq(acc.list, LAMBDA r : r = v.r) + 1,
                               Len(acc.list))
                   ELSE acc.list,
          merged |-> [acc.merged EXCEPT ![v.r][v.part] =
                        Sought(@, v.vec.from, Min({v.vec.len, acc.num}))]]

WriteEvent ==
    LET filled == Filled
        bytes == FlattenSeq([k \in DOMAIN filled.vecs |->
                    VecBytes(merged[filled.vecs[k].r][filled.vecs[k].part], filled.vecs[k].vec)])
    IN \E num \in 0..Len(bytes) :
          LET after == FoldLeft(Written,
                 [num |-> num, merged |-> merged,
                  list |-> SubSeq(list, filled.dropped + 1, Len(list))], filled.vecs)
          IN /\ num + filled.dropped > 0
             /\ list' = after.list
             /\ merged' = after.merged
             /\ written' = written \o SubSeq(bytes, 1, num)
             /\ UNCHANGED <<commands, done>>

AnswersNext == Respond \/ WriteEvent
-----------------------------------------------------------------------------
\* The answer that the client is to receive, as a single server would give it:
\* but an error among the pieces of a MGET is a null, and in a sum it counts
\* nothing, even if there is no other.
AnswerTo(command) ==
    LET parts == command.parts
        has(P(_)) == \E k \in DOMAIN parts : P(parts[k])
        one(P(_)) == SelectSeq(parts, P)[1].bytes
        wrong(p) == p.type = "Error"
        number(n) == <<":", ToString(n)>> \o CRLF
        piece(p) == IF p.type = "Array" THEN SubSeq(p.bytes, 5, Len(p.bytes))
                    ELSE <<"$", "-", "1">> \o CRLF
    IN CASE command.type = "Mget" ->
              <<"*", ToString(Len(parts))>> \o CRLF
                 \o FlattenSeq([k \in DOMAIN parts |-> piece(parts[k])])
         [] command.type \in Sums ->
              number(FoldLeft(LAMBDA n, p : IF p.type = "Integer" THEN n + p.integer ELSE n,
                              0, parts))
         [] command.type # "Mget" /\ has(wrong) -> one(wrong)
         [] command.type = "Msetnx" /\ ~has(wrong) ->
              number(IF has(LAMBDA p : p.integer = 0) THEN 0 ELSE 1)
         [] OTHER -> parts[1].bytes

\* The client receives the answers to its commands, each whole and in order, in
\* whatever order the parts are answered and wherever a write stops; and when all
\* are answered, nothing is left behind.
AnswersWritten ==
    LET answers == FlattenSeq([c \in DOMAIN commands |-> AnswerTo(commands[c])])
    IN /\ IsPrefix(written, answers)
       /\ done = DOMAIN merged /\ Filled.vecs = <<>> => written = answers
=============================================================================
