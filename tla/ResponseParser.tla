--------------------------- MODULE ResponseParser ---------------------------
(***************************************************************************)
(* The parser of what servers answer.  It looks for the end of an answer:  *)
(* the elements of an array are counted on a stack, and only the type, the *)
(* integer and the bytes of an answer are kept.                            *)
(***************************************************************************)
EXTENDS Chunks

CONSTANT MaxArrayDepth

NewResponse ==
    [st |-> "Idle", type |-> "None", integer |-> 0, sign |-> FALSE, len |-> 0,
     body |-> 0, left |-> <<>>, from |-> 0]

TypeOf == [b \in {"+", "-", ":", "$", "*"} |->
             CASE b = "+" -> "Status" [] b = "-" -> "Error" [] b = ":" -> "Integer"
               [] b = "$" -> "String" [] b = "*" -> "Array"]

\* The answer is complete with this byte.
Answered ==
    /\ found' = Append(found,
          [type |-> parser.type,
           integer |-> IF parser.type = "Integer" THEN parser.integer ELSE 0,
           bytes |-> SubSeq(stream, parser.from, pos)])
    /\ parser' = NewResponse
    /\ pos' = pos + 1
    /\ UnchangedStream

\* left: the elements that are missing, of every array that has begun.  An
\* element that ends an array is the end of an element of the one around it.
PoppedOnce(left) ==
    LET k == Len(left)
    IN IF left[k] > 1 THEN [left EXCEPT ![k] = @ - 1] ELSE Front(left)

Popped(left) ==
    LET k == SelectLastInSeq(left, LAMBDA missing : missing > 1)
    IN IF k = 0 THEN <<>> ELSE [SubSeq(left, 1, k) EXCEPT ![k] = @ - 1]
-----------------------------------------------------------------------------
In(states) == Ready("responses") /\ parser.st \in states

ResponseIdle ==
    /\ In({"Idle"})
    /\ IF Byte \notin DOMAIN TypeOf THEN Fail
       ELSE Step([parser EXCEPT !.type = TypeOf[Byte], !.from = pos,
                    !.st = IF Byte \in {"+", "-"} THEN "LineHead" ELSE "NumberHead"])

ResponseLine ==
    /\ In({"LineHead", "LineBody"})
    /\ Step(IF Byte # "CR" THEN parser
            ELSE [parser EXCEPT !.st = IF @ = "LineHead" THEN "HeadLF" ELSE "ElementLF"])

\* The number of the head, of a string in an array, or of an array in one: the
\* latter is not expected to be negative.
ResponseNumber ==
    /\ In({"NumberHead", "SubStringLen", "SubArrayLen"})
    /\ CASE IsDigit -> Step([parser EXCEPT !.integer = @ * 10 + Value])
         [] Byte = "CR" ->
               Step(CASE parser.st = "NumberHead" ->
                           [parser EXCEPT !.st = "HeadLF",
                                          !.integer = IF parser.sign THEN -@ ELSE @]
                      [] parser.st = "SubStringLen" ->
                           [parser EXCEPT !.st = IF parser.sign THEN "ElementLF"
                                                 ELSE "SubStringLenLF"]
                      [] OTHER ->
                           [parser EXCEPT !.st = IF parser.integer > 0 THEN "SubArrayLenLF"
                                                 ELSE "ElementLF"])
         [] Byte = "-" /\ ~parser.sign /\ parser.st # "SubArrayLen" ->
               Step([parser EXCEPT !.sign = TRUE])
         [] OTHER -> Fail

HeadLF ==
    /\ In({"HeadLF"})
    /\ CASE Byte # "LF" -> Fail
         [] Byte = "LF" /\ parser.type = "String" /\ parser.integer >= 0 ->
               Step([parser EXCEPT !.st = "StringBody", !.len = parser.integer, !.body = 0])
         [] Byte = "LF" /\ parser.type = "Array" /\ parser.integer > 0 ->
               Step([parser EXCEPT !.st = "ArrayBody", !.left = <<parser.integer>>])
         [] OTHER -> Answered

ArrayBody ==
    /\ In({"ArrayBody"})
    /\ CASE Byte \in {"+", "-", ":"} -> Step([parser EXCEPT !.st = "LineBody"])
         [] Byte = "$" -> Step([parser EXCEPT !.st = "SubStringLen", !.sign = FALSE,
                                              !.integer = 0])
         [] Byte = "*" -> Step([parser EXCEPT !.st = "SubArrayLen", !.integer = 0])
         [] OTHER -> Fail

SubLenLF ==
    /\ In({"SubStringLenLF", "SubArrayLenLF"})
    /\ CASE Byte # "LF" -> Fail
         [] Byte = "LF" /\ parser.st = "SubStringLenLF" ->
               Step([parser EXCEPT !.st = "SubStringBody", !.len = parser.integer, !.body = 0])
         [] OTHER ->
               IF Len(parser.left) = MaxArrayDepth THEN Fail
               ELSE Step([parser EXCEPT !.st = "ArrayBody",
                                        !.left = Append(@, parser.integer)])

StringBody ==
    /\ In({"StringBody", "SubStringBody"})
    /\ SkipBody(parser.len - parser.body, "CR",
                [parser EXCEPT !.st = IF @ = "StringBody" THEN "StringBodyLF" ELSE "ElementLF"])
    /\ UNCHANGED found /\ UnchangedStream

StringBodyLF == In({"StringBodyLF"}) /\ IF Byte = "LF" THEN Answered ELSE Fail

ElementLF ==
    /\ In({"ElementLF"})
    /\ CASE Byte # "LF" -> Fail
         [] Byte = "LF" /\ Popped(parser.left) = <<>> -> Answered
         [] OTHER -> Step([parser EXCEPT !.st = "ArrayBody", !.left = Popped(@)])

ResponseReceive == ReceiveOf("responses")

ResponseNext ==
    \/ ResponseReceive
    \/ ResponseIdle \/ ResponseLine \/ ResponseNumber \/ HeadLF
    \/ ArrayBody \/ SubLenLF \/ StringBody \/ StringBodyLF \/ ElementLF
-----------------------------------------------------------------------------
\* Every answer is found with its type and its bytes, however deep its arrays and
\* wherever a buffer ends: an answer that ends too early or too late would put
\* every later one of the connection to the wrong request.
ResponsesDecoded ==
    ParsedRight("responses",
       FoldLeft(LAMBDA all, answer : IF answer.wrong THEN all
                  ELSE Append(all, [type |-> answer.type, integer |-> answer.integer,
                                    bytes |-> answer.bytes]), <<>>, meant))
=============================================================================
