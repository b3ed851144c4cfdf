--------------------------- MODULE RequestParser ---------------------------
(***************************************************************************)
(* The parser of what clients send, with the requests that AcceptConnec-   *)
(* tion makes of it.  A command with several keys may be split: the parser *)
(* returns Partial at the end of each key, and the part that it names is   *)
(* put behind a head with the command (Request::set).                      *)
(*                                                                         *)
(* A byte is a string of one character, CR and LF aside.  Left out are     *)
(* command names of more than MaxCmdLen bytes and the limit on the bytes   *)
(* of a command that is known to be invalid.                               *)
(***************************************************************************)
EXTENDS Chunks, TLC

CONSTANT CommandTable   \* by name: mode, min and max arguments, pairs (mset and
                        \* msetnx), inline (allowed there), transaction

VARIABLE conn   \* the proxy's SplitMultiKey, split for the buffer that is
                \* parsed, and whether the client is in a transaction

requestVars == <<chunkVars, conn>>

NewRequest ==
    [st |-> "Idle", inline |-> FALSE, escape |-> FALSE, quote |-> "", num |-> 0,
     cnt |-> 0, len |-> 0, body |-> 0, name |-> <<>>, status |-> "Normal",
     from |-> 0, key |-> <<1, 0>>, leader |-> FALSE]

Known == parser.name \in DOMAIN CommandTable
Mode == IF Known THEN CommandTable[parser.name].mode ELSE "Unknown"
Space == {" ", "CR", "LF"}

\* isKey() of the argument cnt
IsKey(split) ==
    CASE Mode = "NoKey"       -> FALSE
      [] Mode = "MultiKey"    -> IF split THEN parser.cnt > 0 ELSE parser.cnt = 1
      [] Mode = "SMultiKey"   -> parser.cnt > 0
      [] Mode = "MultiKeyVal" -> IF split THEN parser.cnt % 2 = 1 ELSE parser.cnt = 1
      [] Mode = "KeyAt2"      -> parser.cnt = 2
      [] Mode = "KeyAt3"      -> parser.cnt = 3
      [] OTHER                -> parser.cnt = 1

\* isSplit() before the argument cnt
IsSplitAlways(cnt, split) ==
    CASE Mode = "MultiKey"    -> split /\ parser.num > 2
      [] Mode = "MultiKeyVal" -> split /\ parser.num > 3 /\ cnt % 2 = 1
      [] Mode = "SMultiKey"   -> parser.num > 2
      [] OTHER                -> FALSE

IsSplit(cnt, split) ==
    /\ parser.status = "Normal"
    /\ CASE Mode = "MultiKey"    -> split /\ parser.num > 2
         [] Mode = "MultiKeyVal" -> split /\ parser.num > 3 /\ cnt % 2 = 1
         [] Mode = "SMultiKey"   -> parser.num > 2
         [] OTHER                -> FALSE

\* parseCmd()
Judged(p) ==
    LET c == CommandTable[p.name]
    IN [p EXCEPT !.status =
          IF ~Known THEN "CmdError"
          ELSE IF p.inline THEN IF c.inline THEN "Normal" ELSE "CmdError"
          ELSE IF p.num \notin c.min..c.max \/ (c.pairs /\ p.num % 2 = 0)
               THEN "ArgError" ELSE "Normal"]

-----------------------------------------------------------------------------
\* A request or a part is complete with this byte.  A command that begins or
\* ends a transaction is handled at once.
HeadOf(name) ==
    <<"*", IF CommandTable[name].pairs THEN "3" ELSE "2", "CR", "LF",
      "$", ToString(Len(name)), "CR", "LF">> \o name \o <<"CR", "LF">>

Deliver(p, status) ==
    LET part == p.leader \/ status = "Partial"
        sent == SubSeq(stream, p.from, pos)
        change == IF status = "Complete" THEN CommandTable[p.name].transaction ELSE ""
    IN /\ found' = Append(found,
             [status |-> status, part |-> part, transaction |-> conn.transaction,
              sent |-> IF part THEN HeadOf(p.name) \o sent ELSE sent,
              key |-> IF status \in {"CmdError", "ArgError"} THEN <<>>
                      ELSE SubSeq(stream, p.key[1], p.key[2])])
       /\ parser' = IF status = "Partial" THEN [p EXCEPT !.leader = TRUE] ELSE NewRequest
       /\ conn' = [conn EXCEPT !.transaction =
                      IF change = "" THEN @ ELSE change = "begin"]
       /\ pos' = pos + 1
       /\ UnchangedStream

Finish(p) == Deliver(p, IF p.status = "Normal" THEN "Complete" ELSE p.status)

\* The end of argument cnt, without its LF.
NextArgument(p, tag) ==
    IF p.cnt + 1 = p.num THEN Finish(p)
    ELSE Step([p EXCEPT !.cnt = @ + 1, !.st = tag]) /\ UNCHANGED conn

-----------------------------------------------------------------------------
At(states) == Ready("requests") /\ parser.st \in states

RequestIdle ==
    /\ At({"Idle", "InlineBegin"})
    /\ UNCHANGED conn
    /\ IF parser.st = "Idle" /\ Byte = "*"
       THEN Step([parser EXCEPT !.st = "ArgNum", !.from = pos, !.num = 0])
       ELSE IF Byte \in Space
       THEN Step([parser EXCEPT !.st = IF Byte = "LF" THEN "Idle" ELSE "InlineBegin",
                                !.inline = TRUE])
       ELSE Step([parser EXCEPT !.st = "InlineCmd", !.inline = TRUE, !.from = pos,
                                !.name = <<Byte>>])

\* The word of an inline command that ends before this byte.
InlineWordEnd(p) ==
    IF Byte = "LF" THEN Finish(p)
    ELSE Step([p EXCEPT !.st = "InlineArgBegin"]) /\ UNCHANGED conn

InlineCmd ==
    /\ At({"InlineCmd"})
    /\ IF Byte \in Space
       THEN InlineWordEnd([Judged(parser) EXCEPT !.cnt = 1])
       ELSE Step([parser EXCEPT !.name = Append(@, Byte)]) /\ UNCHANGED conn

\* An argument ends at a space outside of quotes.
InlineArg ==
    /\ At({"InlineArgBegin", "InlineArg", "InlineArgEnd"})
    /\ LET p == IF parser.st = "InlineArgBegin" /\ parser.cnt = 1
                THEN [parser EXCEPT !.key[1] = pos] ELSE parser
           ended == IF p.cnt = 1 THEN [p EXCEPT !.key[2] = pos - 1] ELSE p
           inside == [p EXCEPT !.st = "InlineArg"]
       IN CASE parser.st = "InlineArgBegin" /\ Byte \in Space -> InlineWordEnd(parser)
            [] parser.st = "InlineArgEnd" ->
                  IF Byte \in Space THEN InlineWordEnd([ended EXCEPT !.cnt = @ + 1])
                  ELSE Fail /\ UNCHANGED conn
            [] OTHER ->
                  IF p.escape THEN Step([inside EXCEPT !.escape = FALSE]) /\ UNCHANGED conn
                  ELSE IF p.quote # ""
                  THEN /\ CASE Byte = p.quote -> Step([inside EXCEPT !.st = "InlineArgEnd"])
                            [] Byte = "\\"    -> Step([inside EXCEPT !.escape = TRUE])
                            [] Byte = "LF"    -> Fail
                            [] OTHER          -> Step(inside)
                       /\ UNCHANGED conn
                  ELSE IF Byte \in Space
                  THEN InlineWordEnd([ended EXCEPT !.cnt = @ + 1])
                  ELSE /\ Step(IF Byte \in {"'", "\""}
                               THEN [inside EXCEPT !.quote = Byte] ELSE inside)
                       /\ UNCHANGED conn

-----------------------------------------------------------------------------
(* The multi bulk form.  K, A and S states are those of the key, of the    *)
(* arguments behind it, and of the arguments of a command with a mode.     *)

AfterTag == [CmdTag |-> "CmdLen", KeyTag |-> "KeyLen", ArgTag |-> "ArgLen",
             SArgTag |-> "SArgLen"]
AfterNumber == [ArgNum |-> "ArgNumLF", CmdLen |-> "CmdLenLF", KeyLen |-> "KeyLenLF",
                ArgLen |-> "ArgLenLF", SArgLen |-> "SArgLenLF"]
AfterLF == [ArgNumLF |-> "CmdTag", CmdLenLF |-> "CmdBody", KeyLenLF |-> "KeyBody",
            ArgLenLF |-> "ArgBody", SArgLenLF |-> "SArgBody"]
AfterBody == [KeyBody |-> "KeyBodyLF", ArgBody |-> "ArgBodyLF", SArgBody |-> "SArgBodyLF"]
AfterArgument == [KeyBodyLF |-> "ArgTag", ArgBodyLF |-> "ArgTag", SArgBodyLF |-> "SArgTag"]

RequestTag ==
    /\ At(DOMAIN AfterTag)
    /\ IF Byte # "$" THEN Fail
       ELSE Step([parser EXCEPT
                    !.st = AfterTag[parser.st], !.len = 0,
                    !.from = IF parser.st = "SArgTag" /\ IsSplit(parser.cnt, conn.split)
                             THEN pos ELSE @])
    /\ UNCHANGED conn

RequestNumber ==
    /\ At(DOMAIN AfterNumber)
    /\ LET field == IF parser.st = "ArgNum" THEN "num" ELSE "len"
       IN IF IsDigit THEN Step([parser EXCEPT ![field] = @ * 10 + Value])
          ELSE IF Byte = "CR" /\ (parser.st \in {"ArgNum", "CmdLen"} => parser[field] > 0)
          THEN Step([parser EXCEPT !.st = AfterNumber[parser.st]])
          ELSE Fail
    /\ UNCHANGED conn

RequestLF ==
    /\ At(DOMAIN AfterLF)
    /\ IF Byte = "LF" THEN Step([parser EXCEPT !.st = AfterLF[parser.st], !.body = 0])
       ELSE Fail
    /\ UNCHANGED conn

CmdBody ==
    /\ At({"CmdBody"})
    /\ IF parser.body < parser.len
       THEN Step([parser EXCEPT !.name = Append(@, Byte), !.body = @ + 1])
       ELSE Expect("CR", "CmdBodyLF")
    /\ UNCHANGED conn

CmdBodyLF ==
    /\ At({"CmdBodyLF"})
    /\ IF Byte # "LF" THEN Fail /\ UNCHANGED conn
       ELSE NextArgument([Judged(parser) EXCEPT !.cnt = 0],
                         IF Mode \in {"Any", "Unknown"} THEN "KeyTag" ELSE "SArgTag")

\* The key is remembered from its first byte to its last.
ArgumentBody ==
    /\ At(DOMAIN AfterBody)
    /\ LET isKey == \/ parser.st = "KeyBody"
                    \/ parser.st = "SArgBody" /\ IsKey(conn.split)
           left == parser.len - parser.body
           p == IF isKey /\ parser.body = 0 THEN [parser EXCEPT !.key[1] = pos] ELSE parser
           available == arrived - pos + 1
       IN IF available <= left
          THEN /\ parser' = [p EXCEPT !.body = @ + available]
               /\ pos' = arrived + 1
          ELSE /\ parser' = IF stream[pos + left] # "CR" THEN [p EXCEPT !.st = "Error"]
                            ELSE [p EXCEPT !.st = AfterBody[p.st],
                                           !.key[2] = IF isKey THEN pos + left - 1 ELSE @]
               /\ pos' = pos + left + 1
    /\ UNCHANGED <<found, conn>> /\ UnchangedStream

\* The last argument ends the request, and a key (with its value) a part.
ArgumentLF ==
    /\ At(DOMAIN AfterArgument)
    /\ IF Byte # "LF" THEN Fail /\ UNCHANGED conn
       ELSE IF /\ parser.st = "SArgBodyLF" /\ parser.cnt + 1 < parser.num
               /\ IsSplit(parser.cnt + 1, conn.split)
       THEN Deliver([parser EXCEPT !.cnt = @ + 1, !.st = "SArgTag"], "Partial")
       ELSE NextArgument(parser, AfterArgument[parser.st])

\* AcceptConnection::readEvent and parse(): commands are not split in a
\* transaction.
RequestReceive ==
    /\ ReceiveOf("requests")
    /\ conn' = [conn EXCEPT !.split = conn.splitMultiKey /\ ~conn.transaction]

RequestNext ==
    \/ RequestReceive
    \/ RequestIdle \/ InlineCmd \/ InlineArg
    \/ RequestTag \/ RequestNumber \/ RequestLF \/ CmdBody \/ CmdBodyLF
    \/ ArgumentBody \/ ArgumentLF
-----------------------------------------------------------------------------
\* A command as the client sends it.
Bulk(arg) == <<"$", ToString(Len(arg)), "CR", "LF">> \o arg \o <<"CR", "LF">>

Encoded(args) ==
    FoldLeft(LAMBDA bytes, arg : bytes \o Bulk(arg),
             <<"*", ToString(Len(args)), "CR", "LF">>, args)

\* The requests that a command (its arguments, and its bytes) is to become.
RequestsOf(c) ==
    LET args   == c.args
        name   == args[1]
        entry  == CommandTable[name]
        status == IF name \notin DOMAIN CommandTable \/ (c.inline /\ ~entry.inline)
                  THEN "CmdError"
                  ELSE IF c.inline THEN "Complete"
                  ELSE IF Len(args) \in entry.min..entry.max
                          /\ (entry.pairs => Len(args) % 2 = 1)
                  THEN "Complete" ELSE "ArgError"
        mode   == IF name \in DOMAIN CommandTable THEN entry.mode ELSE "Any"
        keyAt  == CASE mode = "NoKey" -> 0 [] mode = "KeyAt2" -> 3
                    [] mode = "KeyAt3" -> 4 [] OTHER -> 2
        step   == IF mode = "MultiKeyVal" THEN 2 ELSE 1
        split  == /\ status = "Complete" /\ Len(args) > 1 + step
                  /\ \/ mode = "SMultiKey"
                     \/ mode \in {"MultiKey", "MultiKeyVal"} /\ conn.splitMultiKey
        keys   == SelectSeq([i \in 1..Len(args) |-> i],
                            LAMBDA i : i > 1 /\ (i - 2) % step = 0)
        piece(st, part, sent, key) ==
            [status |-> st, part |-> part, transaction |-> FALSE, sent |-> sent,
             key |-> key]
    IN IF split
       THEN [k \in 1..Len(keys) |->
               piece(IF k = Len(keys) THEN "Complete" ELSE "Partial", TRUE,
                     Encoded(<<name>> \o SubSeq(args, keys[k], keys[k] + step - 1)),
                     args[keys[k]])]
       ELSE <<piece(status, FALSE, c.bytes,
                    IF status = "Complete" /\ keyAt \in 2..Len(args)
                    THEN args[keyAt] ELSE <<>>)>>

\* Every command becomes the requests it is meant to be, with their keys, however
\* its bytes are cut up into buffers: the parts of a split command are commands
\* of their own, and the bytes of all others are left as they are.
RequestsDecoded ==
    ParsedRight("requests",
       FoldLeft(LAMBDA all, c : IF c.wrong THEN all ELSE all \o RequestsOf(c), <<>>, meant))

\* "Supports redis transaction": a command that is queued in a transaction is one
\* request, as the client takes one element of the answer to EXEC for it.
WholeInTransaction ==
    reading = "requests" =>
       \A i \in DOMAIN found : found[i].transaction => ~found[i].part
=============================================================================
