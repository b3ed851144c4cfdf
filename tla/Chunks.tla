------------------------------- MODULE Chunks -------------------------------
(***************************************************************************)
(* A stream of bytes that a parser reads as they arrive: the buffers of a  *)
(* connection may end at any byte, and the parser goes on where it stopped *)
(* in the one before.  The parsers of the proxy extend this module, each   *)
(* with a record of its own members in parser and what it has found in     *)
(* found; the streams of one parser are told from another's by reading.    *)
(***************************************************************************)
EXTENDS Integers, SequencesExt

VARIABLES
    reading,    \* the kind of stream
    meant,      \* what the sender has written into it
    stream,     \* the bytes
    arrived,    \* how many of them have arrived
    pos,        \* the next byte to parse
    parser,
    found

chunkVars == <<reading, meant, stream, arrived, pos, parser, found>>

Opened(kind, items, bytes, fresh) ==
    /\ reading = kind /\ meant = items /\ stream = bytes
    /\ arrived = 0 /\ pos = 1 /\ parser = fresh /\ found = <<>>

Ready(kind) == reading = kind /\ pos <= arrived /\ parser.st # "Error"

Byte == stream[pos]

\* More bytes arrive when all that have arrived are parsed.
ReceiveOf(kind) ==
    /\ reading = kind /\ pos > arrived /\ parser.st # "Error"
    /\ arrived' \in arrived + 1..Len(stream)
    /\ UNCHANGED <<reading, meant, stream, pos, parser, found>>

UnchangedStream == UNCHANGED <<reading, meant, stream, arrived>>

\* One byte is parsed, and nothing is complete yet.
Step(next) ==
    /\ parser' = next
    /\ pos' = pos + 1
    /\ UNCHANGED found /\ UnchangedStream

\* The body of left more bytes is passed over at once, with the byte behind it
\* if that has arrived: then the parser is in state next, else it stays.
SkipBody(left, closing, next) ==
    LET available == arrived - pos + 1
    IN IF available <= left
       THEN /\ parser' = [parser EXCEPT !.body = @ + available]
            /\ pos' = arrived + 1
       ELSE /\ parser' = IF stream[pos + left] = closing THEN next
                         ELSE [parser EXCEPT !.st = "Error"]
            /\ pos' = pos + left + 1

Fail == Step([parser EXCEPT !.st = "Error"])

Expect(byte, next) == IF Byte = byte THEN Step([parser EXCEPT !.st = next]) ELSE Fail

Digits == <<"0", "1", "2", "3", "4", "5", "6", "7", "8", "9">>
IsDigit == Contains(Digits, Byte)
Value == SelectInSeq(Digits, LAMBDA d : d = Byte) - 1

\* A stream is parsed right if what has been found is what was meant, as far as
\* it has been parsed, however it has been cut up.
ParsedRight(kind, expected) ==
    reading = kind =>
       /\ IsPrefix(found, expected)
       /\ pos > Len(stream) \/ parser.st = "Error" => found = expected
=============================================================================
