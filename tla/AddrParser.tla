----------------------------- MODULE AddrParser -----------------------------
(***************************************************************************)
(* The parser of what sentinels tell of the other sentinels and the slaves *)
(* of a group: an array of arrays of keys and values, of which only those  *)
(* of the keys ip and port are kept.                                       *)
(***************************************************************************)
EXTENDS Chunks

CONSTANT MaxPort    \* the least number that is no port

NewAddr ==
    [st |-> "Idle", count |-> 0, len |-> 0, ip |-> FALSE, port |-> FALSE,
     key |-> <<>>, addr |-> <<>>]

\* hasValidPort(): what is behind the last colon.
HasValidPort(addr) ==
    LET digits == SubSeq(addr, SelectLastInSeq(addr, LAMBDA b : b = ":") + 1, Len(addr))
        port == FoldLeft(LAMBDA n, d : n * 10 + SelectInSeq(Digits, LAMBDA b : b = d) - 1,
                         0, digits)
    IN Contains(addr, ":") /\ port > 0 /\ port < MaxPort
-----------------------------------------------------------------------------
AddrIn(states) == Ready("addresses") /\ parser.st \in states

AddrHead ==
    /\ AddrIn({"Idle", "Count", "CountLF"})
    /\ CASE parser.st = "Idle" -> Expect("*", "Count")
         [] parser.st = "Count" ->
               IF IsDigit THEN Step([parser EXCEPT !.count = @ * 10 + Value])
               ELSE IF Byte = "CR" /\ parser.count = 0
               THEN Step([parser EXCEPT !.st = "Finished"])
               ELSE Expect("CR", "CountLF")
         [] OTHER -> Expect("LF", "Arg")

AddrArg ==
    /\ AddrIn({"Arg", "SubArrayLen"})
    /\ CASE parser.st = "SubArrayLen" ->
               Step([parser EXCEPT !.st = IF Byte = "LF" THEN "Arg" ELSE @])
         [] parser.st = "Arg" /\ Byte = "$" ->
               Step([parser EXCEPT !.st = "ArgLen", !.len = 0])
         [] parser.st = "Arg" /\ Byte = "*" -> Step([parser EXCEPT !.st = "SubArrayLen"])
         [] OTHER -> Fail

AddrArgLen ==
    /\ AddrIn({"ArgLen", "ArgLenLF"})
    /\ IF parser.st = "ArgLenLF" THEN Expect("LF", "Body")
       ELSE IF IsDigit THEN Step([parser EXCEPT !.len = @ * 10 + Value])
       ELSE Expect("CR", "ArgLenLF")

\* An address is returned at the end of the port, and begun anew when parse() is
\* called again.
AddrBody ==
    /\ AddrIn({"Body"})
    /\ LET ended == [parser EXCEPT !.st = "BodyLF"]
       IN IF Byte = "CR" /\ parser.port
          THEN /\ found' = Append(found, [addr |-> parser.addr,
                                          valid |-> HasValidPort(parser.addr)])
               /\ parser' = [ended EXCEPT !.port = FALSE, !.addr = <<>>]
               /\ pos' = pos + 1
               /\ UnchangedStream
          ELSE Step(
            CASE Byte = "CR" /\ parser.ip ->
                    [ended EXCEPT !.ip = FALSE, !.addr = Append(@, ":")]
              [] Byte = "CR" /\ ~parser.ip ->
                    [ended EXCEPT !.ip = parser.len = 2 /\ parser.key = <<"i", "p">>,
                                  !.port = parser.len = 4 /\ parser.key = <<"p", "o", "r", "t">>]
              [] Byte # "CR" /\ (parser.ip \/ parser.port) ->
                    [parser EXCEPT !.addr = Append(@, Byte)]
              [] OTHER ->
                    [parser EXCEPT !.key = IF parser.len \in {2, 4} /\ Len(@) < 4
                                           THEN Append(@, Byte) ELSE @])

\* The key is forgotten behind each string.
AddrBodyLFKept == AddrIn({"BodyLF"}) /\ Expect("LF", "Arg")

AddrBodyLF ==
    /\ AddrIn({"BodyLF"})
    /\ IF Byte # "LF" THEN Fail
       ELSE Step([parser EXCEPT !.st = "Arg", !.key = <<>>])

AddrReceive == ReceiveOf("addresses")

AddrNext == AddrReceive \/ AddrHead \/ AddrArg \/ AddrArgLen \/ AddrBody \/ AddrBodyLF
-----------------------------------------------------------------------------
\* The pools learn of each entry the address that its ip and its port make, and
\* whether a server can listen there, whatever other keys stand around them.
AddressesDecoded ==
    ParsedRight("addresses",
       LET sound == SelectSeq(meant, LAMBDA entry : ~entry.wrong)
           port(entry) == FoldLeft(LAMBDA n, d : n * 10 + d, 0, entry.port)
           digits(entry) == [k \in DOMAIN entry.port |-> Digits[entry.port[k] + 1]]
       IN [k \in DOMAIN sound |->
             [addr |-> sound[k].ip \o <<":">> \o digits(sound[k]),
              valid |-> port(sound[k]) \in 1..MaxPort - 1]])
=============================================================================
