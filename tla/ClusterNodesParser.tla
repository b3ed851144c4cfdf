------------------------- MODULE ClusterNodesParser -------------------------
(***************************************************************************)
(* The parser of the answer to CLUSTER NODES.  A line names a node, and    *)
(* the slots of a master; the parser returns a node for each range of them *)
(* and one for a line without, as the pool takes them (ClusterPool).       *)
(*                                                                         *)
(* Words of the flags are bytes here.  The length of the answer is read    *)
(* and not used.                                                           *)
(***************************************************************************)
EXTENDS Chunks

CONSTANT FieldLen   \* the room for the identity, address, flags and master

NewLine ==
    [st |-> "Field", role |-> "Unknown", field |-> 1,
     text |-> <<<<>>, <<>>, <<>>, <<>>>>, begin |-> -1, end |-> -1]

NewNodes == [NewLine EXCEPT !.st = "Idle"]

NodeId == 1
Addr   == 2
Flags  == 3
Master == 4
Slot   == 9

OfNode(id, addr, role, master, begin, end) ==
    [id |-> id, addr |-> addr, role |-> role, master |-> master,
     slots |-> IF begin >= 0 /\ begin < end THEN begin..end - 1 ELSE {}]

\* A node is returned, and the slots are begun anew when parse() is called again.
NodeFoundKept(p) ==
    /\ found' = Append(found, OfNode(p.text[NodeId], p.text[Addr], p.role,
                                     p.text[Master], p.begin, p.end))
    /\ parser' = p
    /\ pos' = pos + 1
    /\ UnchangedStream

NodeFound(p) ==
    /\ found' = Append(found, OfNode(p.text[NodeId], p.text[Addr], p.role,
                                     p.text[Master], p.begin, p.end))
    /\ parser' = [p EXCEPT !.begin = -1, !.end = -1]
    /\ pos' = pos + 1
    /\ UnchangedStream
-----------------------------------------------------------------------------
Of(states) == Ready("nodes") /\ parser.st \in states

NodesHead ==
    /\ Of({"Idle", "Len", "LenLF"})
    /\ CASE parser.st = "Idle" -> Expect("$", "Len")
         [] parser.st = "Len" -> IF IsDigit THEN Step(parser) ELSE Expect("CR", "LenLF")
         [] OTHER -> Expect("LF", "NodeStart")

\* The role is taken from the flags when they end, and a node whose address is
\* not known has none.
FieldEnd(p) ==
    LET flags == Range(p.text[Flags])
        role == IF "master" \in flags THEN "Master"
                ELSE IF "slave" \in flags THEN "Slave" ELSE p.role
        judged == IF p.field # Flags THEN p
                  ELSE [p EXCEPT !.role = role,
                                 !.text[Addr] = IF "noaddr" \in flags THEN <<>> ELSE @]
    IN Step([judged EXCEPT !.field = @ + 1,
                           !.st = IF p.field + 1 = Slot THEN "SlotBegin" ELSE @])

LineByte(p) ==
    CASE Byte = " "  -> FieldEnd(p)
      [] Byte = "LF" -> NodeFound([p EXCEPT !.st = "NodeStart"])
      [] OTHER ->
            IF p.field > Master THEN Step(p)
            ELSE IF Len(p.text[p.field]) = FieldLen[p.field] THEN Fail
            ELSE Step([p EXCEPT !.text[p.field] = Append(@, Byte)])

\* An empty line ends the answer.
NodeStart ==
    /\ Of({"NodeStart"})
    /\ IF Byte # "CR" THEN LineByte(NewLine)
       ELSE /\ parser' = [parser EXCEPT !.st = "Finished"]
            /\ found' = Append(found, [finished |-> TRUE])
            /\ UNCHANGED pos /\ UnchangedStream

NodeField == Of({"Field"}) /\ LineByte(parser)

SlotBegin ==
    /\ Of({"SlotBegin"})
    /\ LET single == [parser EXCEPT !.end = parser.begin + 1]
       IN CASE IsDigit ->
                  Step([parser EXCEPT !.begin = IF @ < 0 THEN Value ELSE @ * 10 + Value])
            [] Byte = "-"  -> Step([parser EXCEPT !.st = "SlotEnd", !.end = 0])
            [] Byte = "["  -> Step([parser EXCEPT !.st = "SlotMove"])
            [] Byte = " "  -> NodeFound(single)
            [] Byte = "LF" -> NodeFound([single EXCEPT !.st = "NodeStart"])
            [] OTHER -> Fail

SlotEnd ==
    /\ Of({"SlotEnd"})
    /\ LET range(next) == [parser EXCEPT !.end = @ + 1, !.st = next]
       IN CASE IsDigit -> Step([parser EXCEPT !.end = @ * 10 + Value])
            [] Byte = " "  -> NodeFound(range("SlotBegin"))
            [] Byte = "LF" -> NodeFound(range("NodeStart"))
            [] OTHER -> Fail

\* A slot that is being moved is passed over.
SlotMove ==
    /\ Of({"SlotMove"})
    /\ CASE Byte = " "  -> Step([parser EXCEPT !.st = "SlotBegin", !.begin = -1, !.end = -1])
         [] Byte = "LF" -> NodeFound([parser EXCEPT !.st = "NodeStart"])
         [] OTHER -> Step(parser)

NodesReceive == ReceiveOf("nodes")

NodesNext ==
    \/ NodesReceive
    \/ NodesHead \/ NodeStart \/ NodeField \/ SlotBegin \/ SlotEnd \/ SlotMove
-----------------------------------------------------------------------------
\* The nodes that a line is to become, where slots is a sequence of sets of
\* consecutive slots, the empty set for one that is being moved.
NodesOf(line) ==
    LET flags == Range(line.flags)
        node(slots) ==
            [id |-> line.id, master |-> line.master, slots |-> slots,
             addr |-> IF "noaddr" \in flags THEN <<>> ELSE line.addr,
             role |-> CASE "master" \in flags -> "Master" [] "slave" \in flags -> "Slave"
                        [] OTHER -> "Unknown"]
        ranges == SelectSeq(line.slots, LAMBDA s : s # {})
        bare == line.slots = <<>> \/ Last(line.slots) = {}
    IN [k \in DOMAIN ranges |-> node(ranges[k])] \o IF bare THEN <<node({})>> ELSE <<>>

\* Every line of the answer becomes a node for each range of its slots, no range
\* is ascribed to another node or carried over to the next, and a line that is too
\* long ends the answer without one.
NodesDecoded ==
    ParsedRight("nodes",
       LET sound == SelectSeq(meant, LAMBDA line : ~line.wrong)
           nodes == FoldLeft(LAMBDA all, line : all \o NodesOf(line), <<>>, sound)
       IN IF sound = meant THEN Append(nodes, [finished |-> TRUE]) ELSE nodes)
=============================================================================
