----------------------------- MODULE ConfParser -----------------------------
(***************************************************************************)
(* The configuration files: lines with a key and a value, scopes, and      *)
(* files that include others, read into a tree of nodes that are linked by *)
(* next and sub.  A word is one character here, and all files are in one   *)
(* directory.                                                              *)
(***************************************************************************)
EXTENDS Integers, SequencesExt

CONSTANT MaxNodeDepth

VARIABLES
    disk,       \* the lines of each file: the text, and what it is to say
    files,      \* the files that are open: name and line
    nodes,      \* key, value, next and sub of each node, the first is the root
    node,       \* the node that the next one is linked to, 0 in an empty scope
    stack,      \* the scopes that are open
    outcome

confVars == <<disk, files, nodes, node, stack, outcome>>

Node(key, val) == [key |-> key, val |-> val, next |-> 0, sub |-> 0]

ConfInit(content, first) ==
    /\ disk = content
    /\ files = <<[name |-> first, line |-> 0]>>
    /\ nodes = <<Node(<<>>, <<>>)>> /\ node = 1 /\ stack = <<>>
    /\ outcome = "loading"
-----------------------------------------------------------------------------
(* parse() of one line *)
Char(p, c) ==
    LET is(set) == c \in set
        goto(st) == [p EXCEPT !.st = st]
        value == [p EXCEPT !.val = Append(@, c), !.escape = FALSE]
    IN CASE p.over \/ (is({"#"}) /\ p.st # "SVal") -> [p EXCEPT !.over = TRUE]
         [] p.st = "KeyReady" /\ ~is({" "}) -> [p EXCEPT !.st = "Key", !.key = <<c>>]
         [] p.st = "Key" -> IF is({" "}) THEN goto("ValReady")
                            ELSE [p EXCEPT !.key = Append(@, c)]
         [] p.st = "ValReady" /\ ~is({" "}) ->
               IF is({"\""}) THEN goto("SVal") ELSE [p EXCEPT !.st = "VVal", !.val = <<c>>]
         [] p.st = "VVal" -> [p EXCEPT !.val = Append(@, c)]
         [] p.st = "SVal" ->
               CASE is({"\\", "\""}) /\ p.escape -> value
                 [] c = "\\" /\ ~p.escape -> [p EXCEPT !.escape = TRUE]
                 [] c = "\"" /\ ~p.escape -> goto("ScopeReady")
                 [] OTHER -> [p EXCEPT !.val = Append(@, c)]
         [] p.st = "ScopeReady" /\ is({"{"}) -> goto("Scope")
         [] p.st \in {"ScopeReady", "Scope"} /\ ~is({" ", "{"}) -> goto("Error")
         [] p.st = "Scope" /\ is({"{"}) -> goto("Error")
         [] OTHER -> p

\* As many characters as there are spaces in it are taken from the end of a value.
Trimmed(val) ==
    SubSeq(val, 1, Len(val) - Len(SelectSeq(val, LAMBDA c : c = " ")))

Parsed(text) ==
    LET p == FoldLeft(Char, [st |-> "KeyReady", key |-> <<>>, val |-> <<>>,
                             escape |-> FALSE, over |-> FALSE], text)
        opens == p.st = "VVal" /\ Last(p.val) = "{"
        status == CASE p.st = "KeyReady" -> "None"
                    [] p.st \in {"Key", "ValReady"} /\ p.key = <<"}">> -> "EndScope"
                    [] p.st = "Scope" \/ opens -> "BeginScope"
                    [] p.st = "Error" -> "Error"
                    [] OTHER -> "KeyVal"
    IN [status |-> status, key |-> p.key,
        val |-> IF p.st # "VVal" THEN p.val
                ELSE Trimmed(IF opens THEN Front(p.val) ELSE p.val)]
-----------------------------------------------------------------------------
Top == Last(files)
Loading == outcome = "loading"
Fails == outcome' = "failed" /\ UNCHANGED <<files, nodes, node, stack>>
NextLine == [files EXCEPT ![Len(files)].line = @ + 1]
Line == Parsed(disk[Top.name][Top.line + 1].text)

ReadLine(status) ==
    Loading /\ files # <<>> /\ Top.line < Len(disk[Top.name]) /\ Line.status = status

\* A node is linked to the one before it, or to its scope.
Linked(new) ==
    LET all == Append(nodes, new)
        to == Len(all)
    IN IF node # 0 THEN [all EXCEPT ![node].next = to]
       ELSE IF stack # <<>> THEN [all EXCEPT ![Last(stack)].sub = to] ELSE all

EmptyLine ==
    /\ ReadLine("None")
    /\ files' = NextLine
    /\ UNCHANGED <<disk, nodes, node, stack, outcome>>

KeyVal ==
    /\ ReadLine("KeyVal") /\ Line.key # <<"Include">>
    /\ files' = NextLine
    /\ nodes' = Linked(Node(Line.key, Line.val))
    /\ node' = Len(nodes) + 1
    /\ UNCHANGED <<disk, stack, outcome>>

\* A file that is open already, or not there, ends the program.
Include ==
    /\ ReadLine("KeyVal") /\ Line.key = <<"Include">>
    /\ IF \/ Line.val \notin DOMAIN disk
          \/ \E k \in DOMAIN files : files[k].name = Line.val
       THEN Fails
       ELSE /\ files' = Append(NextLine, [name |-> Line.val, line |-> 0])
            /\ UNCHANGED <<nodes, node, stack, outcome>>
    /\ UNCHANGED disk

BeginScope ==
    /\ ReadLine("BeginScope")
    /\ IF Len(stack) = MaxNodeDepth THEN Fails
       ELSE /\ files' = NextLine
            /\ nodes' = Linked(Node(Line.key, Line.val))
            /\ stack' = Append(stack, Len(nodes) + 1)
            /\ node' = 0
            /\ UNCHANGED outcome
    /\ UNCHANGED disk

EndScopeAbove ==
    /\ ReadLine("EndScope")
    /\ IF stack = <<>> THEN Fails
       ELSE /\ files' = NextLine
            /\ stack' = Front(stack)
            /\ node' = IF Len(stack) = 1 THEN Last(stack) ELSE stack[Len(stack) - 1]
            /\ UNCHANGED <<nodes, outcome>>
    /\ UNCHANGED disk

EndScope ==
    /\ ReadLine("EndScope")
    /\ IF stack = <<>> THEN Fails
       ELSE /\ files' = NextLine
            /\ stack' = Front(stack)
            /\ node' = Last(stack)
            /\ UNCHANGED <<nodes, outcome>>
    /\ UNCHANGED disk

WrongLine == ReadLine("Error") /\ Fails /\ UNCHANGED disk

\* The file ends, and the one that includes it goes on.
EndFile ==
    /\ Loading /\ files # <<>> /\ Top.line = Len(disk[Top.name])
    /\ files' = Front(files)
    /\ UNCHANGED <<disk, nodes, node, stack, outcome>>

EndLoad ==
    /\ Loading /\ files = <<>>
    /\ outcome' = IF stack = <<>> THEN "loaded" ELSE "failed"
    /\ UNCHANGED <<disk, files, nodes, node, stack>>

ConfNext ==
    \/ EmptyLine \/ KeyVal \/ Include \/ BeginScope \/ EndScope \/ WrongLine
    \/ EndFile \/ EndLoad
-----------------------------------------------------------------------------
\* The tree as the program walks it: key, value and depth of each node.
RECURSIVE Walked(_, _), Expanded(_, _)

Walked(i, depth) ==
    IF i = 0 THEN <<>>
    ELSE <<[key |-> nodes[i].key, val |-> nodes[i].val, depth |-> depth]>>
         \o Walked(nodes[i].sub, depth + 1) \o Walked(nodes[i].next, depth)

\* What the lines of a file are to say, those of included files in their place, or
\* "wrong" behind the last line that can be read.
Expanded(name, chain) ==
    FoldLeft(LAMBDA all, line :
       IF line.says # "include" THEN Append(all, line)
       ELSE IF line.val \in DOMAIN disk /\ line.val \notin chain
       THEN all \o Expanded(line.val, chain \cup {line.val})
       ELSE Append(all, [line EXCEPT !.says = "wrong"]), <<>>, disk[name])

Meaning(name) ==
    FoldLeft(LAMBDA acc, line :
       LET item == [key |-> line.key, val |-> line.val, depth |-> acc.depth]
       IN CASE acc.wrong \/ line.says = "nothing" -> acc
            [] line.says = "pair" -> [acc EXCEPT !.items = Append(@, item)]
            [] line.says = "open" /\ acc.depth < MaxNodeDepth ->
                  [acc EXCEPT !.items = Append(@, item), !.depth = @ + 1]
            [] line.says = "close" /\ acc.depth > 0 -> [acc EXCEPT !.depth = @ - 1]
            [] OTHER -> [acc EXCEPT !.wrong = TRUE],
       [items |-> <<>>, depth |-> 0, wrong |-> FALSE], Expanded(name, {name}))

\* The program starts with the tree that its files say, included files in the
\* scope that includes them, or it does not start: a file that includes itself, a
\* scope that is not closed or too deep, and a line that makes no sense stop it.
ConfLoaded ==
    LET meaning == Meaning(<<"main">>)
        sound == ~meaning.wrong /\ meaning.depth = 0
    IN /\ outcome = "loaded" => sound /\ Walked(nodes[1].next, 0) = meaning.items
       /\ outcome = "failed" => ~sound
=============================================================================
