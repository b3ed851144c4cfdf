---------------------------- MODULE ProxyService ----------------------------
(***************************************************************************)
(* What predixy promises the clients of its ordinary commands, whatever    *)
(* happens to the servers: a client is shown one answer for each of its    *)
(* requests, in the order of the requests; an answer is given once and is  *)
(* never changed; a client that was closed is given and shown nothing      *)
(* more.  The answers to different requests are found in any order.        *)
(***************************************************************************)
EXTENDS Naturals, Sequences

CONSTANTS
    Client,     \* the clients
    MaxReq,     \* bound: how many requests a client sends
    Answer,     \* the possible answers: records with the field "of"
    NoRes       \* what stands for the answer of a request that has none

VARIABLES
    asked,      \* how many requests were read from a client
    answer,     \* the answer of each request
    shown,      \* the answers written to a client
    open        \* the client can be served

svars == <<asked, answer, shown, open>>

Request(c) == {c} \X (1..MaxReq)

\* The answers request r may be given.
AnswerFor(r) == {a \in Answer : a.of = r}

Init ==
    /\ asked = [c \in Client |-> 0]
    /\ answer = [r \in Client \X (1..MaxReq) |-> NoRes]
    /\ shown = [c \in Client |-> <<>>]
    /\ open = [c \in Client |-> TRUE]

\* A request of client c is read; the proxy may know the answer at once.
Ask(c) ==
    /\ open[c]
    /\ asked[c] < MaxReq
    /\ asked' = [asked EXCEPT ![c] = @ + 1]
    /\ LET r == <<c, asked[c] + 1>> IN
         \E a \in AnswerFor(r) \cup {NoRes} : answer' = [answer EXCEPT ![r] = a]
    /\ UNCHANGED <<shown, open>>

\* An answer is found for a request that was read and has none.
Settle(r) ==
    /\ open[r[1]]
    /\ r[2] <= asked[r[1]]
    /\ answer[r] = NoRes
    /\ \E a \in AnswerFor(r) : answer' = [answer EXCEPT ![r] = a]
    /\ UNCHANGED <<asked, shown, open>>

\* The next k answers are written to client c, which may be found to have gone
\* or to have nothing more to get.
Show(c) ==
    /\ open[c]
    /\ LET m == Len(shown[c]) IN
         \E k \in 0..(asked[c] - m) :
           /\ \A i \in m + 1..m + k : answer[<<c, i>>] # NoRes
           /\ shown' = [shown EXCEPT ![c] = @ \o [i \in 1..k |-> answer[<<c, m + i>>]]]
    /\ open' \in {open, [open EXCEPT ![c] = FALSE]}
    /\ UNCHANGED <<asked, answer>>

Next ==
    \E c \in Client :
      \/ Ask(c)
      \/ \E r \in Request(c) : Settle(r)
      \/ Show(c)

Spec == Init /\ [][Next]_svars
=============================================================================
