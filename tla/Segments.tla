------------------------------ MODULE Segments ------------------------------
(***************************************************************************)
(* Buffers of a fixed size, chained as they fill up, and the segments that *)
(* requests and responses are: the bytes between two positions of a chain, *)
(* with the position up to which they are sent.  A segment is kept with    *)
(* its chain; nothing is written into one but at its end.                  *)
(***************************************************************************)
EXTENDS Integers, SequencesExt

CONSTANT BufferSize

Place(buf, pos) == [buf |-> buf, pos |-> pos]

\* Buffer::append: what does not fit goes on in new buffers.
Chained(bytes) ==
    [k \in 1..((Len(bytes) + BufferSize - 1) \div BufferSize) |->
        SubSeq(bytes, (k - 1) * BufferSize + 1, Min({k * BufferSize, Len(bytes)}))]

EmptySegment == [bufs |-> <<>>, begin |-> Place(0, 0), cur |-> Place(0, 0), end |-> Place(0, 0)]

\* The segment of bytes between what else there is in the chain: a parser finds
\* it there, and fset() makes one of its own, with nothing around it.
SegmentIn(before, bytes, after) ==
    LET first == Place((Len(before) \div BufferSize) + 1, Len(before) % BufferSize)
        last == Len(before) + Len(bytes)
    IN IF bytes = <<>> THEN EmptySegment
       ELSE [bufs |-> Chained(before \o bytes \o after), begin |-> first, cur |-> first,
             end |-> Place(((last - 1) \div BufferSize) + 1, ((last - 1) % BufferSize) + 1)]

NewSegment(bytes) == SegmentIn(<<>>, bytes, <<>>)

\* The bytes behind a position in its buffer that belong to the segment.
Left(seg, p) == (IF p.buf = seg.end.buf THEN seg.end.pos ELSE Len(seg.bufs[p.buf])) - p.pos

\* fill(): what is still to be sent, in at most count vectors, and whether that is all.
FillOf(seg, count) ==
    LET from(k) == IF k = 1 THEN seg.cur ELSE Place(seg.cur.buf + k - 1, 0)
        number == IF seg.cur = seg.end THEN 0 ELSE seg.end.buf - seg.cur.buf + 1
        filled == Min({number, count})
    IN [vecs |-> [k \in 1..filled |-> [from |-> from(k), len |-> Left(seg, from(k))]],
        all |-> IF number = 0 THEN count > 0 ELSE filled = number]

RECURSIVE Used(_, _), Cut(_, _)

\* use(): cnt bytes are sent.
Used(seg, cnt) ==
    LET here == Len(seg.bufs[seg.cur.buf]) - seg.cur.pos
    IN IF cnt = 0 THEN seg
       ELSE IF seg.cur.buf = seg.end.buf
       THEN [seg EXCEPT !.cur.pos = Min({@ + cnt, seg.end.pos})]
       ELSE IF here <= cnt
       THEN Used([seg EXCEPT !.cur = Place(@.buf + 1, 0)], cnt - here)
       ELSE [seg EXCEPT !.cur.pos = @ + cnt]

Sought(seg, from, cnt) == Used([seg EXCEPT !.cur = from], cnt)

\* cut(): the first cnt bytes are taken away.
CutInOne(seg, cnt) == [seg EXCEPT !.begin.pos = @ + cnt, !.cur.pos = @ + cnt]

Cut(seg, cnt) ==
    LET here == Left(seg, seg.begin)
        next == Place(seg.begin.buf + 1, 0)
    IN IF cnt = 0 THEN seg
       ELSE IF here > cnt
       THEN LET begin == [seg.begin EXCEPT !.pos = @ + cnt]
            IN [seg EXCEPT !.begin = begin,
                           !.cur = IF @.buf = begin.buf /\ @.pos < begin.pos THEN begin ELSE @]
       ELSE IF seg.begin.buf = seg.end.buf THEN EmptySegment
       ELSE Cut([seg EXCEPT !.begin = next,
                            !.cur = IF @.buf = seg.begin.buf THEN next ELSE @], cnt - here)

VecBytes(seg, vec) == SubSeq(seg.bufs[vec.from.buf], vec.from.pos + 1, vec.from.pos + vec.len)
=============================================================================
