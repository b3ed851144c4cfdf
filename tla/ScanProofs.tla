----------------------------- MODULE ScanProofs -----------------------------
(***************************************************************************)
(* Theorem of Scan, for any groups, any pages of their masters and any     *)
(* width of the number of a group in a cursor that is wide enough.         *)
(***************************************************************************)
EXTENDS Scan, WellFoundedInduction, TLAPS

\* Groups are numbered from 0 and their numbers fit into a cursor; a master has a
\* first page, and its pages have different cursors.
WellFormed(ps, masters) ==
    /\ \E n \in 0..Width : DOMAIN ps = 0..n - 1
    /\ masters \subseteq DOMAIN ps
    /\ \A g \in DOMAIN ps :
          /\ ps[g] \in Seq(Nat) /\ ps[g] # <<>> /\ ps[g][1] = 0
          /\ \A i, j \in 1..Len(ps[g]) : ps[g][i] = ps[g][j] => i = j

-----------------------------------------------------------------------------
(* Cursors.                                                                *)

\* What a cursor is made of can be had from it.
LEMMA CursorParts ==
    ASSUME NEW c \in Nat, NEW g \in 0..Width - 1
    PROVE  /\ (c * Width + g) % Width = g /\ (c * Width + g) \div Width = c
           /\ c * Width + g \in Nat /\ (c # 0 => c * Width + g # 0)
<1> DEFINE W == Width
<1>1. W \in Nat \ {0}
  BY ScanAssumption
<1> HIDE DEF W
<1>2. \A d \in Nat, h \in 0..W - 1 : (d * W + h) % W = h
  BY <1>1
<1>3. \A d \in Nat, h \in 0..W - 1 : (d * W + h) \div W = d
  BY <1>1
<1>4. \A d \in Nat, h \in 0..W - 1 : d * W + h \in Nat /\ (d # 0 => d * W + h # 0)
  BY <1>1
<1> QED BY <1>2, <1>3, <1>4 DEF W

\* The number of a group alone is the cursor of its first page.
LEMMA GroupCursor ==
    ASSUME NEW g \in 0..Width - 1
    PROVE  g % Width = g /\ g \div Width = 0
<1> DEFINE W == Width
<1>1. W \in Nat \ {0}
  BY ScanAssumption
<1> HIDE DEF W
<1>2. \A h \in 0..W - 1 : h % W = h /\ h \div W = 0
  BY <1>1
<1> QED BY <1>2 DEF W

\* Its parts are numbers.
LEMMA CursorType ==
    ASSUME NEW c \in Nat
    PROVE  c % Width \in 0..Width - 1 /\ c \div Width \in Nat
<1> DEFINE W == Width
<1>1. W \in Nat \ {0}
  BY ScanAssumption
<1> HIDE DEF W
<1>2. c % W \in 0..W - 1 /\ c \div W \in Nat
  BY <1>1
<1> QED BY <1>2 DEF W

\* A set of numbers that is not empty has a least.
LEMMA MinIn ==
    ASSUME NEW S \in SUBSET Nat, S # {}
    PROVE  Min(S) \in S /\ \A x \in S : Min(S) <= x
<1>1. PICK x \in S : \A y \in S : ~(<<y, x>> \in OpToRel(<, Nat))
  BY NatLessThanWellFounded, WFMin
<1>2. \A y \in S : ~(y < x)
  BY <1>1 DEF OpToRel
<1>3. \A y \in S : x <= y
  BY <1>2
<1> QED BY <1>3 DEF Min

-----------------------------------------------------------------------------
(* How far the scan is.                                                    *)

AllPages == UNION {{<<g, k>> : k \in DOMAIN pages[g]} : g \in hasMaster}

\* The pages before page k of group g.
PagesBefore(g, k) ==
    UNION {{<<h, j>> : j \in {i \in DOMAIN pages[h] : h < g \/ (h = g /\ i < k)}} : h \in hasMaster}

\* The next page is page k of group g.
Before(g, k) ==
    /\ k \in 1..Len(pages[g])
    /\ pages[g][k] = cursor \div Width
    /\ g \notin hasMaster => k = 1
    /\ seen = PagesBefore(g, k)

ScanInv ==
    /\ WellFormed(pages, hasMaster)
    /\ cursor \in Nat
    /\ ended => asked = Nobody /\ seen = AllPages
    /\ ~ended /\ cursor % Width \in ScanGroups => \E k \in Nat : Before(cursor % Width, k)
    /\ asked # Nobody =>
          /\ ~ended /\ cursor % Width \in ScanGroups
          /\ asked.group \in hasMaster /\ asked.group >= cursor % Width
          /\ \A h \in hasMaster : h >= cursor % Width => h >= asked.group
          /\ asked.cursor = cursor \div Width

\* The groups and their pages have numbers.
LEMMA PagesType ==
    ASSUME WellFormed(pages, hasMaster)
    PROVE  /\ hasMaster \subseteq ScanGroups
           /\ \A g \in ScanGroups :
                 /\ g \in Nat /\ g \in 0..Width - 1
                 /\ pages[g] \in Seq(Nat) /\ Len(pages[g]) \in Nat \ {0} /\ pages[g][1] = 0
                 /\ \A k : k \in DOMAIN pages[g] <=> k \in Nat /\ 1 <= k /\ k <= Len(pages[g])
<1>1. PICK n \in 0..Width : DOMAIN pages = 0..n - 1
  BY DEF WellFormed
<1>2. \A g \in 0..n - 1 : g \in Nat /\ g \in 0..Width - 1
  BY ScanAssumption
<1>3. \A g \in DOMAIN pages :
         /\ pages[g] \in Seq(Nat) /\ Len(pages[g]) \in Nat \ {0} /\ pages[g][1] = 0
         /\ \A k : k \in DOMAIN pages[g] <=> k \in Nat /\ 1 <= k /\ k <= Len(pages[g])
  BY DEF WellFormed
<1> QED BY <1>1, <1>2, <1>3 DEF WellFormed, ScanGroups

\* What a page is before.
LEMMA PagesBeforeHas ==
    ASSUME NEW g, NEW k, NEW x
    PROVE  x \in PagesBefore(g, k) <=>
             \E h \in hasMaster : \E j \in DOMAIN pages[h] :
                x = <<h, j>> /\ (h < g \/ (h = g /\ j < k))
BY DEF PagesBefore

\* All pages.
LEMMA AllPagesHas ==
    ASSUME NEW x
    PROVE  x \in AllPages <=> \E h \in hasMaster : \E j \in DOMAIN pages[h] : x = <<h, j>>
BY DEF AllPages

\* The master that is asked is asked for a page of its own, and all before it are seen.
LEMMA AskedPage ==
    ASSUME ScanInv, asked # Nobody
    PROVE  \E k \in 1..Len(pages[asked.group]) :
              /\ pages[asked.group][k] = asked.cursor
              /\ seen = PagesBefore(asked.group, k)
<1> DEFINE g == cursor % Width
           m == asked.group
<1>1. PICK k \in Nat : Before(g, k)
  BY DEF ScanInv
<1>2. m \in hasMaster /\ hasMaster \subseteq ScanGroups /\ g \in ScanGroups /\ g \in Int /\ m \in Int /\ m >= g
  BY DEF ScanInv, WellFormed, ScanGroups
<1>3. CASE m = g
  BY <1>1, <1>3 DEF ScanInv, Before
<1>4. CASE m # g
  <2>1. g \notin hasMaster /\ k = 1
    BY <1>1, <1>2, <1>4 DEF ScanInv, Before
  <2>2. /\ pages[g][1] = 0 /\ pages[m][1] = 0 /\ 1 \in 1..Len(pages[m])
    BY <1>2 DEF ScanInv, WellFormed, ScanGroups
  <2>3. pages[m][1] = asked.cursor
    BY <1>1, <2>1, <2>2 DEF ScanInv, Before
  <2>4. \A h \in hasMaster : h \in Int /\ (h < g <=> h < m) /\ h # g
    <3>1. \A h \in hasMaster : h \in Int
      BY DEF ScanInv, WellFormed
    <3>2. \A h \in hasMaster : h >= g => h >= m
      BY DEF ScanInv
    <3> HIDE DEF g, m
    <3> QED BY <1>2, <2>1, <3>1, <3>2
  <2>5. \A h \in hasMaster : \A j \in DOMAIN pages[h] : ~(j < 1)
    BY PagesType DEF ScanInv
  <2> HIDE DEF g, m
  <2>6. ASSUME NEW x PROVE x \in PagesBefore(g, 1) <=> x \in PagesBefore(m, 1)
    <3>1. \A h \in hasMaster : \A j \in DOMAIN pages[h] :
             (h < g \/ (h = g /\ j < 1)) <=> (h < m \/ (h = m /\ j < 1))
      BY <2>4, <2>5, <1>2
    <3> QED BY <3>1, PagesBeforeHas
  <2>7. PagesBefore(g, 1) = PagesBefore(m, 1)
    BY <2>6
  <2> QED BY <1>1, <2>1, <2>2, <2>3, <2>7 DEF Before, m
<1> QED BY <1>3, <1>4

-----------------------------------------------------------------------------
(* The steps.                                                              *)

\* The scan starts before the first page of all.
LEMMA ScanInitInv ==
    ASSUME NEW ps, NEW masters, WellFormed(ps, masters), ScanInit(ps, masters)
    PROVE  ScanInv
<1>1. ASSUME 0 \in ScanGroups PROVE Before(0, 1)
  <2>1. 1 \in 1..Len(pages[0]) /\ pages[0][1] = 0
    BY <1>1 DEF ScanInit, WellFormed, ScanGroups
  <2>2. 0 \div Width = 0
    BY GroupCursor, ScanAssumption
  <2>3. ASSUME NEW x PROVE x \notin PagesBefore(0, 1)
    <3>1. \A h \in hasMaster : ~(h < 0) /\ \A j \in DOMAIN pages[h] : ~(j < 1)
      BY PagesType DEF ScanInit
    <3> QED BY <3>1, PagesBeforeHas
  <2> QED BY <2>1, <2>2, <2>3 DEF ScanInit, Before
<1>2. 0 % Width = 0
  BY GroupCursor, ScanAssumption
<1> QED BY <1>1, <1>2 DEF ScanInit, ScanInv

\* Groups without a master are passed over, and if no other is left the scan ends.
LEMMA AskMasterKeeps ==
    ASSUME ScanInv, AskMaster
    PROVE  ScanInv'
<1> DEFINE g == cursor % Width
           able == {h \in hasMaster : h >= g}
<1>1. hasMaster \subseteq Nat /\ g \in Nat
  <2>1. hasMaster \subseteq Nat
    BY PagesType DEF ScanInv
  <2>2. cursor \in Nat
    BY DEF ScanInv
  <2>3. g \in 0..Width - 1
    BY <2>2, CursorType
  <2>4. Width \in Nat
    BY ScanAssumption
  <2> HIDE DEF g
  <2> QED BY <2>1, <2>3, <2>4
<1>2. PICK k \in Nat : Before(g, k)
  BY DEF ScanInv, AskMaster
<1>3. CASE able # {}
  <2>1. Min(able) \in able /\ \A h \in able : Min(able) <= h
    BY <1>1, <1>3, MinIn
  <2>2. asked' = [group |-> Min(able), cursor |-> cursor \div Width]
        /\ UNCHANGED <<pages, hasMaster, cursor, seen, ended>>
    BY <1>3 DEF AskMaster
  <2>3. /\ asked'.group \in hasMaster /\ asked'.group >= g
        /\ \A h \in hasMaster : h >= g => h >= asked'.group
        /\ asked'.cursor = cursor \div Width
    BY <1>1, <2>1, <2>2
  <2> QED BY <2>2, <2>3 DEF ScanInv, Before, PagesBefore, AllPages, ScanGroups, AskMaster
<1>4. CASE able = {}
  <2>1. ended' /\ cursor' = 0 /\ asked' = Nobody /\ UNCHANGED <<pages, hasMaster, seen>>
    BY <1>4 DEF AskMaster
  <2>2. \A h \in hasMaster : h < g
    BY <1>1, <1>4
  <2> HIDE DEF g
  <2>3. ASSUME NEW x PROVE x \in PagesBefore(g, k) <=> x \in AllPages
    BY <2>2, PagesBeforeHas, AllPagesHas
  <2>4. PagesBefore(g, k) = AllPages
    BY <2>3
  <2> QED BY <1>2, <2>1, <2>4 DEF ScanInv, Before, AllPages
<1> QED BY <1>3, <1>4

\* Nothing is lost with the connection.
LEMMA ScanFailsKeeps ==
    ASSUME ScanInv, ScanFails
    PROVE  ScanInv'
BY DEF ScanInv, ScanFails, Before, PagesBefore, AllPages, ScanGroups

\* The page that was asked for is seen, and the next is that behind it, the first of
\* the next group, or none.
LEMMA MasterAnswersKeeps ==
    ASSUME ScanInv, MasterAnswers
    PROVE  ScanInv'
<1>0. PICK g : g = asked.group
  OBVIOUS
<1> DEFINE len == Len(pages[g])
           I == {i \in 1..len : pages[g][i] = asked.cursor}
           s == SelectInSeq(pages[g], LAMBDA c : c = asked.cursor)
<1>1. /\ g \in hasMaster /\ hasMaster \subseteq ScanGroups /\ asked # Nobody /\ ~ended
      /\ pages[g] \in Seq(Nat) /\ len \in Nat \ {0} /\ pages[g][1] = 0
      /\ \A i, j \in 1..len : pages[g][i] = pages[g][j] => i = j
  BY <1>0, PagesType DEF ScanInv, WellFormed, ScanGroups, MasterAnswers
<1>2. PICK n \in 0..Width : ScanGroups = 0..n - 1
  BY DEF ScanInv, WellFormed, ScanGroups
<1>3. PICK k \in 1..len : pages[g][k] = asked.cursor /\ seen = PagesBefore(g, k)
  BY <1>0, <1>1, AskedPage
<1>4. s = k
  <2>1. I = {k}
    BY <1>1, <1>3
  <2>2. s = Min(I)
    BY <1>3 DEF SelectInSeq
  <2>3. Min({k}) = k
    BY <1>3 DEF Min
  <2> HIDE DEF I, s
  <2> QED BY <2>1, <2>2, <2>3
<1> DEFINE next == IF k \in 1..len - 1 THEN pages[g][k + 1] ELSE 0
<1>5. /\ seen' = seen \cup {<<g, k>>} /\ cursor' = NextCursor(g, next)
      /\ ended' = (NextCursor(g, next) = 0)
      /\ asked' = Nobody /\ pages' = pages /\ hasMaster' = hasMaster
  <2> HIDE DEF s
  <2> QED BY <1>0, <1>4 DEF MasterAnswers, s
<1>6. g \in 0..Width - 1 /\ g \in Nat
  BY <1>1, PagesType DEF ScanInv
<1>7. \A h \in hasMaster : h \in Nat /\ \A j \in DOMAIN pages[h] : j \in Nat /\ 1 <= j /\ j <= Len(pages[h])
  BY PagesType DEF ScanInv
<1> HIDE DEF I, s
<1>8. CASE k < len
  <2>1. next = pages[g][k + 1] /\ k + 1 \in 1..len /\ next \in Nat
    BY <1>1, <1>3, <1>8
  <2>2. next # 0
    BY <1>1, <1>3, <2>1
  <2>3. /\ cursor' = next * Width + g /\ cursor' \in Nat /\ cursor' # 0
        /\ cursor' % Width = g /\ cursor' \div Width = next
    BY <1>5, <1>6, <2>1, <2>2, CursorParts DEF NextCursor
  <2>4. ASSUME NEW x PROVE x \in PagesBefore(g, k) \cup {<<g, k>>} <=> x \in PagesBefore(g, k + 1)
    <3>1. \A h \in hasMaster : \A j \in DOMAIN pages[h] :
             (h < g \/ (h = g /\ j < k + 1)) <=> (h < g \/ (h = g /\ j < k)) \/ (h = g /\ j = k)
      BY <1>3, <1>6, <1>7
    <3>2. k \in DOMAIN pages[g]
      BY <1>3
    <3> QED BY <1>1, <3>1, <3>2, PagesBeforeHas
  <2>5. PagesBefore(g, k) \cup {<<g, k>>} = PagesBefore(g, k + 1)
    BY <2>4
  <2>6. seen' = PagesBefore(g, k + 1)
    BY <1>3, <1>5, <2>5
  <2> HIDE DEF len, next
  <2>7. Before(g, k + 1)'
    BY <1>1, <1>5, <2>1, <2>3, <2>6 DEF Before, PagesBefore, len
  <2>8. ~ended' /\ asked' = Nobody /\ WellFormed(pages', hasMaster')
    BY <1>5, <2>3 DEF ScanInv
  <2>9. (\E j \in Nat : Before(cursor % Width, j))'
    BY <1>3, <2>3, <2>7 DEF Before, PagesBefore
  <2> QED BY <2>3, <2>8, <2>9 DEF ScanInv
<1>9. CASE k = len /\ g + 1 \in ScanGroups
  <2>1. next = 0 /\ cursor' = g + 1 /\ g + 1 # 0 /\ g + 1 \in Nat
    BY <1>1, <1>3, <1>5, <1>6, <1>9 DEF NextCursor
  <2>2. g + 1 \in 0..Width - 1 /\ pages[g + 1][1] = 0 /\ 1 \in 1..Len(pages[g + 1])
    BY <1>9, PagesType DEF ScanInv
  <2>3. cursor' % Width = g + 1 /\ cursor' \div Width = 0
    BY <2>1, <2>2, GroupCursor
  <2>4. ASSUME NEW x PROVE x \in PagesBefore(g, k) \cup {<<g, k>>} <=> x \in PagesBefore(g + 1, 1)
    <3>1. \A h \in hasMaster : \A j \in DOMAIN pages[h] :
             (h < g + 1 \/ (h = g + 1 /\ j < 1)) <=> (h < g \/ (h = g /\ j < k)) \/ (h = g /\ j = k)
      BY <1>3, <1>6, <1>7, <1>9
    <3>2. k \in DOMAIN pages[g]
      BY <1>3
    <3> QED BY <1>1, <3>1, <3>2, PagesBeforeHas
  <2>5. PagesBefore(g, k) \cup {<<g, k>>} = PagesBefore(g + 1, 1)
    BY <2>4
  <2>6. seen' = PagesBefore(g + 1, 1)
    BY <1>3, <1>5, <2>5
  <2>7. NextCursor(g, next) # 0
    BY <1>5, <2>1
  <2> HIDE DEF len, next
  <2>8. Before(g + 1, 1)'
    BY <1>1, <1>5, <2>2, <2>3, <2>6 DEF Before, PagesBefore
  <2>9. ~ended' /\ asked' = Nobody /\ WellFormed(pages', hasMaster')
    BY <1>5, <2>7 DEF ScanInv
  <2>10. (\E j \in Nat : Before(cursor % Width, j))'
    BY <2>3, <2>8 DEF Before, PagesBefore
  <2> QED BY <2>1, <2>9, <2>10 DEF ScanInv
<1>10. CASE k = len /\ g + 1 \notin ScanGroups
  <2>1. next = 0 /\ NextCursor(g, next) = 0
    BY <1>1, <1>3, <1>10 DEF NextCursor
  <2>2. \A h \in hasMaster : h <= g
    BY <1>1, <1>2, <1>6, <1>10
  <2>3. ASSUME NEW x PROVE x \in PagesBefore(g, k) \cup {<<g, k>>} <=> x \in AllPages
    <3>1. \A h \in hasMaster : \A j \in DOMAIN pages[h] :
             (h < g \/ (h = g /\ j < k)) \/ (h = g /\ j = k)
      BY <1>3, <1>6, <1>7, <1>10, <2>2
    <3>2. k \in DOMAIN pages[g]
      BY <1>3
    <3> QED BY <1>1, <3>1, <3>2, PagesBeforeHas, AllPagesHas
  <2>4. seen' = AllPages
    BY <1>3, <1>5, <2>3
  <2> HIDE DEF len, next
  <2>5. ended' /\ asked' = Nobody /\ cursor' = 0 /\ WellFormed(pages', hasMaster')
    BY <1>5, <2>1 DEF ScanInv
  <2>6. (seen = AllPages)'
    BY <1>5, <2>4 DEF AllPages
  <2> QED BY <2>5, <2>6 DEF ScanInv
<1> QED BY <1>1, <1>3, <1>8, <1>9, <1>10

\* A scan that ends has seen every page of every group with a master, however often a
\* connection is lost and the client asks again, and masters are only asked for
\* cursors of their own (Handler::preHandleRequest, handleResponse).
THEOREM ScanCompleteAlways ==
    ASSUME NEW CONSTANT ps, NEW CONSTANT masters, WellFormed(ps, masters)
    PROVE  ScanInit(ps, masters) /\ [][ScanNext]_scanVars => []ScanComplete
<1>1. ScanInit(ps, masters) => ScanInv
  BY ScanInitInv
<1>2. ScanInv /\ [ScanNext]_scanVars => ScanInv'
  <2> SUFFICES ASSUME ScanInv, [ScanNext]_scanVars PROVE ScanInv'
    OBVIOUS
  <2>1. CASE UNCHANGED scanVars
    BY <2>1 DEF scanVars, ScanInv, Before, PagesBefore, AllPages, ScanGroups
  <2> QED BY <2>1, AskMasterKeeps, ScanFailsKeeps, MasterAnswersKeeps DEF ScanNext
<1>3. ScanInv => ScanComplete
  <2> SUFFICES ASSUME ScanInv PROVE ScanComplete
    OBVIOUS
  <2>1. asked # Nobody => Contains(pages[asked.group], asked.cursor)
    BY AskedPage DEF Contains
  <2>2. ended => seen = AllPages
    BY DEF ScanInv
  <2> QED BY <2>1, <2>2 DEF ScanComplete, AllPages
<1> QED BY <1>1, <1>2, <1>3, PTL
=============================================================================
