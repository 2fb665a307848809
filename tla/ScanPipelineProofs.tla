------------------------- MODULE ScanPipelineProofs -------------------------
(***************************************************************************)
(* Proofs about ScanPipeline for any tree and options, any buffers and     *)
(* any set of faults: where every file is between the walk and the         *)
(* backlog, and in which order the four goroutines end.                    *)
(***************************************************************************)
EXTENDS ScanPipeline, WellFoundedInduction, TLAPS

-----------------------------------------------------------------------------
(* Sequences of numbers *)

\* What Append adds, and that it keeps the order.
LEMMA AppendFacts ==
  ASSUME NEW seq \in Seq(Nat), NEW x \in Nat
  PROVE  /\ Append(seq, x) # <<>>
         /\ Entries(Append(seq, x)) = Entries(seq) \union {x}
         /\ InOrder(seq) /\ Before(Entries(seq), {x}) => InOrder(Append(seq, x))
<1> DEFINE longer == Append(seq, x)
<1>1. /\ DOMAIN seq = 1..Len(seq) /\ Len(seq) \in Nat
      /\ DOMAIN longer = 1..(Len(seq) + 1)
      /\ longer[Len(seq) + 1] = x
      /\ \A i \in 1..Len(seq) : longer[i] = seq[i]
      /\ \A i \in 1..Len(seq) : seq[i] \in Nat
  OBVIOUS
<1>2. Entries(longer) = Entries(seq) \union {x} BY <1>1 DEF Entries
<1>3. ASSUME InOrder(seq), Before(Entries(seq), {x}), NEW i \in DOMAIN longer,
             NEW j \in DOMAIN longer, i < j
      PROVE  longer[i] < longer[j]
  <2>1. i \in 1..Len(seq) BY <1>1, <1>3
  <2>2. CASE j \in 1..Len(seq) BY <1>1, <1>3, <2>1, <2>2 DEF InOrder
  <2>3. CASE j = Len(seq) + 1
    <3>1. seq[i] \in Entries(seq) BY <2>1, <1>1 DEF Entries
    <3> QED BY <1>1, <1>3, <2>1, <2>3, <3>1 DEF Before
  <2> QED BY <1>1, <2>2, <2>3
<1>4. longer # <<>> OBVIOUS
<1> QED BY <1>2, <1>3, <1>4 DEF InOrder

\* What Head and Tail make of a sequence in order.
LEMMA TailFacts ==
  ASSUME NEW seq \in Seq(Nat), seq # <<>>
  PROVE  /\ Entries(seq) = {Head(seq)} \union Entries(Tail(seq))
         /\ InOrder(seq) => InOrder(Tail(seq)) /\ Before({Head(seq)}, Entries(Tail(seq)))
<1> DEFINE tail == Tail(seq)
<1>1. /\ DOMAIN seq = 1..Len(seq) /\ Len(seq) \in Nat \ {0}
      /\ DOMAIN tail = 1..(Len(seq) - 1)
      /\ Head(seq) = seq[1]
      /\ \A i \in 1..(Len(seq) - 1) : tail[i] = seq[i + 1]
  OBVIOUS
<1>2. Entries(seq) = {Head(seq)} \union Entries(tail)
  <2>1. ASSUME NEW i \in DOMAIN seq PROVE seq[i] \in {Head(seq)} \union Entries(tail)
    <3>1. CASE i = 1 BY <1>1, <3>1
    <3>2. CASE i # 1
      <4>1. i - 1 \in 1..(Len(seq) - 1) /\ (i - 1) + 1 = i BY <1>1, <3>2
      <4>2. tail[i - 1] = seq[i] BY <1>1, <4>1
      <4> QED BY <1>1, <4>1, <4>2 DEF Entries
    <3> QED BY <3>1, <3>2
  <2>2. ASSUME NEW i \in DOMAIN tail PROVE tail[i] \in Entries(seq)
    <3>1. i + 1 \in DOMAIN seq BY <1>1
    <3> QED BY <1>1, <3>1 DEF Entries
  <2>3. Head(seq) \in Entries(seq) BY <1>1 DEF Entries
  <2> QED BY <2>1, <2>2, <2>3 DEF Entries
<1>3. ASSUME InOrder(seq) PROVE InOrder(tail)
  <2>1. ASSUME NEW i \in DOMAIN tail, NEW j \in DOMAIN tail, i < j
        PROVE  tail[i] < tail[j]
    <3>1. i + 1 \in DOMAIN seq /\ j + 1 \in DOMAIN seq /\ i + 1 < j + 1 BY <1>1, <2>1
    <3> QED BY <1>1, <1>3, <3>1 DEF InOrder
  <2> QED BY <2>1 DEF InOrder
<1>4. ASSUME InOrder(seq) PROVE Before({Head(seq)}, Entries(tail))
  <2>1. ASSUME NEW i \in DOMAIN tail PROVE seq[1] < tail[i]
    <3>1. 1 \in DOMAIN seq /\ i + 1 \in DOMAIN seq /\ 1 < i + 1 BY <1>1
    <3> QED BY <1>1, <1>4, <3>1 DEF InOrder
  <2> QED BY <1>1, <2>1 DEF Before, Entries
<1> QED BY <1>2, <1>3, <1>4

\* What is kept of a sequence in order and what is cut off.
LEMMA CutFacts ==
  ASSUME NEW S \in SUBSET Nat, NEW seq \in Seq(S), NEW kept \in 0..Len(seq)
  PROVE  /\ SubSeq(seq, 1, kept) \in Seq(S)
         /\ Entries(seq) = Entries(SubSeq(seq, 1, kept))
                             \union {seq[i] : i \in (kept + 1)..Len(seq)}
         /\ InOrder(seq) =>
              /\ InOrder(SubSeq(seq, 1, kept))
              /\ Entries(SubSeq(seq, 1, kept))
                   \intersect {seq[i] : i \in (kept + 1)..Len(seq)} = {}
<1> DEFINE start == SubSeq(seq, 1, kept)
<1>1. /\ DOMAIN seq = 1..Len(seq) /\ Len(seq) \in Nat
      /\ start \in Seq(S)
      /\ DOMAIN start = 1..kept
      /\ \A i \in 1..kept : start[i] = seq[i]
  OBVIOUS
<1>2. Entries(seq) = Entries(start) \union {seq[i] : i \in (kept + 1)..Len(seq)}
  <2>1. DOMAIN seq = 1..kept \union (kept + 1)..Len(seq) BY <1>1
  <2>2. Entries(start) = {seq[i] : i \in 1..kept} BY <1>1 DEF Entries
  <2> QED BY <2>1, <2>2 DEF Entries
<1>3. 1..kept \subseteq DOMAIN seq BY <1>1
<1>4. ASSUME InOrder(seq), NEW i \in 1..kept, NEW j \in (kept + 1)..Len(seq)
      PROVE  start[i] # seq[j]
  <2>1. i \in DOMAIN seq /\ j \in DOMAIN seq /\ i < j BY <1>1
  <2>2. seq[i] < seq[j] BY <1>4, <2>1 DEF InOrder
  <2>3. seq[i] \in S /\ seq[j] \in S BY <2>1
  <2>4. seq[i] \in Nat /\ seq[j] \in Nat BY <2>3
  <2>5. start[i] = seq[i] BY <1>1
  <2> HIDE DEF start
  <2> QED BY <2>2, <2>4, <2>5
<1>5. InOrder(seq) => InOrder(start) BY <1>1, <1>3 DEF InOrder
<1>6. InOrder(seq) => Entries(start) \intersect {seq[i] : i \in (kept + 1)..Len(seq)} = {}
  BY <1>1, <1>4 DEF Entries
<1> QED BY <1>1, <1>2, <1>5, <1>6

\* The entries of a sequence are of its kind.
LEMMA EntriesType == ASSUME NEW S, NEW seq \in Seq(S) PROVE Entries(seq) \subseteq S
BY DEF Entries

\* Nothing is in the empty sequence, in order.
LEMMA EmptyFacts == Entries(<<>>) = {} /\ InOrder(<<>>)
BY DEF Entries, InOrder

-----------------------------------------------------------------------------
(* The tree *)

\* A set of numbers has a least one.
LEMMA Least ==
  ASSUME NEW S \in SUBSET Nat, S # {}
  PROVE  \E n \in S : \A m \in S : n <= m
<1> DEFINE Less == OpToRel(<, Nat)
<1>1. PICK n \in S : \A m \in S : ~(<<m, n>> \in Less)
  <2> HIDE DEF Less
  <2>1. IsWellFoundedOn(Less, Nat) BY NatLessThanWellFounded DEF Less
  <2> QED BY <2>1, WFMin
<1>2. ASSUME NEW m \in S PROVE n <= m
  <2>1. ~(m < n) BY <1>1, <1>2 DEF OpToRel
  <2> QED BY <2>1
<1> QED BY <1>2

\* Behind an entry comes the first one that is not in it.
LEMMA BehindFacts ==
  ASSUME NEW i \in File
  PROVE  /\ Behind(Tree, i) \in (i + 1)..(Len(Tree) + 1)
         /\ \A k \in File : i < k /\ k < Behind(Tree, i) => Tree[k].depth > Tree[i].depth
<1> DEFINE Outside == {j \in (i + 1)..(Len(Tree) + 1) :
                         j = Len(Tree) + 1 \/ ~(Tree[j].depth > Tree[i].depth)}
           Between(j) == {k \in DOMAIN Tree : i < k /\ k < j}
<1>1. File = 1..Len(Tree) /\ Len(Tree) \in Nat /\ i \in Nat BY TreeAssumption DEF File
<1>2. Outside \in SUBSET Nat /\ Outside # {}
  <2>1. Len(Tree) + 1 \in (i + 1)..(Len(Tree) + 1) BY <1>1
  <2>2. (i + 1)..(Len(Tree) + 1) \subseteq Nat BY <1>1
  <2> QED BY <2>1, <2>2
<1>3. PICK n \in Outside : \A m \in Outside : n <= m BY <1>2, Least
<1>4. n \in (i + 1)..(Len(Tree) + 1) OBVIOUS
<1>5. ASSUME NEW k \in File, i < k, k < n PROVE k \in Below(Tree, i)
  <2>1. ASSUME NEW m \in (i + 1)..k PROVE Tree[m].depth > Tree[i].depth
    <3>1. m \in (i + 1)..(Len(Tree) + 1) /\ ~(n <= m) BY <1>1, <1>4, <1>5
    <3> QED BY <1>3, <3>1
  <2> QED BY <1>5, <2>1 DEF Below, File
<1>6. ASSUME NEW k \in Below(Tree, i) PROVE k \in File /\ i < k /\ k < n
  <2>1. k \in File /\ k > i BY DEF Below, File
  <2>2. SUFFICES ASSUME n <= k PROVE FALSE BY <1>1, <1>4, <2>1
  <2>3. n \in (i + 1)..k /\ n # Len(Tree) + 1 BY <1>1, <1>4, <2>1, <2>2
  <2>4. Tree[n].depth > Tree[i].depth BY <2>3 DEF Below
  <2> QED BY <2>3, <2>4
<1>7. Between(n) = Below(Tree, i) BY <1>5, <1>6 DEF File
<1>8. /\ Behind(Tree, i) \in (i + 1)..(Len(Tree) + 1)
      /\ Between(Behind(Tree, i)) = Below(Tree, i)
  BY <1>4, <1>7 DEF Behind
<1>9. ASSUME NEW k \in File, i < k, k < Behind(Tree, i)
      PROVE  Tree[k].depth > Tree[i].depth
  <2>1. k \in Below(Tree, i) BY <1>8, <1>9 DEF File
  <2>2. k \in (i + 1)..k BY <1>1, <1>9
  <2> QED BY <2>1, <2>2 DEF Below
<1> QED BY <1>8, <1>9

\* What the callback does not send, and what it skips with a directory, nobody has
\* asked for (local.go:103-159, uobf.go:32-48).
LEMMA PassFacts ==
  ASSUME options \in OptionSets, next \in File, Pass
  PROVE  /\ next' \in (next + 1)..(Len(Tree) + 1)
         /\ \A f \in Selected(Tree, options) :
              next <= f /\ f < next' => f = next /\ Sends(Tree[next], options)
<1>1. File = 1..Len(Tree) /\ Len(Tree) \in Nat BY TreeAssumption DEF File
<1>2. ASSUME NEW f \in File PROVE Tree[f].depth \in Nat
  <2> DEFINE Kind == [name : STRING, depth : Nat, dir : BOOLEAN, link : BOOLEAN]
  <2>1. Tree \in Seq(Kind) BY TreeAssumption
  <2>2. Tree[f] \in Kind
    <3> HIDE DEF Kind
    <3> QED BY <2>1 DEF File
  <2> QED BY <2>2
<1>3. options.maxDepth \in Int BY OptionsAssumption
<1>4. CASE Prunes(Tree[next], options)
  <2>1. next' = Behind(Tree, next) BY <1>4 DEF Pass
  <2>2. options.maxDepth > 0 /\ Tree[next].depth > options.maxDepth
    BY <1>4 DEF Prunes, TooDeep
  <2>3. ASSUME NEW f \in Selected(Tree, options), next <= f, f < next' PROVE FALSE
    <3>1. f \in File /\ (options.maxDepth <= 0 \/ Tree[f].depth <= options.maxDepth)
      BY DEF Selected, File
    <3>2. f = next \/ Tree[f].depth > Tree[next].depth
      BY <1>1, <2>1, <2>3, <3>1, BehindFacts
    <3>3. Tree[f].depth \in Nat /\ Tree[next].depth \in Nat BY <1>2, <3>1
    <3> QED BY <1>3, <2>2, <3>1, <3>2, <3>3
  <2> QED BY <2>1, <2>3, BehindFacts
<1>5. CASE ~Prunes(Tree[next], options)
  <2>1. next' = next + 1 BY <1>5 DEF Pass
  <2>2. ASSUME NEW f \in Selected(Tree, options), next <= f, f < next'
        PROVE  f = next /\ Sends(Tree[next], options)
    <3>1. f \in File BY DEF Selected, File
    <3>2. f = next BY <1>1, <2>1, <2>2, <3>1
    <3>3. options.maxDepth <= 0 \/ Tree[next].depth <= options.maxDepth
      BY <3>2 DEF Selected
    <3>4. ~TooDeep(Tree[next], options) BY <1>2, <1>3, <3>3 DEF TooDeep
    <3> QED BY <3>2, <3>4 DEF Selected, Sends
  <2> QED BY <1>1, <2>1, <2>2
<1> QED BY <1>4, <1>5

-----------------------------------------------------------------------------
(* The inductive invariant *)

\* It holds at the start.
LEMMA InitInvariant == Init => IInv
<1> SUFFICES ASSUME Init PROVE IInv
  OBVIOUS
<1> USE DEF Init
<1>1. Len(Tree) \in Nat BY TreeAssumption
<1>2. Stored = {Stale} /\ Sent = {} /\ Carried = {} /\ Passed = {} /\ Met = {}
  BY EmptyFacts DEF Stored, Sent, Carried, Passed, Met, Entries
<1>3. InOrder(<<Stale>>) /\ InOrder(<<>>) BY DEF InOrder
<1>4. TypeOK BY <1>1, BufferAssumption DEF TypeOK
<1>5. Flow BY <1>2, <1>3 DEF Flow, Before, Stale
<1>6. EndInOrder BY DEF EndInOrder
<1>7. wanted \subseteq Nat \ {0}
  BY <1>1, TreeAssumption DEF Selected
<1>8. Complete BY <1>2, <1>7 DEF Complete, NoGap, AllMet, Stale
<1> QED BY <1>4, <1>5, <1>6, <1>8 DEF IInv

\* The order in which the goroutines end.
LEMMA EndStep == IInv /\ [Next]_vars => EndInOrder'
<1> SUFFICES ASSUME IInv, [Next]_vars PROVE EndInOrder'
  OBVIOUS
<1>1. /\ TypeOK /\ EndInOrder
      /\ File = 1..Len(Tree) /\ Len(Tree) \in Nat
      /\ next \in 1..(Len(Tree) + 1) /\ ctx \in {"live", "done"}
  BY TreeAssumption DEF IInv, File, TypeOK
<1> USE <1>1 DEF EndInOrder, walker, filtering, converting, chosen
<1>2. CASE WalkEntry BY <1>2 DEF WalkEntry
<1>3. CASE WalkSend BY <1>3 DEF WalkSend
<1>4. CASE WalkFails BY <1>4 DEF WalkFails
<1>5. CASE WalkEnds BY <1>5 DEF WalkEnds
<1>6. CASE CloseWalk BY <1>6 DEF CloseWalk
<1>7. CASE FilterRecv BY <1>7 DEF FilterRecv
<1>8. CASE FilterEnds BY <1>8 DEF FilterEnds
<1>9. CASE HandOver BY <1>9 DEF HandOver
<1>10. CASE ConvertSend BY <1>10 DEF ConvertSend
<1>11. CASE ConvertEnds BY <1>11 DEF ConvertEnds
<1>12. CASE StartFilter BY <1>12 DEF StartFilter
<1>13. CASE OpenBacklog BY <1>13 DEF OpenBacklog
<1>14. CASE WriteEntry BY <1>14 DEF WriteEntry
<1>15. CASE WriteFails BY <1>15 DEF WriteFails
<1>16. CASE WriteEnds BY <1>16 DEF WriteEnds
<1>17. CASE WriteCancelled BY <1>17 DEF WriteCancelled
<1>18. CASE ScanFails BY <1>18 DEF ScanFails
<1>19. CASE CheckWalk BY <1>19 DEF CheckWalk
<1>20. CASE Cancel BY <1>20 DEF Cancel
<1>21. CASE UNCHANGED vars BY <1>21 DEF vars
<1> QED
  BY <1>2, <1>3, <1>4, <1>5, <1>6, <1>7, <1>8, <1>9, <1>10, <1>11, <1>12, <1>13, <1>14, <1>15, <1>16, <1>17, <1>18, <1>19, <1>20, <1>21
  DEF Next, Walker, Filter, Converter, Main

\* Closing the backlog leaves a part of it, and the rest counts as lost.
LEMMA CloseFacts ==
  ASSUME TypeOK, Flow, main = "writing", CloseBacklog
  PROVE  /\ backlog' \in Seq(File \union {Stale}) /\ InOrder(backlog')
         /\ Stored' \subseteq Stored /\ Stale \notin Stored
         /\ lost' \subseteq lost \union Stored
         /\ wanted \ lost' \subseteq wanted \ lost
         /\ Stored \ Stored' \subseteq lost' /\ Stored' \subseteq wanted \ lost'
<1>1. /\ backlog \in Seq(File \union {Stale}) /\ InOrder(backlog)
      /\ Stale \notin Stored /\ Stored \subseteq wanted \ lost
  BY DEF TypeOK, Flow
<1>2. File \union {Stale} \in SUBSET Nat BY TreeAssumption DEF File, Stale
<1>3. CASE UNCHANGED <<backlog, lost>>
  BY <1>1, <1>3 DEF Stored
<1>4. ASSUME NEW kept \in 0..Len(backlog), backlog' = SubSeq(backlog, 1, kept),
             lost' = lost \union {backlog[i] : i \in (kept + 1)..Len(backlog)}
      PROVE  /\ backlog' \in Seq(File \union {Stale}) /\ InOrder(backlog')
             /\ Stored' \subseteq Stored
             /\ lost' \subseteq lost \union Stored
             /\ Stored \ Stored' \subseteq lost' /\ Stored' \subseteq wanted \ lost'
  <2> DEFINE cut == {backlog[i] : i \in (kept + 1)..Len(backlog)}
  <2>1. /\ SubSeq(backlog, 1, kept) \in Seq(File \union {Stale})
        /\ Entries(backlog) = Entries(SubSeq(backlog, 1, kept)) \union cut
        /\ InOrder(SubSeq(backlog, 1, kept))
        /\ Entries(SubSeq(backlog, 1, kept)) \intersect cut = {}
    BY <1>1, <1>2, CutFacts
  <2>2. lost' = lost \union cut BY <1>4
  <2>3. Stored = Stored' \union cut /\ Stored' \intersect cut = {}
    BY <1>4, <2>1 DEF Stored
  <2> HIDE DEF cut
  <2> QED BY <1>1, <1>4, <2>1, <2>2, <2>3
<1>5. \/ UNCHANGED <<backlog, lost>>
      \/ \E kept \in 0..Len(backlog) :
           /\ backlog' = SubSeq(backlog, 1, kept)
           /\ lost' = lost \union {backlog[i] : i \in (kept + 1)..Len(backlog)}
  BY DEF CloseBacklog
<1> QED BY <1>1, <1>3, <1>4, <1>5

\* The types.
LEMMA TypeStep == IInv /\ [Next]_vars => TypeOK'
<1> SUFFICES ASSUME IInv, [Next]_vars PROVE TypeOK'
  OBVIOUS
<1>1. TypeOK /\ Flow /\ EndInOrder BY DEF IInv
<1>2. File = 1..Len(Tree) /\ Len(Tree) \in Nat BY TreeAssumption DEF File
<1> USE <1>1 DEF TypeOK, walker, filtering, converting, chosen
<1>3. CASE WalkEntry
  <2>1. next \in File BY <1>2, <1>3 DEF WalkEntry
  <2>2. next' \in 1..(Len(Tree) + 1)
    BY <1>2, <1>3, <2>1, PassFacts, BehindFacts DEF WalkEntry
  <2>3. lost' \subseteq wanted BY <1>3 DEF WalkEntry
  <2> QED BY <1>3, <2>2, <2>3 DEF WalkEntry
<1>4. CASE WalkSend
  <2>1. next \in File BY <1>4 DEF WalkSend, EndInOrder
  <2>2. next' \in 1..(Len(Tree) + 1) BY <1>2, <1>4, <2>1, PassFacts DEF WalkSend
  <2>3. walkCh' \in Seq(File) /\ Len(walkCh') <= WalkBuffer
    BY <1>4, <2>1, BufferAssumption DEF WalkSend
  <2> QED BY <1>4, <2>2, <2>3 DEF WalkSend
<1>5. CASE FilterRecv
  <2>1. /\ walkCh' \in Seq(File) /\ Len(walkCh') <= WalkBuffer
        /\ Head(walkCh) \in File
    BY <1>5, BufferAssumption DEF FilterRecv
  <2>2. lost' \subseteq wanted BY <1>5 DEF FilterRecv
  <2>3. item' \in File \union {Stale} /\ filter' \in {"off", "recv", "send", "done"}
    BY <1>5, <2>1 DEF FilterRecv
  <2> QED BY <1>5, <2>1, <2>2, <2>3 DEF FilterRecv
<1>6. CASE ConvertSend
  <2>1. path \in File BY <1>6 DEF ConvertSend, Flow, Carried, Selected, File
  <2>2. relPathCh' \in Seq(File) /\ Len(relPathCh') <= PathBuffer
    BY <1>6, <2>1, BufferAssumption DEF ConvertSend
  <2> QED BY <1>6, <2>2 DEF ConvertSend
<1>7. CASE WriteEntry
  <2>1. /\ relPathCh' \in Seq(File) /\ Len(relPathCh') <= PathBuffer
        /\ Head(relPathCh) \in File
    BY <1>7, BufferAssumption DEF WriteEntry
  <2>2. backlog' \in Seq(File \union {Stale}) BY <1>7, <2>1 DEF WriteEntry
  <2> QED BY <1>7, <2>1, <2>2 DEF WriteEntry
<1>8. CASE WriteFails
  <2>1. relPathCh' \in Seq(File) /\ Len(relPathCh') <= PathBuffer
    BY <1>8, BufferAssumption DEF WriteFails
  <2>2. backlog' \in Seq(File \union {Stale}) /\ lost' \subseteq wanted
    BY <1>8, CloseFacts DEF WriteFails, Flow
  <2> QED BY <1>8, <2>1, <2>2 DEF WriteFails
<1>9. CASE WriteEnds \/ WriteCancelled
  <2>1. backlog' \in Seq(File \union {Stale}) /\ lost' \subseteq wanted
    BY <1>9, CloseFacts DEF WriteEnds, WriteCancelled, Flow
  <2> QED BY <1>9, <2>1 DEF WriteEnds, WriteCancelled
<1>10. CASE WalkFails \/ WalkEnds \/ CloseWalk \/ FilterEnds
  BY <1>10 DEF WalkFails, WalkEnds, CloseWalk, FilterEnds
<1>11. CASE HandOver \/ ConvertEnds \/ StartFilter
  BY <1>11 DEF HandOver, ConvertEnds, StartFilter
<1>12. CASE OpenBacklog
  <2>1. backlog' \in Seq(File \union {Stale}) BY <1>12 DEF OpenBacklog
  <2> QED BY <1>12, <2>1 DEF OpenBacklog
<1>13. CASE ScanFails \/ CheckWalk \/ Cancel \/ UNCHANGED vars
  BY <1>13 DEF ScanFails, CheckWalk, Cancel, vars
<1> QED
  BY <1>3, <1>4, <1>5, <1>6, <1>7, <1>8, <1>9, <1>10, <1>11, <1>12, <1>13
  DEF Next, Walker, Filter, Converter, Main

\* Bounds of an interval.
LEMMA IntervalFacts ==
  \A i, j, k \in Nat : k \in i..(j - 1) <=> i <= k /\ k < j
OBVIOUS

\* A sequence over a set is one over a larger set.
LEMMA SeqSubset ==
  ASSUME NEW S, NEW T, S \subseteq T, NEW seq \in Seq(S)
  PROVE  seq \in Seq(T)
OBVIOUS

\* All places hold numbers.
LEMMA Numbers ==
  ASSUME TypeOK
  PROVE  /\ backlog \in Seq(Nat) /\ relPathCh \in Seq(Nat) /\ walkCh \in Seq(Nat)
         /\ item \in Nat /\ path \in Nat /\ next \in Nat
         /\ Stored \subseteq Nat /\ Sent \subseteq Nat /\ Carried \subseteq Nat
         /\ Passed \subseteq Nat /\ Met \subseteq Nat
         /\ wanted \subseteq Nat \ {0} /\ wanted \subseteq File
<1>1. File = 1..Len(Tree) /\ Len(Tree) \in Nat BY TreeAssumption DEF File
<1>2. File \subseteq Nat \ {0} /\ File \union {Stale} \subseteq Nat BY <1>1 DEF Stale
<1>3. backlog \in Seq(Nat) /\ relPathCh \in Seq(Nat) /\ walkCh \in Seq(Nat)
  <2>1. /\ backlog \in Seq(File \union {Stale})
        /\ relPathCh \in Seq(File) /\ walkCh \in Seq(File)
    BY DEF TypeOK
  <2>2. File \subseteq Nat BY <1>2
  <2> QED BY <1>2, <2>1, <2>2, SeqSubset
<1>4. item \in Nat /\ path \in Nat /\ next \in Nat
  <2>1. next \in 1..(Len(Tree) + 1) BY DEF TypeOK
  <2>2. item \in File \union {Stale} /\ path \in File \union {Stale} BY DEF TypeOK
  <2>3. next \in Nat BY <1>1, <2>1
  <2> QED BY <1>2, <2>2, <2>3
<1>5. wanted \subseteq File BY DEF TypeOK, Selected, File
<1>6. Stored \subseteq Nat /\ Sent \subseteq Nat /\ Met \subseteq Nat
  BY <1>3, EntriesType DEF Stored, Sent, Met
<1>7. Carried \subseteq Nat /\ Passed \subseteq Nat BY <1>4 DEF Carried, Passed
<1> QED BY <1>2, <1>3, <1>4, <1>5, <1>6, <1>7

\* Every file that is asked for is met by the walk or is still to come.
LEMMA WalkFacts ==
  ASSUME TypeOK, EndInOrder, WalkEntry \/ WalkSend
  PROVE  /\ next' \in Nat /\ next <= next'
         /\ WalkSend => next < next'
         /\ lost \subseteq lost' /\ \A f \in lost' \ lost : next <= f /\ f < next'
         /\ WalkEntry => \A f \in wanted \ lost' : f < next' => f < next
         /\ WalkSend => \A f \in wanted \ lost' : f < next' => f < next \/ f = next
<1>1. File = 1..Len(Tree) /\ Len(Tree) \in Nat BY TreeAssumption DEF File
<1>2. next \in File
  BY <1>1 DEF TypeOK, WalkEntry, WalkSend, EndInOrder
<1>3. wanted \subseteq Selected(Tree, options) /\ options \in OptionSets
      /\ wanted \subseteq Nat
  BY Numbers DEF TypeOK
<1>4. CASE WalkEntry
  <2>1. CASE Sends(Tree[next], options) /\ UNCHANGED <<next, lost>>
    BY <1>3, <1>4, <2>1, Numbers DEF WalkEntry, WalkSend
  <2>2. CASE ~Sends(Tree[next], options) /\ Pass /\ UNCHANGED lost
    <3>1. /\ next' \in (next + 1)..(Len(Tree) + 1)
          /\ \A f \in Selected(Tree, options) : ~(next <= f /\ f < next')
      BY <1>2, <1>3, <2>2, PassFacts
    <3>2. \A f \in wanted : f < next' => f < next
      BY <1>1, <1>2, <1>3, <3>1
    <3> QED BY <1>1, <1>2, <1>4, <2>2, <3>1, <3>2 DEF WalkEntry, WalkSend
  <2>3. CASE /\ next' \in {next + 1, Behind(Tree, next)}
             /\ lost' = lost \union (wanted \intersect next..(next' - 1))
    <3>1. next' \in (next + 1)..(Len(Tree) + 1) BY <1>1, <1>2, <2>3, BehindFacts
    <3>2. next \in Nat /\ next' \in Nat /\ next <= next' BY <1>1, <1>2, <3>1
    <3>3. ASSUME NEW f \in wanted
          PROVE  f \in next..(next' - 1) <=> next <= f /\ f < next'
      <4>1. f \in Nat BY <1>3
      <4> QED BY <3>2, <4>1, IntervalFacts
    <3>4. ASSUME NEW f \in wanted \ lost', f < next' PROVE f < next
      <4>1. f \in Nat BY <1>3
      <4>2. ~(next <= f) BY <2>3, <3>3, <3>4
      <4> QED BY <3>2, <4>1, <4>2
    <3>5. \A f \in lost' \ lost : next <= f /\ f < next' BY <1>3, <2>3, <3>3
    <3> QED BY <1>4, <2>3, <3>2, <3>4, <3>5 DEF WalkEntry, WalkSend
  <2> QED BY <1>4, <2>1, <2>2, <2>3 DEF WalkEntry
<1>5. CASE WalkSend
  <2>1. Pass /\ UNCHANGED lost BY <1>5 DEF WalkSend
  <2>2. /\ next' \in (next + 1)..(Len(Tree) + 1)
        /\ \A f \in Selected(Tree, options) : next <= f /\ f < next' => f = next
    BY <1>2, <1>3, <2>1, PassFacts
  <2>3. \A f \in wanted : f < next' => f < next \/ f = next
    BY <1>1, <1>2, <1>3, <2>2
  <2> QED BY <1>1, <1>2, <1>5, <2>1, <2>2, <2>3 DEF WalkEntry, WalkSend
<1> QED BY <1>4, <1>5

\* A place changes only with its channel or its goroutine.
LEMMA PlacesStay ==
  /\ UNCHANGED backlog => UNCHANGED Stored
  /\ UNCHANGED relPathCh => UNCHANGED Sent
  /\ UNCHANGED <<converter, path>> => UNCHANGED Carried
  /\ UNCHANGED <<filter, item>> => UNCHANGED Passed
  /\ UNCHANGED walkCh => UNCHANGED Met
BY DEF Stored, Sent, Carried, Passed, Met

\* The walk only goes forward.
LEMMA BeforeLater ==
  ASSUME NEW files \in SUBSET Nat, NEW others, NEW i \in Nat, NEW j \in Nat, i <= j,
         Before(files, others \union {i})
  PROVE  Before(files, others \union {j})
<1>1. ASSUME NEW f \in files PROVE f < j
  <2>1. f \in Nat /\ f < i BY DEF Before
  <2> QED BY <2>1
<1> QED BY <1>1 DEF Before

\* The walk.
LEMMA WalkerStep ==
  ASSUME IInv, Walker
  PROVE  Flow' /\ Complete'
<1>1. TypeOK /\ EndInOrder /\ Flow /\ Complete BY DEF IInv
<1>2. UNCHANGED <<ctx, main, filtering, converting, backlog, chosen>>
  BY DEF Walker, WalkEntry, WalkSend, WalkFails, WalkEnds, CloseWalk
<1>3. UNCHANGED <<Stored, Sent, Carried, Passed>>
  BY <1>2, PlacesStay DEF filtering, converting
<1>4. /\ UNCHANGED <<ctx, main, backlog, relPathCh, converter, filter, wanted>>
  BY <1>2 DEF filtering, converting, chosen
<1>5. CASE WalkEntry
  <2>1. UNCHANGED <<walkCh, walkErr>> BY <1>5 DEF WalkEntry
  <2>2. UNCHANGED Met BY <2>1, PlacesStay
  <2>3. /\ Before(Stored, Sent \union Carried \union Passed \union Met \union {next'})
        /\ Before(Sent, Carried \union Passed \union Met \union {next'})
        /\ Before(Carried, Passed \union Met \union {next'})
        /\ Before(Passed, Met \union {next'})
        /\ Before(Met, {next'})
    <3>1. next \in Nat /\ next' \in Nat /\ next <= next' BY <1>1, <1>5, Numbers, WalkFacts
    <3>2. ASSUME NEW f \in Met PROVE f < next'
      <4>1. f \in Nat /\ f < next BY <1>1, Numbers DEF Flow, Before
      <4> QED BY <3>1, <4>1
    <3>3. Before(Met, {next'}) BY <3>2 DEF Before
    <3> QED BY <1>1, <3>1, <3>3, Numbers, BeforeLater DEF Flow
  <2>4. Flow'
    <3>1. ASSUME NEW f \in Stored \union Sent \union Carried \union Passed \union Met,
                 f \in lost'
          PROVE  f \in lost
      <4>1. next \in Nat /\ f \in Nat /\ f < next BY <1>1, Numbers DEF Flow, Before
      <4>2. ~(next <= f) BY <4>1
      <4> QED BY <1>1, <1>5, <3>1, <4>2, WalkFacts
    <3>2. Sent \union Carried \union Passed \subseteq wanted \ lost'
      BY <1>1, <3>1 DEF Flow
    <3>3. Stored \subseteq (wanted \ lost') \union {Stale} BY <1>1, <3>1 DEF Flow
    <3>4. Met \intersect lost' = {} BY <1>1, <3>1 DEF Flow
    <3>5. ASSUME NEW f \in lost' PROVE f < next'
      <4>1. CASE f \in lost
        <5>1. f \in Nat /\ f < next BY <1>1, <4>1, Numbers DEF Flow, Before, TypeOK
        <5>2. next \in Nat /\ next' \in Nat /\ next <= next'
          BY <1>1, <1>5, Numbers, WalkFacts
        <5> QED BY <5>1, <5>2
      <4>2. CASE f \notin lost BY <1>1, <1>5, <4>2, WalkFacts
      <4> QED BY <4>1, <4>2
    <3>6. Before(lost', {next'}) BY <3>5 DEF Before
    <3> QED BY <1>1, <1>3, <1>4, <2>1, <2>2, <2>3, <3>2, <3>3, <3>4, <3>6 DEF Flow
  <2>5. AllMet => AllMet'
    BY <1>1, <1>3, <1>4, <1>5, <2>2, WalkFacts DEF AllMet
  <2>6. wanted' \ lost' \subseteq wanted \ lost BY <1>1, <1>4, <1>5, WalkFacts
  <2>7. Complete'
    BY <1>1, <1>3, <1>4, <2>1, <2>5, <2>6 DEF Complete, NoGap
  <2> QED BY <2>4, <2>7
<1>6. CASE WalkSend
  <2>1. /\ UNCHANGED <<walkErr, lost>> /\ walkCh' = Append(walkCh, next)
    BY <1>6 DEF WalkSend
  <2>2. Met' = Met \union {next} /\ InOrder(walkCh')
    BY <1>1, <2>1, Numbers, AppendFacts DEF Met, Flow
  <2>3. /\ Before(Stored, Sent \union Carried \union Passed \union Met \union {next'})
        /\ Before(Sent, Carried \union Passed \union Met \union {next'})
        /\ Before(Carried, Passed \union Met \union {next'})
        /\ Before(Passed, Met \union {next'})
        /\ Before(Met, {next'})
    <3>1. next \in Nat /\ next' \in Nat /\ next <= next' BY <1>1, <1>6, Numbers, WalkFacts
    <3>2. ASSUME NEW f \in Met PROVE f < next'
      <4>1. f \in Nat /\ f < next BY <1>1, Numbers DEF Flow, Before
      <4> QED BY <3>1, <4>1
    <3>3. Before(Met, {next'}) BY <3>2 DEF Before
    <3> QED BY <1>1, <3>1, <3>3, Numbers, BeforeLater DEF Flow
  <2>4. Flow'
    <3>1. Before(Met', {next'})
      <4>1. next < next' BY <1>1, <1>6, WalkFacts
      <4> QED BY <2>2, <2>3, <4>1 DEF Before
    <3>2. /\ Before(Stored, {next}) /\ Before(Sent, {next}) /\ Before(Carried, {next})
          /\ Before(Passed, {next})
      BY <1>1 DEF Flow, Before
    <3>3. /\ Before(Stored, Sent \union Carried \union Passed \union Met' \union {next'})
          /\ Before(Sent, Carried \union Passed \union Met' \union {next'})
          /\ Before(Carried, Passed \union Met' \union {next'})
          /\ Before(Passed, Met' \union {next'})
      BY <2>2, <2>3, <3>2 DEF Before
    <3>4. next \in Nat /\ next' \in Nat /\ next < next' BY <1>1, <1>6, Numbers, WalkFacts
    <3>5. ASSUME NEW f \in lost PROVE f # next /\ f < next'
      <4>1. f \in Nat /\ f < next BY <1>1, Numbers DEF Flow, Before, TypeOK
      <4> QED BY <3>4, <4>1
    <3>6. Met' \intersect lost = {} /\ Before(lost, {next'})
      BY <1>1, <2>2, <3>5 DEF Flow, Before
    <3> QED BY <1>1, <1>3, <1>4, <2>1, <2>2, <3>1, <3>3, <3>6 DEF Flow
  <2>5. AllMet => AllMet'
    BY <1>1, <1>3, <1>4, <1>6, <2>2, WalkFacts DEF AllMet
  <2>6. wanted' \ lost' \subseteq wanted \ lost BY <1>1, <1>4, <1>6, WalkFacts
  <2>7. Complete'
    BY <1>1, <1>3, <1>4, <2>1, <2>5, <2>6 DEF Complete, NoGap
  <2> QED BY <2>4, <2>7
<1>7. CASE WalkFails \/ WalkEnds \/ CloseWalk
  <2>1. UNCHANGED <<next, walkCh, lost>> BY <1>7 DEF WalkFails, WalkEnds, CloseWalk
  <2>2. UNCHANGED Met BY <2>1, PlacesStay
  <2>3. walk # "closed" BY <1>7 DEF WalkFails, WalkEnds, CloseWalk
  <2>4. Flow' BY <1>1, <1>3, <1>4, <2>1, <2>2 DEF Flow, Before
  <2>5. Complete'
    BY <1>1, <1>3, <1>4, <2>1, <2>2, <2>3 DEF Complete, NoGap, AllMet, EndInOrder, TypeOK
  <2> QED BY <2>4, <2>5
<1> QED BY <1>5, <1>6, <1>7 DEF Walker

\* The filter and its channel without buffer.
LEMMA FilterStep ==
  ASSUME IInv, Filter \/ HandOver
  PROVE  Flow' /\ Complete'
<1>1. TypeOK /\ EndInOrder /\ Flow /\ Complete BY DEF IInv
<1>2. UNCHANGED <<ctx, main, next, walkErr, relPathCh, backlog, wanted>>
  BY DEF Filter, FilterRecv, FilterEnds, HandOver, walker, converting, chosen
<1>3. UNCHANGED <<Stored, Sent>> BY <1>2, PlacesStay
<1>4. CASE FilterRecv
  <2> DEFINE file == Head(walkCh)
  <2>1. /\ filter = "recv" /\ walkCh # <<>> /\ walkCh' = Tail(walkCh)
        /\ UNCHANGED <<converter, path>> /\ filter' # "done" /\ Passed = {}
    BY <1>4 DEF FilterRecv, filtering, converting, Passed
  <2>2. UNCHANGED Carried BY <2>1, PlacesStay
  <2>3. /\ Met = {file} \union Met' /\ InOrder(walkCh') /\ Before({file}, Met')
    BY <1>1, <2>1, Numbers, TailFacts DEF Met, Flow
  <2>4. file \notin Met' /\ file \notin lost
    <3>1. file \in Nat BY <1>1, <2>3, Numbers
    <3> QED BY <1>1, <2>3, <3>1 DEF Before, Flow
  <2>5. \/ file \in wanted /\ Passed' = {file} /\ UNCHANGED lost
        \/ file \notin wanted /\ Passed' = {} /\ UNCHANGED lost
        \/ file \in wanted /\ Passed' = {} /\ lost' = lost \union {file}
    BY <1>4, <2>1 DEF FilterRecv, filtering, Passed
  <2> HIDE DEF file
  <2>6. Flow'
    <3>1. /\ Before({file}, {next}) /\ Before(Met', {next})
      BY <1>1, <2>3 DEF Flow, Before
    <3>2. /\ Before(Stored, Sent \union Carried \union Passed' \union Met' \union {next})
          /\ Before(Sent, Carried \union Passed' \union Met' \union {next})
          /\ Before(Carried, Passed' \union Met' \union {next})
      BY <1>1, <2>1, <2>3, <2>5 DEF Flow, Before
    <3>3. Before(Passed', Met' \union {next}) BY <2>3, <2>5, <3>1 DEF Before
    <3>4. Before(lost', {next}) /\ Met' \intersect lost' = {}
      BY <1>1, <2>3, <2>4, <2>5, <3>1 DEF Flow, Before
    <3>5. file \notin Stored \union Sent \union Carried
      <4>1. file \in Nat BY <1>1, <2>3, Numbers
      <4> QED BY <1>1, <2>3, <4>1 DEF Flow, Before
    <3>6. Sent \union Carried \union Passed' \subseteq wanted \ lost'
      BY <1>1, <2>4, <2>5, <3>5 DEF Flow
    <3>7. Stored \subseteq (wanted \ lost') \union {Stale} BY <1>1, <2>5, <3>5 DEF Flow
    <3> QED
      BY <1>1, <1>2, <1>3, <2>2, <2>3, <3>1, <3>2, <3>3, <3>4, <3>6, <3>7 DEF Flow
  <2>7. wanted' \ lost' \subseteq wanted \ lost BY <1>2, <2>5
  <2>8. AllMet => AllMet'
    BY <1>2, <1>3, <2>1, <2>2, <2>3, <2>5 DEF AllMet
  <2>9. Complete'
    BY <1>1, <1>2, <1>3, <2>1, <2>2, <2>7, <2>8 DEF Complete, NoGap
  <2> QED BY <2>6, <2>9
<1>5. CASE FilterEnds
  <2>1. UNCHANGED <<converter, path, walkCh, lost>> /\ filter' = "done"
    BY <1>5 DEF FilterEnds, walker, converting
  <2>2. UNCHANGED <<Carried, Met>> /\ Passed' = {} BY <2>1, PlacesStay DEF Passed
  <2>3. Flow' BY <1>1, <1>2, <1>3, <2>1, <2>2 DEF Flow, Before
  <2>4. ctx = "live" => Passed = {} BY <1>5 DEF FilterEnds, Passed
  <2>5. ctx = "live" /\ AllMet => AllMet' BY <1>2, <1>3, <2>1, <2>2, <2>4 DEF AllMet
  <2>6. Complete'
    BY <1>1, <1>2, <1>3, <2>1, <2>2, <2>5 DEF Complete, NoGap
  <2> QED BY <2>3, <2>6
<1>6. CASE HandOver
  <2>1. /\ UNCHANGED <<walkCh, lost>> /\ filter = "send" /\ filter' = "recv"
        /\ converter = "recv" /\ converter' = "send" /\ path' = item
    BY <1>6 DEF HandOver, walker
  <2>2. /\ Carried = {} /\ Passed = {item} /\ Carried' = {item} /\ Passed' = {}
        /\ UNCHANGED Met
    BY <2>1, PlacesStay DEF Carried, Passed
  <2>3. Flow' BY <1>1, <1>2, <1>3, <2>1, <2>2 DEF Flow, Before
  <2>4. AllMet => AllMet' BY <1>2, <1>3, <2>1, <2>2 DEF AllMet
  <2>5. ASSUME AllMet, NEW f \in wanted \ lost, NEW g \in Stored \union Sent \union {item},
               f \notin Stored \union Sent \union {item}
        PROVE  g < f
    <3>1. f \in Nat /\ g \in Nat /\ next \in Nat BY <1>1, <2>2, Numbers
    <3>2. g < next BY <1>1, <2>2 DEF Flow, Before
    <3>3. CASE f < next
      <4>1. f \in Met BY <2>2, <2>5, <3>3 DEF AllMet
      <4> QED BY <1>1, <2>2, <4>1 DEF Flow, Before
    <3>4. CASE ~(f < next) BY <3>1, <3>2, <3>4
    <3> QED BY <3>3, <3>4
  <2>6. AllMet => NoGap(Stored \union Sent \union {item}) BY <2>5 DEF NoGap
  <2>7. main \in {"start", "opening", "writing"} => AllMet /\ NoGap(Stored \union Sent)
    BY <1>1, <2>1 DEF Complete
  <2>8. Complete'
    BY <1>1, <1>2, <1>3, <2>1, <2>2, <2>4, <2>6, <2>7 DEF Complete, NoGap
  <2> QED BY <2>3, <2>8
<1> QED BY <1>4, <1>5, <1>6 DEF Filter

\* The converter and the cancellation.
LEMMA ConverterStep ==
  ASSUME IInv, Converter \/ Cancel
  PROVE  Flow' /\ Complete'
<1>1. TypeOK /\ EndInOrder /\ Flow /\ Complete BY DEF IInv
<1>2. UNCHANGED <<main, next, walkErr, walkCh, filter, item, path, backlog, wanted, lost>>
  BY DEF Converter, ConvertSend, ConvertEnds, Cancel, walker, filtering, converting, chosen
<1>3. UNCHANGED <<Stored, Passed, Met>> BY <1>2, PlacesStay
<1>4. CASE ConvertSend
  <2>1. /\ converter = "send" /\ converter' = "recv" /\ UNCHANGED ctx
        /\ relPathCh' = Append(relPathCh, path)
    BY <1>4 DEF ConvertSend
  <2>2. Carried = {path} /\ Carried' = {} BY <2>1 DEF Carried
  <2>3. Sent' = Sent \union {path} /\ InOrder(relPathCh')
    <3>1. Before(Sent, {path}) BY <1>1, <2>2 DEF Flow, Before
    <3> QED BY <1>1, <2>1, <3>1, Numbers, AppendFacts DEF Sent, Flow
  <2>4. Flow' BY <1>1, <1>2, <1>3, <2>1, <2>2, <2>3 DEF Flow, Before
  <2>5. AllMet => AllMet' BY <1>2, <1>3, <2>2, <2>3 DEF AllMet
  <2>6. Stored \union Sent \union Carried = Stored \union Sent' BY <2>2, <2>3
  <2>7. Complete'
    BY <1>1, <1>2, <1>3, <2>1, <2>2, <2>5, <2>6 DEF Complete, NoGap
  <2> QED BY <2>4, <2>7
<1>5. CASE ConvertEnds
  <2>1. UNCHANGED <<relPathCh, ctx>> /\ converter' = "done" BY <1>5 DEF ConvertEnds
  <2>2. UNCHANGED Sent /\ Carried' = {} BY <2>1, PlacesStay DEF Carried
  <2>3. ctx = "live" => Carried = {} BY <1>5 DEF ConvertEnds, Carried
  <2>4. Flow' BY <1>1, <1>2, <1>3, <2>1, <2>2 DEF Flow, Before
  <2>5. ctx = "live" /\ AllMet => AllMet'
    BY <1>2, <1>3, <2>2, <2>3 DEF AllMet
  <2>6. Complete' BY <1>1, <1>2, <1>3, <2>1, <2>2, <2>5 DEF Complete, NoGap
  <2> QED BY <2>4, <2>6
<1>6. CASE Cancel
  <2>1. UNCHANGED <<relPathCh, converter>> /\ ctx = "live" /\ ctx' = "done"
    BY <1>6 DEF Cancel, converting
  <2>2. UNCHANGED <<Sent, Carried>> BY <1>2, <2>1, PlacesStay
  <2>3. Flow' BY <1>1, <1>2, <1>3, <2>1, <2>2 DEF Flow, Before
  <2>4. AllMet => AllMet' BY <1>2, <1>3, <2>2 DEF AllMet
  <2>5. Complete' BY <1>1, <1>2, <1>3, <2>1, <2>2, <2>4 DEF Complete, NoGap
  <2> QED BY <2>3, <2>5
<1> QED BY <1>4, <1>5, <1>6 DEF Converter

\* ScanAndFilter and StartWriting.
LEMMA MainStep ==
  ASSUME IInv, Main
  PROVE  Flow' /\ Complete'
<1>1. TypeOK /\ EndInOrder /\ Flow /\ Complete BY DEF IInv
<1>2. UNCHANGED <<ctx, next, walkErr, walkCh, wanted>>
  BY DEF Main, StartFilter, OpenBacklog, WriteEntry, WriteFails, WriteEnds,
         WriteCancelled, ScanFails, CheckWalk, walker, chosen
<1>3. UNCHANGED Met BY <1>2, PlacesStay
<1>4. CASE StartFilter
  <2>1. /\ UNCHANGED <<relPathCh, backlog, lost>> /\ main = "start" /\ main' = "opening"
        /\ filter' = "recv" /\ converter' = "recv" /\ filter = "off" /\ converter = "off"
    BY <1>1, <1>4 DEF StartFilter, EndInOrder
  <2>2. /\ UNCHANGED <<Stored, Sent>>
        /\ Carried = {} /\ Carried' = {} /\ Passed = {} /\ Passed' = {}
    BY <2>1, PlacesStay DEF Carried, Passed
  <2>3. Flow' BY <1>1, <1>2, <1>3, <2>1, <2>2 DEF Flow, Before
  <2>4. AllMet => AllMet' BY <1>2, <1>3, <2>1, <2>2 DEF AllMet
  <2>5. Complete' BY <1>1, <1>2, <1>3, <2>1, <2>2, <2>4 DEF Complete, NoGap
  <2> QED BY <2>3, <2>5
<1>5. CASE OpenBacklog
  <2>1. /\ UNCHANGED <<relPathCh, converter, path, filter, item, lost>>
        /\ main = "opening" /\ main' = "writing" /\ backlog' = <<>>
    BY <1>5 DEF OpenBacklog, filtering, converting
  <2>2. /\ UNCHANGED <<Sent, Carried, Passed>> /\ Stored = {Stale} /\ Stored' = {}
        /\ InOrder(backlog')
    BY <1>1, <2>1, PlacesStay, EmptyFacts DEF Stored, Flow
  <2>3. Flow' BY <1>1, <1>2, <1>3, <2>1, <2>2 DEF Flow, Before
  <2>4. Stale \notin wanted BY <1>1, Numbers DEF Stale
  <2>5. AllMet => AllMet' BY <1>2, <1>3, <2>1, <2>2, <2>4 DEF AllMet
  <2>6. Complete'
    BY <1>1, <1>2, <1>3, <2>1, <2>2, <2>4, <2>5 DEF Complete, NoGap
  <2> QED BY <2>3, <2>6
<1>6. CASE WriteEntry
  <2> DEFINE file == Head(relPathCh)
  <2>1. /\ UNCHANGED <<converter, path, filter, item, lost, main>> /\ main = "writing"
        /\ relPathCh # <<>> /\ relPathCh' = Tail(relPathCh)
        /\ backlog' = Append(backlog, file)
    BY <1>6 DEF WriteEntry, filtering, converting
  <2>2. UNCHANGED <<Carried, Passed>> BY <2>1, PlacesStay
  <2>3. /\ Sent = {file} \union Sent' /\ InOrder(relPathCh') /\ Before({file}, Sent')
    BY <1>1, <2>1, Numbers, TailFacts DEF Sent, Flow
  <2>4. file \in Nat /\ Before(Stored, {file})
    BY <1>1, <2>3, Numbers DEF Flow, Before
  <2>5. Stored' = Stored \union {file} /\ InOrder(backlog')
    BY <1>1, <2>1, <2>4, Numbers, AppendFacts DEF Stored, Flow
  <2> HIDE DEF file
  <2>6. file \in wanted \ lost /\ file # Stale BY <1>1, <2>3, Numbers DEF Flow, Stale
  <2>7. Flow'
    <3>1. Stale \notin Stored' BY <1>1, <2>1, <2>5, <2>6 DEF Flow
    <3> QED
      BY <1>1, <1>2, <1>3, <2>1, <2>2, <2>3, <2>5, <2>6, <3>1 DEF Flow, Before
  <2>8. Stored \union Sent = Stored' \union Sent' BY <2>3, <2>5
  <2>9. NoGap(Stored')
    <3>1. NoGap(Stored \union Sent) BY <1>1, <2>1 DEF Complete
    <3>2. ASSUME NEW f \in wanted \ lost, f \notin Stored', NEW g \in Stored'
          PROVE  g < f
      <4>1. CASE f \in Sent
        <5>1. f \in Sent' BY <2>3, <2>5, <3>2, <4>1
        <5>2. Before(Stored, Sent) BY <1>1 DEF Flow, Before
        <5> QED BY <2>3, <2>5, <4>1, <5>1, <5>2 DEF Before
      <4>2. CASE f \notin Sent
        BY <2>3, <2>5, <3>1, <3>2, <4>2 DEF NoGap
      <4> QED BY <4>1, <4>2
    <3> QED BY <3>2 DEF NoGap
  <2>10. AllMet => AllMet' BY <1>2, <1>3, <2>1, <2>2, <2>8 DEF AllMet
  <2>11. Complete'
    BY <1>1, <1>2, <1>3, <2>1, <2>2, <2>8, <2>9, <2>10 DEF Complete, NoGap
  <2> QED BY <2>7, <2>11
<1>7. CASE WriteFails \/ WriteEnds \/ WriteCancelled
  <2>1. /\ UNCHANGED <<converter, path, filter, item>> /\ CloseBacklog
        /\ main = "writing" /\ main' \in {"failed", "check"}
        /\ main' = "check" => relPathCh = <<>> /\ converter = "done"
    BY <1>7 DEF WriteFails, WriteEnds, WriteCancelled, filtering, converting
  <2>2. UNCHANGED <<Carried, Passed>> BY <2>1, PlacesStay
  <2>3. Sent' \subseteq Sent /\ InOrder(relPathCh')
    <3>1. CASE WriteFails
      BY <1>1, <3>1, Numbers, TailFacts DEF WriteFails, Sent, Flow
    <3>2. CASE WriteEnds \/ WriteCancelled
      BY <1>1, <3>2 DEF WriteEnds, WriteCancelled, converting, Sent, Flow
    <3> QED BY <1>7, <3>1, <3>2
  <2>4. /\ InOrder(backlog') /\ Stored' \subseteq Stored /\ Stale \notin Stored
        /\ lost' \subseteq lost \union Stored /\ wanted \ lost' \subseteq wanted \ lost
        /\ Stored \ Stored' \subseteq lost' /\ Stored' \subseteq wanted \ lost'
    BY <1>1, <2>1, CloseFacts
  <2>5. Stored \intersect (Sent \union Carried \union Passed \union Met) = {}
    <3>1. \A f \in Stored : f \in Nat /\ ~(f < f) BY <1>1, Numbers
    <3> QED BY <1>1, <3>1 DEF Flow, Before
  <2>6. Flow'
    <3>1. Before(lost', {next}) BY <1>1, <2>4 DEF Flow, Before
    <3>2. Sent' \union Carried \union Passed \subseteq wanted \ lost'
      BY <1>1, <2>3, <2>4, <2>5 DEF Flow
    <3>3. Met \intersect lost' = {} BY <1>1, <2>4, <2>5 DEF Flow
    <3>4. Before(Stored', Sent' \union Carried \union Passed \union Met \union {next})
      BY <1>1, <2>3, <2>4 DEF Flow, Before
    <3>5. Before(Sent', Carried \union Passed \union Met \union {next})
      BY <1>1, <2>3 DEF Flow, Before
    <3> QED
      BY <1>1, <1>2, <1>3, <2>1, <2>2, <2>3, <2>4, <3>1, <3>2, <3>3, <3>4, <3>5 DEF Flow
  <2>7. NoGap(Stored)' BY <1>1, <1>2, <2>4 DEF Complete, NoGap
  <2>8. ASSUME main' = "check", ctx = "live", walkErr = "closed"
        PROVE  wanted \ lost' \subseteq Stored'
    <3>1. converter = "done" /\ filter = "done" /\ walk = "closed" /\ walkCh = <<>>
      BY <1>1, <2>1, <2>8 DEF EndInOrder
    <3>2. next = Len(Tree) + 1 BY <1>1, <2>8, <3>1 DEF EndInOrder
    <3>3. Sent = {} /\ Carried = {} /\ Passed = {} /\ Met = {}
      BY <2>1, <2>8, <3>1, EmptyFacts DEF Sent, Carried, Passed, Met
    <3>4. AllMet BY <1>1, <2>1, <2>8 DEF Complete
    <3>5. ASSUME NEW f \in wanted PROVE f < next
      <4>1. f \in 1..Len(Tree) /\ Len(Tree) \in Nat
        BY <1>1, Numbers, TreeAssumption DEF File
      <4> QED BY <3>2, <4>1
    <3>6. wanted \ lost \subseteq Stored BY <3>3, <3>4, <3>5 DEF AllMet
    <3> QED BY <2>4, <3>6
  <2>9. Complete' BY <1>2, <2>1, <2>7, <2>8 DEF Complete
  <2> QED BY <2>6, <2>9
<1>8. CASE ScanFails \/ CheckWalk
  <2>1. UNCHANGED <<relPathCh, converter, path, filter, item, backlog, lost>>
    BY <1>8 DEF ScanFails, CheckWalk, filtering, converting
  <2>2. UNCHANGED <<Stored, Sent, Carried, Passed>> BY <2>1, PlacesStay
  <2>3. main' \in {"failed", "ok"} /\ (main' = "ok" => main = "check")
        /\ main \in {"start", "opening", "check"}
    BY <1>8 DEF ScanFails, CheckWalk
  <2>4. Flow' BY <1>1, <1>2, <1>3, <2>1, <2>2, <2>3 DEF Flow, Before
  <2>5. Complete' BY <1>1, <1>2, <1>3, <2>1, <2>2, <2>3 DEF Complete, NoGap
  <2> QED BY <2>4, <2>5
<1> QED BY <1>4, <1>5, <1>6, <1>7, <1>8 DEF Main

-----------------------------------------------------------------------------
(* What follows *)

\* Every file is where the pipeline has taken it, in order, with none missing.
THEOREM InvariantHolds == Spec => []IInv
<1>1. IInv /\ [Next]_vars => IInv'
  <2> SUFFICES ASSUME IInv, [Next]_vars PROVE IInv'
    OBVIOUS
  <2>1. TypeOK' /\ EndInOrder' BY TypeStep, EndStep
  <2>2. Flow' /\ Complete'
    <3>1. CASE Next
      BY <3>1, WalkerStep, FilterStep, ConverterStep, MainStep DEF Next
    <3>2. CASE UNCHANGED vars
      <4>1. /\ UNCHANGED <<ctx, main, next, walkCh, walkErr, filter, item, converter, path>>
            /\ UNCHANGED <<relPathCh, backlog, wanted, lost>>
        BY <3>2 DEF vars, walker, filtering, converting, chosen
      <4>2. UNCHANGED <<Stored, Sent, Carried, Passed, Met>> BY <4>1, PlacesStay
      <4>3. Flow /\ Complete BY DEF IInv
      <4>4. Flow' BY <4>1, <4>2, <4>3 DEF Flow, Before
      <4>5. Complete' BY <4>1, <4>2, <4>3 DEF Complete, NoGap, AllMet
      <4> QED BY <4>4, <4>5
    <3> QED BY <3>1, <3>2
  <2> QED BY <2>1, <2>2 DEF IInv
<1> QED BY <1>1, InitInvariant, PTL DEF Spec

\* Every variable stays in its type; in particular no channel outgrows its buffer.
THEOREM TypeCorrect == Spec => []TypeOK
<1>1. IInv => TypeOK BY DEF IInv
<1> QED BY <1>1, InvariantHolds, PTL

\* A scan that is not cancelled and returns nil has written all that needs
\* processing, in order (workflow.go:83-100, local.go:103-159).
THEOREM BacklogCompleteAlways == Spec => []BacklogComplete
<1>1. IInv => BacklogComplete
  <2> SUFFICES ASSUME IInv, main = "ok", ctx = "live"
               PROVE  /\ Entries(backlog) = wanted \ lost /\ InOrder(backlog)
                      /\ next = Len(Tree) + 1 /\ walkErr = "closed"
    BY DEF BacklogComplete
  <2>1. Flow /\ EndInOrder /\ Complete BY DEF IInv
  <2>2. walkErr = "closed" BY <2>1 DEF EndInOrder
  <2>3. next = Len(Tree) + 1 BY <2>1, <2>2 DEF EndInOrder
  <2>4. Stored \subseteq wanted \ lost BY <2>1 DEF Flow
  <2>5. wanted \ lost \subseteq Stored BY <2>1, <2>2 DEF Complete
  <2> QED BY <2>1, <2>2, <2>3, <2>4, <2>5 DEF Flow, Stored
<1> QED BY <1>1, InvariantHolds, PTL

\* Cancelled or failed, an opened backlog holds the first of the files that need
\* processing, without a gap (the buffers and exits of workflow.go:47-86).
THEOREM BacklogIsPrefixAlways == Spec => []BacklogIsPrefix
<1>1. IInv => BacklogIsPrefix
  <2> SUFFICES ASSUME IInv, main \notin {"start", "opening"}, backlog # <<Stale>>
               PROVE  /\ Entries(backlog) \subseteq wanted \ lost
                      /\ InOrder(backlog) /\ NoGap(Entries(backlog))
    BY DEF BacklogIsPrefix
  <2>1. Flow /\ Complete BY DEF IInv
  <2>2. Stored \subseteq wanted \ lost BY <2>1 DEF Flow
  <2> QED BY <2>1, <2>2 DEF Flow, Complete, Stored
<1> QED BY <1>1, InvariantHolds, PTL

\* When a scan has succeeded under a live context, no look up is to come
\* (workflow.go:68-86, leveldb.go:76-95).
THEOREM SafeToCloseAlways == Spec => []SafeToClose
<1>1. IInv => SafeToClose BY DEF IInv, EndInOrder, SafeToClose
<1> QED BY <1>1, InvariantHolds, PTL

\* Under a live context no error of the walk is missed, though the last select does
\* not wait for one (workflow.go:88-97); NoErrorMissed fails only when cancelled.
THEOREM LiveErrorSeen == Spec => [](main = "ok" /\ ctx = "live" => walkErr # "error")
<1>1. IInv => (main = "ok" /\ ctx = "live" => walkErr # "error")
  BY DEF IInv, EndInOrder
<1> QED BY <1>1, InvariantHolds, PTL

-----------------------------------------------------------------------------
(* The contract of a scan *)

\* The contract calls the entries of the backlog as ScanPipeline does.
LEMMA ContractNames ==
  /\ Contract!Stored = Stored /\ Contract!Left = wanted \ (lost \union Stored)
  /\ Contract!Stored' = Stored' /\ Contract!Left' = wanted' \ (lost' \union Stored')
BY DEF Contract!Stored, Contract!Left, Stored, Entries

\* It starts as a call that has opened nothing.
LEMMA ContractInit == Init => Contract!Init
<1> SUFFICES ASSUME Init PROVE Contract!Init
  OBVIOUS
<1>1. Phase = "called" BY DEF Init, Phase
<1>2. wanted \subseteq Nat \ {Stale}
  BY TreeAssumption DEF Init, Selected, Stale
<1> QED BY <1>1, <1>2 DEF Init, Contract!Init

\* What is written is the first of the files still to be stored: nothing overtakes it on
\* the way from the walker.
LEMMA WriteNext ==
  ASSUME IInv, WriteEntry
  PROVE  /\ Head(relPathCh) \in wanted \ (lost \union Stored)
         /\ \A other \in wanted \ (lost \union Stored) : Head(relPathCh) <= other
<1> DEFINE head == Head(relPathCh)
           rest == Entries(Tail(relPathCh))
<1>1. /\ TypeOK /\ Flow /\ Complete
      /\ main = "writing" /\ relPathCh # <<>>
  BY DEF IInv, WriteEntry
<1>2. wanted \subseteq Nat BY <1>1, Numbers
<1>3. relPathCh \in Seq(Nat) BY <1>1, Numbers
<1>4. Sent = {head} \union rest /\ Before({head}, rest)
  BY <1>1, <1>3, TailFacts DEF Flow, Sent
<1>5. head \in wanted \ lost BY <1>1, <1>4 DEF Flow
<1>6. head \notin Stored
  <2>1. head \in Nat BY <1>2, <1>5
  <2>2. head \in Stored => head < head BY <1>1, <1>4 DEF Flow, Before
  <2> QED BY <2>1, <2>2
<1>7. ASSUME NEW other \in wanted \ (lost \union Stored) PROVE head <= other
  <2>1. head \in Nat /\ other \in Nat BY <1>2, <1>5
  <2>2. CASE other \in Sent BY <1>4, <2>1, <2>2 DEF Before
  <2>3. CASE other \notin Sent
    <3>1. \A g \in Stored \union Sent : g < other BY <1>1, <2>3 DEF Complete, NoGap
    <3> QED BY <1>4, <2>1, <3>1
  <2> QED BY <2>2, <2>3
<1> QED BY <1>5, <1>6, <1>7

\* Every step is one of the contract's, or none of its business.
LEMMA ContractStep ==
  ASSUME IInv, [Next]_vars
  PROVE  [Contract!Next]_Contract!vars
<1> USE DEF walker, filtering, converting, chosen
<1>1. TypeOK /\ Flow /\ EndInOrder /\ Complete BY DEF IInv
<1>2. ASSUME UNCHANGED <<ctx, main, backlog, wanted, lost>> PROVE UNCHANGED Contract!vars
  BY <1>2 DEF Contract!vars, Phase
<1>3. ASSUME main # "ok" \/ ctx = "done", UNCHANGED <<ctx, main, backlog, wanted>>,
             lost \subseteq lost', lost' \subseteq lost \union (wanted \ Stored)
      PROVE  Contract!Next
  <2>1. Phase # "ok" \/ ctx = "done" BY <1>1, <1>3 DEF Phase, TypeOK
  <2>2. lost' \subseteq lost \union Contract!Left BY <1>3, ContractNames
  <2> QED BY <1>3, <2>1, <2>2 DEF Contract!Next, Contract!LeaveOut, Phase
<1>4. ASSUME main = "writing", CloseBacklog, main' \in {"check", "failed"},
             UNCHANGED <<ctx, wanted>>
      PROVE  Contract!Next
  <2>1. Phase = "writing" /\ Phase' \in {"closed", "failed"} BY <1>4 DEF Phase
  <2> QED BY <1>4, <2>1 DEF Contract!Next, Contract!Close, CloseBacklog
<1>5. ASSUME Walker PROVE [Contract!Next]_Contract!vars
  <2>1. CASE WalkEntry /\ lost' # lost
    <3>1. /\ walk = "entry" /\ UNCHANGED <<ctx, main, backlog, wanted>>
          /\ lost' = lost \union (wanted \intersect next..(next' - 1))
      BY <2>1 DEF WalkEntry
    <3>2. main # "ok" \/ ctx = "done" BY <1>1, <3>1 DEF EndInOrder, TypeOK
    <3>3. ASSUME NEW f \in next..(next' - 1), f \in Stored PROVE FALSE
      <4>1. f < next BY <1>1, <3>3 DEF Flow, Before
      <4> QED BY <1>1, <3>3, <4>1, TreeAssumption DEF TypeOK
    <3> QED BY <1>3, <3>1, <3>2, <3>3
  <2>2. CASE WalkEntry /\ lost' = lost BY <1>2, <2>2 DEF WalkEntry
  <2>3. CASE WalkSend BY <1>2, <2>3 DEF WalkSend
  <2>4. CASE WalkFails BY <1>2, <2>4 DEF WalkFails
  <2>5. CASE WalkEnds BY <1>2, <2>5 DEF WalkEnds
  <2>6. CASE CloseWalk BY <1>2, <2>6 DEF CloseWalk
  <2> QED BY <1>5, <2>1, <2>2, <2>3, <2>4, <2>5, <2>6 DEF Walker
<1>6. CASE FilterRecv
  <2> DEFINE file == Head(walkCh)
  <2>1. filter = "recv" /\ walkCh # <<>> /\ UNCHANGED <<ctx, main, backlog, wanted>>
    BY <1>6 DEF FilterRecv
  <2>2. lost' = lost \/ (file \in wanted /\ lost' = lost \union {file})
    BY <1>6 DEF FilterRecv
  <2>3. main # "ok" \/ ctx = "done" BY <1>1, <2>1 DEF EndInOrder, TypeOK
  <2>4. file \notin Stored
    <3>1. File \subseteq Nat BY TreeAssumption DEF File
    <3>2. walkCh \in Seq(Nat) BY <1>1, <3>1, SeqSubset DEF TypeOK
    <3>3. file \in Met BY <2>1, <3>2, TailFacts DEF Met
    <3>4. file \in Nat BY <3>2, <3>3, EntriesType DEF Met
    <3> QED BY <1>1, <3>3, <3>4 DEF Flow, Before
  <2>5. CASE lost' = lost BY <1>2, <2>1, <2>5
  <2>6. CASE file \in wanted /\ lost' = lost \union {file}
    BY <1>3, <2>1, <2>3, <2>4, <2>6
  <2> QED BY <2>2, <2>5, <2>6
<1>7. CASE FilterEnds BY <1>2, <1>7 DEF FilterEnds
<1>8. CASE HandOver BY <1>2, <1>8 DEF HandOver
<1>9. CASE ConvertSend BY <1>2, <1>9 DEF ConvertSend
<1>10. CASE ConvertEnds BY <1>2, <1>10 DEF ConvertEnds
<1>11. CASE StartFilter
  <2>1. Phase = "called" /\ Phase' = "called" BY <1>11 DEF StartFilter, Phase
  <2> QED BY <1>11, <2>1 DEF StartFilter, Contract!vars
<1>12. CASE OpenBacklog
  <2>1. Phase = "called" /\ Phase' = "writing" BY <1>12 DEF OpenBacklog, Phase
  <2> QED BY <1>12, <2>1 DEF OpenBacklog, Contract!Next, Contract!Open
<1>13. CASE WriteEntry
  <2>1. Phase = "writing" /\ Phase' = Phase BY <1>13 DEF WriteEntry, Phase
  <2>2. /\ Head(relPathCh) \in Contract!Left
        /\ \A other \in Contract!Left : Head(relPathCh) <= other
    BY <1>13, WriteNext, ContractNames
  <2>3. /\ backlog' = Append(backlog, Head(relPathCh))
        /\ UNCHANGED <<ctx, wanted, lost>>
    BY <1>13 DEF WriteEntry
  <2>4. Contract!Store BY <2>1, <2>2, <2>3 DEF Contract!Store
  <2> QED BY <2>4 DEF Contract!Next
<1>14. CASE WriteFails BY <1>4, <1>14 DEF WriteFails
<1>15. CASE WriteEnds BY <1>4, <1>15 DEF WriteEnds
<1>16. CASE WriteCancelled BY <1>4, <1>16 DEF WriteCancelled
<1>17. CASE ScanFails
  <2>1. Phase = "called" /\ Phase' = "failed" BY <1>17 DEF ScanFails, Phase
  <2> QED BY <1>17, <2>1 DEF ScanFails, Contract!Next, Contract!Return
<1>18. CASE CheckWalk
  <2>1. /\ Phase = "closed" /\ UNCHANGED <<ctx, backlog, wanted, lost>>
        /\ main' = "failed" \/ (main' = "ok" /\ walkErr # "error")
    BY <1>18 DEF CheckWalk, Phase
  <2>2. CASE main' = "failed"
    BY <2>1, <2>2 DEF Phase, Contract!Next, Contract!Return
  <2>3. CASE main' = "ok" /\ walkErr # "error"
    <3>1. ctx = "live" => walkErr = "closed" BY <1>1, <1>18, <2>3 DEF EndInOrder, CheckWalk
    <3>2. ctx = "live" => wanted \ lost \subseteq Stored
      BY <1>1, <1>18, <3>1 DEF Complete, CheckWalk
    <3>3. ctx = "done" \/ Contract!Left = {} BY <1>1, <3>2, ContractNames DEF TypeOK
    <3>4. Phase' = "ok" BY <2>3 DEF Phase
    <3> QED BY <2>1, <3>3, <3>4 DEF Contract!Next, Contract!Return
  <2> QED BY <2>1, <2>2, <2>3
<1>19. CASE Cancel
  BY <1>19 DEF Cancel, Phase, Contract!Next, Contract!Cancel
<1>20. CASE UNCHANGED vars BY <1>2, <1>20 DEF vars
<1> QED
  BY <1>5, <1>6, <1>7, <1>8, <1>9, <1>10, <1>11, <1>12, <1>13, <1>14, <1>15, <1>16, <1>17, <1>18, <1>19, <1>20
  DEF Next, Filter, Converter, Main

\* Four goroutines and three channels do to the backlog what one loop would: the next
\* file that needs processing, one after the other, none once it is closed, and all of
\* them when the call succeeds uncancelled (workflow.go:39-101).
THEOREM ContractKept == Spec => KeepsContract
BY ContractInit, ContractStep, InvariantHolds, PTL
   DEF Spec, KeepsContract, Contract!Spec
=============================================================================
