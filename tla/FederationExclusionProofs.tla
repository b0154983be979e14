---------------------- MODULE FederationExclusionProofs ----------------------
(***************************************************************************)
(* One active node per group, as long as nothing fails: theorems about the *)
(* federation that rest on those of FederationProofs.                      *)
(***************************************************************************)
EXTENDS FederationProofs

-----------------------------------------------------------------------------
(* All chain nodes follow one chain                                        *)

\* Block b gives the leadership of group g.
Takes(b, g) == b.taken /\ GroupOf[b.sender] = g

\* What n's chain node shows as the leader of g once it has d more blocks.
Sees(n, g, d, l) ==
  \/ l = view[n].leader[g] /\ \A i \in 1..d : ~Takes(backlog[n][i], g)
  \/ \E i \in 1..d :
       /\ Takes(backlog[n][i], g)
       /\ l = backlog[n][i].sender
       /\ \A j \in (i + 1)..d : ~Takes(backlog[n][j], g)

\* By how many blocks m's chain node is ahead of n's.
Lead(n, m) == Len(backlog[n]) - Len(backlog[m])

\* Who is behind has yet to import what the other one has, and the blocks
\* between them lead from what the one stores to what the other does.
SameChain(n, m) ==
  Len(backlog[m]) <= Len(backlog[n]) =>
    /\ \A i \in 1..Len(backlog[m]) : backlog[m][i] = backlog[n][i + Lead(n, m)]
    /\ \A g \in Group : Sees(n, g, Lead(n, m), view[m].leader[g])

ChainInv == \A n, m \in Operator : SameChain(n, m)

\* One more block on n's way.
LEMMA SeesMore ==
  ASSUME NEW n, NEW g, NEW d \in Nat, NEW l, Sees(n, g, d, l)
  PROVE  Sees(n, g, d + 1, IF Takes(backlog[n][d + 1], g) THEN backlog[n][d + 1].sender ELSE l)
<1>1. 1..(d + 1) = (1..d) \cup {d + 1} /\ (d + 2)..(d + 1) = {}
  OBVIOUS
<1>2. CASE Takes(backlog[n][d + 1], g)
  <2>1. d + 1 \in 1..(d + 1) /\ \A j \in (d + 1 + 1)..(d + 1) : ~Takes(backlog[n][j], g)
    BY <1>1
  <2> QED
    BY <1>2, <2>1 DEF Sees
<1>3. CASE ~Takes(backlog[n][d + 1], g)
  <2>1. CASE l = view[n].leader[g] /\ \A i \in 1..d : ~Takes(backlog[n][i], g)
    BY <1>1, <1>3, <2>1 DEF Sees
  <2>2. ASSUME NEW i \in 1..d, Takes(backlog[n][i], g), l = backlog[n][i].sender,
               \A j \in (i + 1)..d : ~Takes(backlog[n][j], g)
        PROVE  Sees(n, g, d + 1, l)
    <3>1. (i + 1)..(d + 1) = ((i + 1)..d) \cup {d + 1} /\ i \in 1..(d + 1)
      OBVIOUS
    <3>2. \A j \in (i + 1)..(d + 1) : ~Takes(backlog[n][j], g)
      BY <1>3, <2>2, <3>1
    <3> QED
      BY <2>2, <3>1, <3>2 DEF Sees
  <2> QED
    BY <1>3, <2>1, <2>2 DEF Sees
<1> QED
  BY <1>2, <1>3

\* One block less, once n has imported it.
LEMMA SeesImported ==
  ASSUME Typed, NEW n \in Operator, Import(n), NEW g \in Group, NEW l,
         NEW d \in 1..Len(backlog[n]), Sees(n, g, d, l)
  PROVE  Sees(n, g, d - 1, l)'
<1>1. /\ Len(backlog[n]) \in Nat
      /\ Len(backlog'[n]) = Len(backlog[n]) - 1
      /\ \A i \in 1..Len(backlog'[n]) : backlog'[n][i] = backlog[n][i + 1]
      /\ view'[n].leader[g] = IF Takes(backlog[n][1], g) THEN backlog[n][1].sender
                                                         ELSE view[n].leader[g]
  BY ImportEffect, ImportLeader DEF Takes
<1>2. d \in Nat /\ d <= Len(backlog[n]) /\ 1 \in 1..d
  BY <1>1
<1>3. \A i \in 1..(d - 1) : i \in 1..Len(backlog'[n]) /\ i + 1 \in 1..d
  BY <1>1, <1>2
<1>4. \A i \in 1..(d - 1) : backlog'[n][i] = backlog[n][i + 1]
  BY <1>1, <1>3
<1>5. CASE l = view[n].leader[g] /\ \A i \in 1..d : ~Takes(backlog[n][i], g)
  <2>1. l = view'[n].leader[g]
    BY <1>1, <1>2, <1>5
  <2>2. \A i \in 1..(d - 1) : ~Takes(backlog'[n][i], g)
    BY <1>3, <1>4, <1>5
  <2> QED
    BY <2>1, <2>2 DEF Sees, Takes
<1>6. ASSUME NEW i \in 1..d, Takes(backlog[n][i], g), l = backlog[n][i].sender,
             \A j \in (i + 1)..d : ~Takes(backlog[n][j], g)
      PROVE  Sees(n, g, d - 1, l)'
  <2>1. \A j \in i..(d - 1) : j \in 1..(d - 1) /\ j + 1 \in (i + 1)..d
    BY <1>2
  <2>2. \A j \in i..(d - 1) : ~Takes(backlog'[n][j], g)
    BY <1>4, <1>6, <2>1
  <2>3. CASE i = 1
    <3>1. l = view'[n].leader[g]
      BY <1>1, <1>6, <2>3
    <3> QED
      BY <2>2, <2>3, <3>1 DEF Sees, Takes
  <2>4. CASE i # 1
    <3>1. PICK k \in 1..(d - 1) : i = k + 1
      <4>1. i - 1 \in 1..(d - 1) /\ i = (i - 1) + 1
        BY <1>2, <2>4
      <4> QED
        BY <4>1
    <3>2. Takes(backlog'[n][k], g) /\ l = backlog'[n][k].sender
      BY <1>4, <1>6, <3>1
    <3> QED
      BY <2>2, <3>1, <3>2 DEF Sees, Takes
  <2> QED
    BY <2>3, <2>4
<1> QED
  BY <1>5, <1>6 DEF Sees

LEMMA ChainInit == Init => ChainInv
<1> SUFFICES ASSUME Init, NEW n \in Operator, NEW m \in Operator PROVE SameChain(n, m)
  BY DEF ChainInv
<1>1. <<>> \in Seq(Blocks) /\ Len(<<>>) = 0
  BY EmptySeq
<1>2. Len(backlog[n]) = 0 /\ Len(backlog[m]) = 0
  BY <1>1 DEF Init
<1>3. Lead(n, m) = 0
  BY <1>2 DEF Lead
<1>4. \A g \in Group : view[m].leader[g] = view[n].leader[g]
  BY DEF Init
<1>5. \A g \in Group : Sees(n, g, 0, view[m].leader[g])
  BY <1>4 DEF Sees
<1> QED
  BY <1>2, <1>3, <1>5 DEF SameChain

\* A new block is the last one for every chain node.
LEMMA ChainProduce ==
  ASSUME Typed, ChainInv, NEW b \in Blocks, Produces(b), NEW n \in Operator, NEW m \in Operator
  PROVE  SameChain(n, m)'
<1>1. \A k \in Operator :
        /\ Len(backlog[k]) \in Nat
        /\ Len(backlog'[k]) = Len(backlog[k]) + 1
        /\ \A i \in 1..Len(backlog[k]) : backlog'[k][i] = backlog[k][i]
        /\ backlog'[k][Len(backlog[k]) + 1] = b
  BY PublishEffect DEF Produces
<1>2. view' = view
  BY DEF Produces
<1> SUFFICES ASSUME Len(backlog'[m]) <= Len(backlog'[n])
             PROVE  /\ \A i \in 1..Len(backlog'[m]) : backlog'[m][i] = backlog'[n][i + Lead(n, m)']
                    /\ \A g \in Group : Sees(n, g, Lead(n, m), view[m].leader[g])'
  BY DEF SameChain
<1>3. PICK d \in Nat : d = Lead(n, m) /\ d = Lead(n, m)' /\ Len(backlog[n]) = Len(backlog[m]) + d
  <2>1. Len(backlog[m]) <= Len(backlog[n])
    BY <1>1
  <2>2. /\ Len(backlog[n]) \in Nat /\ Len(backlog'[n]) = Len(backlog[n]) + 1
        /\ Len(backlog[m]) \in Nat /\ Len(backlog'[m]) = Len(backlog[m]) + 1
    BY <1>1
  <2>3. /\ Lead(n, m) \in Nat /\ Lead(n, m)' = Lead(n, m)
        /\ Len(backlog[n]) = Len(backlog[m]) + Lead(n, m)
    BY <2>1, <2>2 DEF Lead
  <2> QED
    BY <2>3
<1>4. /\ \A i \in 1..Len(backlog[m]) : backlog[m][i] = backlog[n][i + d]
      /\ \A g \in Group : Sees(n, g, d, view[m].leader[g])
  <2>1. SameChain(n, m) /\ Len(backlog[m]) <= Len(backlog[n])
    BY <1>1 DEF ChainInv
  <2> QED
    BY <1>3, <2>1 DEF SameChain
<1>5. ASSUME NEW i \in 1..Len(backlog'[m])
      PROVE  backlog'[m][i] = backlog'[n][i + d]
  <2>1. CASE i \in 1..Len(backlog[m])
    <3>1. i + d \in 1..Len(backlog[n])
      BY <1>1, <1>3, <2>1
    <3> QED
      BY <1>1, <1>4, <2>1, <3>1
  <2>2. CASE i = Len(backlog[m]) + 1
    <3>1. i + d = Len(backlog[n]) + 1
      BY <1>1, <1>3, <2>2
    <3> QED
      BY <1>1, <2>2, <3>1
  <2> QED
    BY <1>1, <2>1, <2>2
<1>6. ASSUME NEW g \in Group
      PROVE  Sees(n, g, Lead(n, m), view[m].leader[g])'
  <2>1. 1..d \subseteq 1..Len(backlog[n])
    BY <1>1, <1>3
  <2>2. \A i \in 1..d : backlog'[n][i] = backlog[n][i]
    BY <1>1, <2>1
  <2>3. Sees(n, g, d, view[m].leader[g])
    BY <1>4
  <2>4. \A i \in 1..d : Takes(backlog'[n][i], g) <=> Takes(backlog[n][i], g)
    BY <2>2
  <2>5. PICK l : l = view[m].leader[g]
    OBVIOUS
  <2>6. Sees(n, g, d, l)'
    <3>1. CASE l = view[n].leader[g] /\ \A i \in 1..d : ~Takes(backlog[n][i], g)
      BY <1>2, <2>2, <3>1 DEF Sees, Takes
    <3>2. ASSUME NEW i \in 1..d, Takes(backlog[n][i], g), l = backlog[n][i].sender,
                 \A j \in (i + 1)..d : ~Takes(backlog[n][j], g)
          PROVE  Sees(n, g, d, l)'
      <4>1. \A j \in (i + 1)..d : j \in 1..d
        OBVIOUS
      <4>2. /\ Takes(backlog'[n][i], g) /\ l = backlog'[n][i].sender
            /\ \A j \in (i + 1)..d : ~Takes(backlog'[n][j], g)
        BY <2>2, <2>4, <3>2, <4>1
      <4> QED
        BY <4>2 DEF Sees, Takes
    <3> QED
      BY <2>3, <2>5, <3>1, <3>2 DEF Sees
  <2> QED
    BY <1>2, <1>3, <2>5, <2>6 DEF Sees
<1> QED
  BY <1>3, <1>5, <1>6

\* A block imported by the one that is behind, or by the one that is ahead.
LEMMA ChainImportBehind ==
  ASSUME Typed, ChainInv, NEW n \in Operator, Import(n), NEW m \in Operator \ {n},
         Len(backlog[m]) < Len(backlog[n])
  PROVE  SameChain(n, m)'
<1>1. /\ Len(backlog[n]) \in Nat \ {0} /\ Len(backlog[m]) \in Nat
      /\ Len(backlog'[n]) = Len(backlog[n]) - 1
      /\ \A i \in 1..Len(backlog'[n]) : backlog'[n][i] = backlog[n][i + 1]
      /\ backlog'[m] = backlog[m] /\ view'[m] = view[m]
  BY ImportEffect, ImportLeader, BestTyped
<1>2. PICK d \in 1..Len(backlog[n]) : d = Lead(n, m) /\ Lead(n, m)' = d - 1
                                      /\ Len(backlog[n]) = Len(backlog[m]) + d
  <2>1. /\ Len(backlog[n]) \in Nat /\ Len(backlog[m]) \in Nat
        /\ Len(backlog'[n]) = Len(backlog[n]) - 1 /\ Len(backlog'[m]) = Len(backlog[m])
    BY <1>1
  <2>2. Lead(n, m) \in 1..Len(backlog[n])
    <3>1. \A a, b \in Nat : b < a => a - b \in 1..a
      OBVIOUS
    <3> QED
      BY <2>1, <3>1 DEF Lead
  <2>3. Lead(n, m)' = Lead(n, m) - 1
    BY <2>1 DEF Lead
  <2>4. Len(backlog[n]) = Len(backlog[m]) + Lead(n, m)
    BY <2>1 DEF Lead
  <2> QED
    BY <2>2, <2>3, <2>4
<1>3. /\ \A i \in 1..Len(backlog[m]) : backlog[m][i] = backlog[n][i + d]
      /\ \A g \in Group : Sees(n, g, d, view[m].leader[g])
  <2>1. SameChain(n, m) /\ Len(backlog[m]) <= Len(backlog[n])
    BY <1>1 DEF ChainInv
  <2> QED
    BY <1>2, <2>1 DEF SameChain
<1>4. ASSUME NEW i \in 1..Len(backlog'[m])
      PROVE  backlog'[m][i] = backlog'[n][i + (d - 1)]
  <2>1. i + (d - 1) \in 1..Len(backlog'[n]) /\ (i + (d - 1)) + 1 = i + d
    BY <1>1, <1>2
  <2> QED
    BY <1>1, <1>3, <2>1
<1>5. ASSUME NEW g \in Group
      PROVE  Sees(n, g, Lead(n, m), view[m].leader[g])'
  <2>1. PICK l : l = view[m].leader[g]
    OBVIOUS
  <2>2. Sees(n, g, d - 1, l)'
    BY <1>3, <2>1, SeesImported
  <2> QED
    BY <1>1, <1>2, <2>1, <2>2 DEF Sees
<1> QED
  BY <1>2, <1>4, <1>5 DEF SameChain

LEMMA ChainImportAhead ==
  ASSUME Typed, ChainInv, NEW m \in Operator, Import(m), NEW n \in Operator \ {m},
         Len(backlog[m]) <= Len(backlog[n])
  PROVE  SameChain(n, m)'
<1>1. /\ Len(backlog[n]) \in Nat /\ Len(backlog[m]) \in Nat \ {0}
      /\ Len(backlog'[m]) = Len(backlog[m]) - 1
      /\ \A i \in 1..Len(backlog'[m]) : backlog'[m][i] = backlog[m][i + 1]
      /\ backlog'[n] = backlog[n] /\ view'[n] = view[n]
      /\ \A g \in Group :
           view'[m].leader[g] = IF Takes(backlog[m][1], g) THEN backlog[m][1].sender
                                                           ELSE view[m].leader[g]
  BY ImportEffect, ImportLeader, BestTyped DEF Takes
<1>2. PICK d \in Nat : d = Lead(n, m) /\ Lead(n, m)' = d + 1
                       /\ Len(backlog[n]) = Len(backlog[m]) + d
  <2>1. /\ Lead(n, m) \in Nat /\ Lead(n, m)' = Lead(n, m) + 1
        /\ Len(backlog[n]) = Len(backlog[m]) + Lead(n, m)
    BY <1>1 DEF Lead
  <2> QED
    BY <2>1
<1>3. /\ \A i \in 1..Len(backlog[m]) : backlog[m][i] = backlog[n][i + d]
      /\ \A g \in Group : Sees(n, g, d, view[m].leader[g])
  BY <1>2 DEF ChainInv, SameChain
<1>4. ASSUME NEW i \in 1..Len(backlog'[m])
      PROVE  backlog'[m][i] = backlog'[n][i + (d + 1)]
  <2>1. i \in Nat /\ i + 1 \in 1..Len(backlog[m])
    BY <1>1
  <2>2. (i + 1) + d = i + (d + 1)
    BY <2>1
  <2>3. backlog'[m][i] = backlog[m][i + 1] /\ backlog[m][i + 1] = backlog[n][(i + 1) + d]
    BY <1>1, <1>3, <2>1
  <2> QED
    BY <1>1, <2>2, <2>3
<1>5. ASSUME NEW g \in Group
      PROVE  Sees(n, g, Lead(n, m), view[m].leader[g])'
  <2>1. 1 \in 1..Len(backlog[m])
    BY <1>1
  <2>2. backlog[m][1] = backlog[n][d + 1]
    BY <1>3, <2>1
  <2>3. PICK l : l = view'[m].leader[g]
    OBVIOUS
  <2>4. Sees(n, g, d + 1, l)
    BY <1>1, <1>3, <2>2, <2>3, SeesMore
  <2> QED
    BY <1>1, <1>2, <2>3, <2>4 DEF Sees
<1> QED
  BY <1>2, <1>4, <1>5 DEF SameChain

\* Of two chain nodes that are level, each is the one that is ahead.
LEMMA ChainEven ==
  ASSUME NEW n \in Operator, NEW m \in Operator,
         Len(backlog'[n]) = Len(backlog'[m]), Len(backlog'[m]) \in Nat, SameChain(m, n)'
  PROVE  SameChain(n, m)'
<1>1. Lead(n, m)' = 0 /\ Lead(m, n)' = 0
  BY DEF Lead
<1>2. /\ \A i \in 1..Len(backlog'[n]) : backlog'[n][i] = backlog'[m][i + 0]
      /\ \A g \in Group : Sees(m, g, 0, view[n].leader[g])'
  BY <1>1 DEF SameChain, Sees
<1>3. \A i \in 1..Len(backlog'[m]) : i + 0 = i
  OBVIOUS
<1>4. \A i \in 1..Len(backlog'[m]) : backlog'[m][i] = backlog'[n][i + 0]
  BY <1>2, <1>3
<1>5. \A g \in Group : view'[n].leader[g] = view'[m].leader[g]
  BY <1>2 DEF Sees
<1>6. \A g \in Group : Sees(n, g, 0, view[m].leader[g])'
  BY <1>5 DEF Sees
<1> QED
  BY <1>1, <1>4, <1>6 DEF SameChain, Sees

\* Chain nodes that import nothing stay as far apart as they are.
LEMMA ChainIdle ==
  ASSUME NEW n \in Operator, NEW m \in Operator, SameChain(n, m),
         backlog'[n] = backlog[n], backlog'[m] = backlog[m],
         view'[n] = view[n], view'[m] = view[m]
  PROVE  SameChain(n, m)'
<1>1. ASSUME NEW g \in Group, NEW d, NEW l, Sees(n, g, d, l)
      PROVE  Sees(n, g, d, l)'
  BY <1>1 DEF Sees, Takes
<1>2. SUFFICES ASSUME Len(backlog[m]) <= Len(backlog[n])
               PROVE  /\ \A i \in 1..Len(backlog[m]) : backlog[m][i] = backlog[n][i + Lead(n, m)']
                      /\ \A g \in Group : Sees(n, g, Lead(n, m), view[m].leader[g])'
  BY DEF SameChain
<1>3. PICK d : d = Lead(n, m) /\ d = Lead(n, m)'
  BY DEF Lead
<1>4. /\ \A i \in 1..Len(backlog[m]) : backlog[m][i] = backlog[n][i + d]
      /\ \A g \in Group : Sees(n, g, d, view[m].leader[g])
  BY <1>2, <1>3 DEF SameChain
<1>5. ASSUME NEW g \in Group
      PROVE  Sees(n, g, Lead(n, m), view[m].leader[g])'
  <2>1. PICK l : l = view[m].leader[g] /\ l = view'[m].leader[g]
    OBVIOUS
  <2>2. Sees(n, g, d, l)'
    BY <1>1, <1>4, <2>1
  <2> QED
    BY <1>3, <2>1, <2>2 DEF Sees
<1> QED
  BY <1>3, <1>4, <1>5

LEMMA ChainStep == Typed /\ ChainInv /\ [Next]_vars => ChainInv'
<1> SUFFICES ASSUME Typed, ChainInv, [Next]_vars, NEW n \in Operator, NEW m \in Operator
             PROVE  SameChain(n, m)'
  BY DEF ChainInv
<1>1. TypeOK
  BY DEF Typed
<1>2. ASSUME UNCHANGED <<view, backlog>>
      PROVE  SameChain(n, m)'
  BY <1>2, ChainIdle DEF ChainInv
<1>3. CASE UNCHANGED vars
  BY <1>2, <1>3 DEF vars, nodeVars
<1>4. ASSUME NEW k \in Operator, Import(k)
      PROVE  SameChain(n, m)'
  <2>1. \A p \in Operator : Len(backlog[p]) \in Nat
    BY BestTyped
  <2>2. /\ Len(backlog'[k]) = Len(backlog[k]) - 1
        /\ \A p \in Operator \ {k} : backlog'[p] = backlog[p] /\ view'[p] = view[p]
    BY <1>4, ImportEffect, ImportLeader
  <2>3. CASE n = m
    <3>1. Len(backlog'[n]) \in Nat
      BY <2>1, <2>2, <1>4, ImportEffect
    <3>2. Lead(n, m)' = 0 /\ \A i \in 1..Len(backlog'[m]) : i + 0 = i
      BY <2>3, <3>1 DEF Lead
    <3>3. \A g \in Group : Sees(n, g, 0, view[m].leader[g])'
      BY <2>3 DEF Sees
    <3> QED
      BY <2>3, <3>2, <3>3 DEF SameChain, Sees
  <2>4. CASE n # m /\ k = n
    <3>1. CASE Len(backlog[m]) < Len(backlog[n])
      BY <1>4, <2>4, <3>1, ChainImportBehind
    <3>2. CASE ~(Len(backlog[m]) < Len(backlog[n]))
      <4>1. ~(Len(backlog'[m]) <= Len(backlog'[n]))
        BY <2>1, <2>2, <2>4, <3>2
      <4> QED
        BY <4>1 DEF SameChain
    <3> QED
      BY <3>1, <3>2
  <2>5. CASE n # m /\ k = m
    <3>1. CASE Len(backlog[m]) <= Len(backlog[n])
      BY <1>4, <2>5, <3>1, ChainImportAhead
    <3>2. CASE ~(Len(backlog[m]) <= Len(backlog[n]))
      <4>1. CASE Len(backlog'[m]) <= Len(backlog'[n])
        <5>1. Len(backlog[n]) < Len(backlog[m]) /\ Len(backlog'[n]) = Len(backlog'[m])
              /\ Len(backlog'[m]) \in Nat
          BY <2>1, <2>2, <2>5, <3>2, <4>1
        <5>2. SameChain(m, n)'
          BY <1>4, <2>5, <5>1, ChainImportBehind
        <5> QED
          BY <5>1, <5>2, ChainEven
      <4>2. CASE ~(Len(backlog'[m]) <= Len(backlog'[n]))
        BY <4>2 DEF SameChain
      <4> QED
        BY <4>1, <4>2
    <3> QED
      BY <3>1, <3>2
  <2>6. CASE n # m /\ k # n /\ k # m
    BY <2>2, <2>6, ChainIdle DEF ChainInv
  <2> QED
    BY <2>3, <2>4, <2>5, <2>6
<1>5. ASSUME NEW k \in Operator, Cycle(k) \/ Process(k)
      PROVE  SameChain(n, m)'
  <2>1. UNCHANGED <<view, backlog>>
    BY <1>5, CycleFrame DEF Process, Crash, Restart, FillHeartbeat, Listen, nodeVars
  <2> QED
    BY <1>2, <2>1
<1> QED
  BY <1>1, <1>3, <1>4, <1>5, StepCases, ChainProduce

LEMMA ChainAlways == Spec => []ChainInv
<1> QED
  BY TypedAlways, ChainInit, ChainStep, PTL DEF Spec
-----------------------------------------------------------------------------
(* A group that was led stays led                                          *)

\* Nobody gives a leadership up in a federation: a register that a chain node
\* shows taken, or will once it has imported what there is, is taken.
StaysLed ==
  \A n \in Operator :
    /\ \A g \in Group : view[n].leader[g] # NoLeader => leader[g] # NoLeader
    /\ \A i \in 1..Len(backlog[n]) :
         backlog[n][i].taken =>
           backlog[n][i].sender \in Node /\ leader[GroupOf[backlog[n][i].sender]] # NoLeader

LEMMA LedInit == Init => StaysLed
<1> SUFFICES ASSUME Init PROVE StaysLed
  OBVIOUS
<1>1. <<>> \in Seq(Blocks) /\ Len(<<>>) = 0
  BY EmptySeq
<1>2. \A n \in Operator : Len(backlog[n]) = 0 /\ view[n].leader = leader
  BY <1>1 DEF Init
<1>3. 1..0 = {}
  OBVIOUS
<1>4. \A n \in Operator : 1..Len(backlog[n]) = {}
  BY <1>2, <1>3, Zenon
<1> QED
  BY <1>2, <1>4 DEF StaysLed

LEMMA LedStep == Typed /\ StaysLed /\ [Next]_vars => StaysLed'
<1> SUFFICES ASSUME Typed, StaysLed, [Next]_vars PROVE StaysLed'
  OBVIOUS
<1>1. TypeOK
  BY DEF Typed
<1>2. CASE UNCHANGED <<view, backlog, leader>>
  BY <1>2 DEF StaysLed
<1>3. CASE UNCHANGED vars
  BY <1>2, <1>3 DEF vars, nodeVars, chainVars
<1>4. ASSUME NEW b \in Blocks, Produces(b)
      PROVE  StaysLed'
  <2>1. b.taken => b.sender \in Node
    BY <1>1, <1>4 DEF Produces, TypeOK, Node
  <2>2. leader \in [Group -> Node \cup {NoLeader}] /\ view' = view
    BY <1>1, <1>4 DEF TypeOK, Leaders, Produces
  <2>3. b.taken => GroupOf[b.sender] \in Group /\ b.sender # NoLeader
    BY <2>1, FederationAssumption
  <2>4. leader' = IF b.taken THEN [leader EXCEPT ![GroupOf[b.sender]] = b.sender] ELSE leader
    BY <1>4 DEF Produces
  <2>5. /\ \A g \in Group : leader[g] # NoLeader => leader'[g] # NoLeader
        /\ b.taken => leader'[GroupOf[b.sender]] # NoLeader
    BY <2>2, <2>3, <2>4
  <2>6. ASSUME NEW n \in Operator, NEW i \in 1..Len(backlog'[n]), backlog'[n][i].taken
        PROVE  /\ backlog'[n][i].sender \in Node
               /\ leader'[GroupOf[backlog'[n][i].sender]] # NoLeader
    <3>1. /\ Len(backlog[n]) \in Nat
          /\ Len(backlog'[n]) = Len(backlog[n]) + 1
          /\ \A j \in 1..Len(backlog[n]) : backlog'[n][j] = backlog[n][j]
          /\ backlog'[n][Len(backlog[n]) + 1] = b
      BY <1>4, PublishEffect DEF Produces
    <3>2. CASE i \in 1..Len(backlog[n])
      <4>1. /\ backlog'[n][i] = backlog[n][i]
            /\ backlog[n][i].sender \in Node
            /\ leader[GroupOf[backlog[n][i].sender]] # NoLeader
        BY <2>6, <3>1, <3>2 DEF StaysLed
      <4> QED
        BY <2>5, <4>1, FederationAssumption
    <3>3. CASE i = Len(backlog[n]) + 1
      BY <2>1, <2>5, <2>6, <3>1, <3>3
    <3> QED
      BY <3>1, <3>2, <3>3
  <2> QED
    BY <2>2, <2>5, <2>6 DEF StaysLed
<1>5. ASSUME NEW n \in Operator, Import(n)
      PROVE  StaysLed'
  <2>1. /\ leader' = leader
        /\ Len(backlog[n]) \in Nat \ {0}
        /\ Len(backlog'[n]) = Len(backlog[n]) - 1
        /\ \A i \in 1..Len(backlog'[n]) : backlog'[n][i] = backlog[n][i + 1]
        /\ \A m \in Operator \ {n} : backlog'[m] = backlog[m] /\ view'[m] = view[m]
        /\ \A g \in Group :
             view'[n].leader[g] = IF backlog[n][1].taken /\ GroupOf[backlog[n][1].sender] = g
                                  THEN backlog[n][1].sender ELSE view[n].leader[g]
    BY <1>5, ImportEffect, ImportLeader DEF Import, chainVars
  <2>2. \A g \in Group : view'[n].leader[g] # NoLeader => leader[g] # NoLeader
    BY <2>1 DEF StaysLed
  <2>3. ASSUME NEW i \in 1..Len(backlog'[n]), backlog'[n][i].taken
        PROVE  /\ backlog'[n][i].sender \in Node
               /\ leader[GroupOf[backlog'[n][i].sender]] # NoLeader
    <3>1. i + 1 \in 1..Len(backlog[n]) /\ backlog'[n][i] = backlog[n][i + 1]
      BY <2>1
    <3> QED
      BY <2>3, <3>1 DEF StaysLed
  <2> QED
    BY <2>1, <2>2, <2>3 DEF StaysLed
<1>6. ASSUME NEW n \in Operator, Cycle(n) \/ Process(n)
      PROVE  StaysLed'
  <2>1. UNCHANGED <<view, backlog, leader>>
    BY <1>6, CycleFrame DEF Process, Crash, Restart, FillHeartbeat, Listen, nodeVars, chainVars
  <2> QED
    BY <1>2, <2>1
<1> QED
  BY <1>1, <1>3, <1>4, <1>5, <1>6, StepCases

LEMMA LedAlways == Spec => []StaysLed
<1> QED
  BY TypedAlways, LedInit, LedStep, PTL DEF Spec
-----------------------------------------------------------------------------
(* The claims of a federation in which nothing fails                       *)

NoOwnTx(n) == \A tx \in pool : tx.sender # n
NoOwnBlock(n) == \A i \in 1..Len(backlog[n]) : backlog[n][i].sender # n

\* A watched transaction is in the pool, naming the leader the cycle has read ...
Waiting(n) ==
  /\ watch[n] = "none"
  /\ NoOwnBlock(n)
  /\ \A tx \in pool : tx.sender = n => tx.reported = cur[n]

\* ... or in one block the node's chain node has yet to import ...
Included(n) ==
  /\ watch[n] = "none"
  /\ NoOwnTx(n)
  /\ \E i \in 1..Len(backlog[n]) :
       \A j \in 1..Len(backlog[n]) : backlog[n][j].sender = n <=> j = i

\* ... or its outcome is known.
Told(n) ==
  /\ watch[n] # "none"
  /\ NoOwnTx(n)
  /\ NoOwnBlock(n)

\* Nothing fails, so a cycle that ends leaves no transaction behind.
OneClaim(n) ==
  IF pc[n] = "watching"
  THEN Waiting(n) \/ Included(n) \/ Told(n)
  ELSE /\ NoOwnTx(n)
       /\ NoOwnBlock(n)
       /\ pc[n] \in {"settling", "recheck"} \/ watch[n] = "none"

\* n has taken the leadership and has yet to wait until the peers know.
Taking(n) ==
  \/ pc[n] = "settling"
  \/ pc[n] = "watching" /\ watch[n] = "taken"
  \/ pc[n] = "watching" /\ ~HeardOf(n, n)

PeersHeard(n) ==
  ~Taking(n) => \A p \in Operator \ {n} : GroupOf[p] = GroupOf[n] => HeardOf(p, n)

\* An active node never takes the leadership again: it reads itself as the
\* leader, and the chain refuses who reports itself for a group that is led.
ActiveNeverTakes(n) ==
  mode[n] = "active" =>
    /\ ~Taking(n)
    /\ pc[n] \in {"idle", "leader"} \/ cur[n] \in {n, Unreadable}

CalmInv ==
  failures = 0 =>
    \A n \in Operator : Running(n) /\ OneClaim(n) /\ PeersHeard(n) /\ ActiveNeverTakes(n)

LEMMA CalmInit == Init => CalmInv
<1> SUFFICES ASSUME Init, NEW n \in Operator
             PROVE  Running(n) /\ OneClaim(n) /\ PeersHeard(n) /\ ActiveNeverTakes(n)
  BY DEF CalmInv
<1>1. <<>> \in Seq(Blocks) /\ Len(<<>>) = 0 /\ 1..0 = {}
  BY EmptySeq
<1>2. \A p \in Operator : Len(backlog[p]) = 0
  BY <1>1 DEF Init
<1>3. \A p \in Operator : 1..Len(backlog[p]) = {}
  BY <1>1, <1>2, Zenon
<1>4. pc[n] = "idle" /\ watch[n] = "none" /\ mode[n] = "passive" /\ stage[n] = "running"
      /\ pool = {}
  BY DEF Init
<1>5. OneClaim(n)
  BY <1>3, <1>4 DEF OneClaim, NoOwnTx, NoOwnBlock
<1>6. PeersHeard(n)
  BY <1>3 DEF PeersHeard, HeardOf
<1> QED
  BY <1>4, <1>5, <1>6 DEF Running, ActiveNeverTakes

\* Nothing else has failed when nothing fails.
LEMMA FailuresGrow ==
  ASSUME Typed, [Next]_vars, failures' = 0
  PROVE  /\ failures = 0
         /\ \A n \in Operator : ~Crash(n) /\ ~WatchLost(n)
<1>1. failures \in Nat
  BY FederationAssumption DEF Typed, TypeOK
<1>2. \A n \in Operator : ~Crash(n) /\ ~WatchLost(n)
  BY <1>1 DEF Crash, WatchLost
<1>3. ASSUME NEW n \in Operator, Cycle(n) PROVE failures' = failures
  BY <1>2, <1>3
  DEF Cycle, ChecksFail, ChecksPass, ReadLeader, GroupNotLeaded, LeaderIsSelf, CountQuietLeader,
      ChallengeQuietLeader, LookUpHeartbeat, JudgeDown, JudgeAlive, SubmitSetLeader,
      CannotSubmit, SubmitThrows, LeadershipTaken, LeadershipRefused, TransactionGone, EndWait,
      Recheck
<1>4. ASSUME NEW n \in Operator, Import(n) \/ Process(n)
      PROVE  failures' = failures
  BY <1>2, <1>4 DEF Import, Process, Restart, FillHeartbeat, Listen
<1>5. ASSUME NEW b \in Blocks, Produces(b) PROVE failures' = failures
  BY <1>5 DEF Produces
<1>6. CASE UNCHANGED vars
  BY <1>2, <1>6 DEF vars
<1> QED
  BY <1>2, <1>3, <1>4, <1>5, <1>6, StepCases DEF Typed

CalmAt(n) == Running(n) /\ OneClaim(n) /\ PeersHeard(n) /\ ActiveNeverTakes(n)

\* A block with n's transaction means that n watched it, and now it is in n's
\* backlog alone; a block without leaves n's claims as they are.
LEMMA ProducedClaim ==
  ASSUME Typed, NEW b \in Blocks, Produces(b), NEW n \in Operator, OneClaim(n)
  PROVE  /\ OneClaim(n)'
         /\ b.sender = n =>
              /\ pc[n] = "watching" /\ Waiting(n)
              /\ \E tx \in pool :
                   /\ tx.sender = n /\ tx.reported = cur[n]
                   /\ b.taken <=> Register!MayTake(leader[GroupOf[n]], n, tx.reported)
<1>1. /\ TypeOK /\ pc' = pc /\ watch' = watch /\ cur' = cur /\ pool' \subseteq pool
  BY DEF Typed, Produces, cycleVars
<1>2. /\ Len(backlog[n]) \in Nat
      /\ Len(backlog'[n]) = Len(backlog[n]) + 1
      /\ \A i \in 1..Len(backlog[n]) : backlog'[n][i] = backlog[n][i]
      /\ backlog'[n][Len(backlog[n]) + 1] = b
  BY PublishEffect DEF Produces
<1>3. PICK k \in Nat : k = Len(backlog[n]) /\ 1..Len(backlog'[n]) = (1..k) \cup {k + 1}
                       /\ k + 1 \notin 1..k
  BY <1>2
<1>4. NoOwnTx(n) => NoOwnTx(n)'
  BY <1>1 DEF NoOwnTx
<1>5. CASE b.sender # n
  <2>1. NoOwnBlock(n) => NoOwnBlock(n)'
    BY <1>2, <1>3, <1>5 DEF NoOwnBlock
  <2>2. Waiting(n) => Waiting(n)'
    BY <1>1, <2>1 DEF Waiting
  <2>3. Included(n) => Included(n)'
    <3>1. SUFFICES ASSUME Included(n) PROVE Included(n)'
      OBVIOUS
    <3>2. PICK i \in 1..k : \A j \in 1..k : backlog[n][j].sender = n <=> j = i
      BY <1>3, <3>1 DEF Included
    <3>3. \A j \in (1..k) \cup {k + 1} : backlog'[n][j].sender = n <=> j = i
      BY <1>2, <1>3, <1>5, <3>2
    <3> QED
      BY <1>1, <1>3, <1>4, <3>1, <3>3 DEF Included
  <2>4. Told(n) => Told(n)'
    BY <1>1, <1>4, <2>1 DEF Told
  <2> QED
    BY <1>1, <1>4, <1>5, <2>1, <2>2, <2>3, <2>4 DEF OneClaim
<1>6. CASE b.sender = n
  <2>1. n \in Node /\ n # NoLeader
    BY FederationAssumption DEF Node
  <2>2. PICK tx \in pool :
          /\ b.sender = tx.sender
          /\ b.taken <=> Register!MayTake(leader[GroupOf[tx.sender]], tx.sender, tx.reported)
          /\ pool' = pool \ {tx}
    BY <1>6, <2>1 DEF Produces
  <2>3. tx.sender = n
    BY <1>6, <2>2
  <2>4. ~NoOwnTx(n)
    BY <2>3 DEF NoOwnTx
  <2>5. pc[n] = "watching" /\ Waiting(n)
    BY <2>4 DEF OneClaim, Included, Told
  <2>6. tx.reported = cur[n]
    BY <2>3, <2>5 DEF Waiting
  <2>7. \A other \in pool : other.sender = n => other = tx
    <3>1. SUFFICES ASSUME NEW other \in pool, other.sender = n PROVE other = tx
      OBVIOUS
    <3>2. other.reported = cur[n]
      BY <2>5, <3>1 DEF Waiting
    <3>3. /\ tx \in [sender : Operator, reported : Node \cup {NoLeader}]
          /\ other \in [sender : Operator, reported : Node \cup {NoLeader}]
      BY <1>1 DEF TypeOK
    <3> QED
      BY <2>3, <2>6, <3>1, <3>2, <3>3
  <2>8. NoOwnTx(n)'
    BY <2>2, <2>7 DEF NoOwnTx
  <2>9. \A j \in (1..k) \cup {k + 1} : backlog'[n][j].sender = n <=> j = k + 1
    BY <1>2, <1>3, <1>6, <2>5 DEF Waiting, NoOwnBlock
  <2>10. Included(n)'
    BY <1>1, <1>3, <2>5, <2>8, <2>9 DEF Included, Waiting
  <2> QED
    BY <1>1, <2>2, <2>3, <2>5, <2>6, <2>10 DEF OneClaim
<1> QED
  BY <1>5, <1>6

\* A new block that does not make n the leader changes nothing for n; one that
\* does makes n one that is taking the leadership.
LEMMA ProducedTaking ==
  ASSUME Typed, NEW b \in Blocks, Produces(b), NEW n \in Operator, OneClaim(n)
  PROVE  /\ Taking(n) => Taking(n)'
         /\ b.sender = n /\ b.taken => Taking(n)'
         /\ Taking(n)' => Taking(n) \/ (b.sender = n /\ b.taken)
         /\ ~(b.sender = n /\ b.taken) => \A p \in Operator : HeardOf(p, n) => HeardOf(p, n)'
<1>1. pc' = pc /\ watch' = watch
  BY DEF Produces, cycleVars
<1>2. \A p \in Operator :
        /\ Len(backlog[p]) \in Nat
        /\ Len(backlog'[p]) = Len(backlog[p]) + 1
        /\ \A i \in 1..Len(backlog[p]) : backlog'[p][i] = backlog[p][i]
        /\ backlog'[p][Len(backlog[p]) + 1] = b
  BY PublishEffect DEF Produces
<1>3. ASSUME NEW p \in Operator
      PROVE  HeardOf(p, n)' <=> HeardOf(p, n) /\ ~(b.sender = n /\ b.taken)
  <2>1. PICK k \in Nat : k = Len(backlog[p]) /\ 1..Len(backlog'[p]) = (1..k) \cup {k + 1}
    BY <1>2
  <2>2. /\ \A i \in 1..k : backlog'[p][i] = backlog[p][i]
        /\ backlog'[p][k + 1] = b
    BY <1>2, <2>1
  <2>3. HeardOf(p, n) <=> \A i \in 1..k : ~(backlog[p][i].sender = n /\ backlog[p][i].taken)
    BY <2>1 DEF HeardOf
  <2>4. HeardOf(p, n)' <=>
          \A i \in (1..k) \cup {k + 1} : ~(backlog'[p][i].sender = n /\ backlog'[p][i].taken)
    BY <2>1 DEF HeardOf
  <2> QED
    BY <2>2, <2>3, <2>4
<1>4. b.sender = n /\ b.taken => pc[n] = "watching"
  BY ProducedClaim
<1> QED
  BY <1>1, <1>3, <1>4 DEF Taking

LEMMA CalmProduce ==
  ASSUME Typed, ActiveInv, StaysLed, NEW b \in Blocks, Produces(b), NEW n \in Operator, CalmAt(n)
  PROVE  CalmAt(n)'
<1>1. /\ TypeOK /\ Running(n) /\ OneClaim(n) /\ PeersHeard(n) /\ ActiveNeverTakes(n)
      /\ UNCHANGED <<pc, cur, mode, stage>>
  BY DEF Typed, CalmAt, Produces, cycleVars, procVars, bootVars
<1>2. OneClaim(n)'
  BY <1>1, ProducedClaim
<1>3. PeersHeard(n)'
  BY <1>1, ProducedTaking DEF PeersHeard
<1>4. ASSUME mode[n] = "active", b.sender = n, b.taken
      PROVE  FALSE
  <2>1. PICK tx \in pool :
          /\ tx.sender = n /\ tx.reported = cur[n]
          /\ b.taken <=> Register!MayTake(leader[GroupOf[n]], n, tx.reported)
    BY <1>1, <1>4, ProducedClaim
  <2>2. pc[n] = "watching" /\ cur[n] \in {n, Unreadable}
    BY <1>1, <1>4, ProducedClaim DEF ActiveNeverTakes
  <2>3. tx.reported \in Node \cup {NoLeader}
    BY <1>1 DEF TypeOK
  <2>4. tx.reported = n
    BY <2>1, <2>2, <2>3, FederationAssumption
  <2>5. view[n].leader[GroupOf[n]] = n /\ n # NoLeader /\ GroupOf[n] \in Group
    BY <1>1, <1>4, LeaderSeenTyped, FederationAssumption
    DEF ActiveInv, ActiveIsLeaderSeen, LeaderSeen, Node
  <2>6. leader[GroupOf[n]] # NoLeader
    BY <2>5 DEF StaysLed
  <2> QED
    BY <1>4, <2>1, <2>4, <2>6 DEF Register!MayTake
<1>5. ActiveNeverTakes(n)'
  BY <1>1, <1>4, ProducedTaking DEF ActiveNeverTakes
<1> QED
  BY <1>1, <1>2, <1>3, <1>5 DEF CalmAt, Running

\* Importing its own block, a chain node tells the outcome of the claim.
LEMMA ImportedClaim ==
  ASSUME Typed, NEW n \in Operator, Import(n), OneClaim(n)
  PROVE  /\ OneClaim(n)'
         /\ Taking(n)' <=> Taking(n)
<1> DEFINE b == backlog[n][1]
<1>1. /\ TypeOK /\ pc' = pc /\ pool' = pool /\ cur' = cur
  BY DEF Typed, Import, chainVars
<1>2. /\ b = Head(backlog[n])
      /\ Len(backlog[n]) \in Nat \ {0}
      /\ Len(backlog'[n]) = Len(backlog[n]) - 1
      /\ \A i \in 1..Len(backlog'[n]) : backlog'[n][i] = backlog[n][i + 1]
  BY ImportEffect
<1>3. watch'[n] = IF pc[n] = "watching" /\ b.sender = n
                  THEN IF b.taken THEN "taken" ELSE "refused"
                  ELSE watch[n]
  BY <1>1, <1>2 DEF Import, TypeOK
<1> HIDE DEF b
<1>4. PICK k \in Nat : /\ k = Len(backlog'[n]) /\ Len(backlog[n]) = k + 1
                       /\ 1 \in 1..(k + 1)
                       /\ \A i \in 1..k : i + 1 \in 1..(k + 1) /\ i + 1 # 1
                       /\ \A j \in 1..(k + 1) : j = 1 \/ \E i \in 1..k : j = i + 1
  <2>1. /\ Len(backlog'[n]) \in Nat
        /\ Len(backlog[n]) = Len(backlog'[n]) + 1
    BY <1>2
  <2>2. \A k \in Nat : /\ 1 \in 1..(k + 1)
                       /\ \A i \in 1..k : i + 1 \in 1..(k + 1) /\ i + 1 # 1
                       /\ \A j \in 1..(k + 1) : j = 1 \/ (j - 1 \in 1..k /\ j = (j - 1) + 1)
    OBVIOUS
  <2> QED
    BY <2>1, <2>2
<1>5. /\ backlog[n][1] = b
      /\ \A i \in 1..k : /\ backlog'[n][i] = backlog[n][i + 1]
                         /\ i + 1 \in 1..(k + 1) /\ i + 1 # 1
      /\ \A j \in 1..(k + 1) : j = 1 \/ \E i \in 1..k : j = i + 1 /\ backlog[n][j] = backlog'[n][i]
  <2>1. backlog[n][1] = b /\ \A i \in 1..k : backlog'[n][i] = backlog[n][i + 1]
    BY <1>2, <1>4 DEF b
  <2> QED
    BY <1>4, <2>1
<1>6. NoOwnTx(n)' <=> NoOwnTx(n)
  BY <1>1 DEF NoOwnTx
<1>7. NoOwnBlock(n) <=> NoOwnBlock(n)' /\ b.sender # n
  <2>1. NoOwnBlock(n) <=> \A j \in 1..(k + 1) : backlog[n][j].sender # n
    BY <1>4 DEF NoOwnBlock
  <2>2. NoOwnBlock(n)' <=> \A i \in 1..k : backlog'[n][i].sender # n
    BY <1>4 DEF NoOwnBlock
  <2>3. ASSUME NoOwnBlock(n)', b.sender # n, NEW j \in 1..(k + 1)
        PROVE  backlog[n][j].sender # n
    BY <1>5, <2>2, <2>3
  <2>4. ASSUME NoOwnBlock(n)
        PROVE  NoOwnBlock(n)' /\ b.sender # n
    <3>1. \A j \in 1..(k + 1) : backlog[n][j].sender # n
      BY <2>1, <2>4
    <3>2. b.sender # n
      BY <1>4, <1>5, <3>1
    <3>3. ASSUME NEW i \in 1..k PROVE backlog'[n][i].sender # n
      <4>1. backlog'[n][i] = backlog[n][i + 1] /\ i + 1 \in 1..(k + 1)
        BY <1>5
      <4> QED
        BY <3>1, <4>1
    <3> QED
      BY <2>2, <3>2, <3>3
  <2> QED
    BY <2>1, <2>3, <2>4
<1>8. HeardOf(n, n) <=> HeardOf(n, n)' /\ ~(b.sender = n /\ b.taken)
  <2>1. HeardOf(n, n) <=> \A j \in 1..(k + 1) : ~(backlog[n][j].sender = n /\ backlog[n][j].taken)
    BY <1>4 DEF HeardOf
  <2>2. HeardOf(n, n)' <=> \A i \in 1..k : ~(backlog'[n][i].sender = n /\ backlog'[n][i].taken)
    BY <1>4 DEF HeardOf
  <2>3. ASSUME HeardOf(n, n)', ~(b.sender = n /\ b.taken), NEW j \in 1..(k + 1)
        PROVE  ~(backlog[n][j].sender = n /\ backlog[n][j].taken)
    BY <1>5, <2>2, <2>3
  <2>4. ASSUME HeardOf(n, n)
        PROVE  HeardOf(n, n)' /\ ~(b.sender = n /\ b.taken)
    <3>1. \A j \in 1..(k + 1) : ~(backlog[n][j].sender = n /\ backlog[n][j].taken)
      BY <2>1, <2>4
    <3>2. ~(b.sender = n /\ b.taken)
      BY <1>4, <1>5, <3>1
    <3>3. ASSUME NEW i \in 1..k PROVE ~(backlog'[n][i].sender = n /\ backlog'[n][i].taken)
      <4>1. backlog'[n][i] = backlog[n][i + 1] /\ i + 1 \in 1..(k + 1)
        BY <1>5
      <4> QED
        BY <3>1, <4>1
    <3> QED
      BY <2>2, <3>2, <3>3
  <2> QED
    BY <2>1, <2>3, <2>4
<1>9. CASE pc[n] # "watching"
  BY <1>1, <1>3, <1>6, <1>7, <1>9 DEF OneClaim, Taking
<1>10. CASE pc[n] = "watching" /\ b.sender # n
  <2>1. watch'[n] = watch[n] /\ (HeardOf(n, n)' <=> HeardOf(n, n))
    BY <1>3, <1>8, <1>10
  <2>2. Waiting(n) => Waiting(n)'
    BY <1>1, <1>7, <2>1 DEF Waiting
  <2>3. Told(n) => Told(n)'
    BY <1>6, <1>7, <2>1 DEF Told
  <2>4. Included(n) => Included(n)'
    <3>1. SUFFICES ASSUME Included(n) PROVE Included(n)'
      OBVIOUS
    <3>2. PICK i \in 1..(k + 1) : \A j \in 1..(k + 1) : backlog[n][j].sender = n <=> j = i
      BY <1>4, <3>1 DEF Included
    <3>3. i # 1
      BY <1>4, <1>5, <1>10, <3>2
    <3>4. PICK h \in 1..k : i = h + 1
      BY <1>4, <3>3
    <3>5. ASSUME NEW j \in 1..k
          PROVE  backlog'[n][j].sender = n <=> j = h
      <4>1. backlog'[n][j] = backlog[n][j + 1] /\ (backlog[n][j + 1].sender = n <=> j + 1 = i)
        BY <1>5, <3>2
      <4>2. j + 1 = h + 1 <=> j = h
        OBVIOUS
      <4> QED
        BY <3>4, <4>1, <4>2
    <3> QED
      BY <1>4, <1>6, <2>1, <3>1, <3>5 DEF Included
  <2> QED
    BY <1>1, <1>10, <2>1, <2>2, <2>3, <2>4 DEF OneClaim, Taking
<1>11. CASE pc[n] = "watching" /\ b.sender = n
  <2>1. Included(n)
    BY <1>7, <1>11 DEF OneClaim, Waiting, Told
  <2>2. PICK i \in 1..(k + 1) : \A j \in 1..(k + 1) : backlog[n][j].sender = n <=> j = i
    BY <1>4, <2>1 DEF Included
  <2>3. i = 1
    BY <1>4, <1>5, <1>11, <2>2
  <2>4. ASSUME NEW j \in 1..k
        PROVE  backlog'[n][j].sender # n
    <3>1. backlog'[n][j] = backlog[n][j + 1] /\ (backlog[n][j + 1].sender = n <=> j + 1 = i)
          /\ j + 1 # 1
      BY <1>5, <2>2
    <3> QED
      BY <2>3, <3>1
  <2>5. NoOwnBlock(n)' /\ HeardOf(n, n)'
    BY <1>4, <2>4 DEF NoOwnBlock, HeardOf
  <2>6. watch'[n] = (IF b.taken THEN "taken" ELSE "refused") /\ watch[n] = "none"
    BY <1>3, <1>11, <2>1 DEF Included
  <2>7. Told(n)'
    BY <1>6, <2>1, <2>5, <2>6 DEF Told, Included
  <2> QED
    BY <1>1, <1>8, <1>11, <2>5, <2>6, <2>7 DEF OneClaim, Taking
<1> QED
  BY <1>9, <1>10, <1>11

LEMMA CalmImport ==
  ASSUME Typed, NEW k \in Operator, Import(k), NEW n \in Operator, CalmAt(n)
  PROVE  CalmAt(n)'
<1>1. /\ Running(n) /\ OneClaim(n) /\ PeersHeard(n) /\ ActiveNeverTakes(n)
      /\ UNCHANGED <<pc, cur, stage, pool>>
  BY DEF Typed, CalmAt, Import, chainVars
<1>2. ASSUME n # k
      PROVE  watch'[n] = watch[n] /\ backlog'[n] = backlog[n]
  BY <1>2, ImportEffect DEF Import, Typed, TypeOK
<1>3. OneClaim(n)' /\ (Taking(n)' <=> Taking(n))
  <2>1. CASE n = k
    BY <1>1, <2>1, ImportedClaim
  <2>2. CASE n # k
    <3>1. UNCHANGED <<pc, cur, pool>> /\ watch'[n] = watch[n] /\ backlog'[n] = backlog[n]
      BY <1>1, <1>2, <2>2
    <3>2. /\ NoOwnTx(n)' <=> NoOwnTx(n)
          /\ NoOwnBlock(n)' <=> NoOwnBlock(n)
          /\ HeardOf(n, n)' <=> HeardOf(n, n)
      BY <3>1 DEF NoOwnTx, NoOwnBlock, HeardOf
    <3>3. /\ Waiting(n)' <=> Waiting(n)
          /\ Included(n)' <=> Included(n)
          /\ Told(n)' <=> Told(n)
      BY <3>1, <3>2 DEF Waiting, Included, Told
    <3> QED
      BY <1>1, <3>1, <3>2, <3>3 DEF OneClaim, Taking
  <2> QED
    BY <2>1, <2>2
<1>4. ASSUME NEW p \in Operator, HeardOf(p, n)
      PROVE  HeardOf(p, n)'
  <2>1. CASE p = k
    <3>1. /\ Len(backlog[k]) \in Nat
          /\ Len(backlog'[k]) = Len(backlog[k]) - 1
          /\ \A i \in 1..Len(backlog'[k]) : backlog'[k][i] = backlog[k][i + 1]
      BY ImportEffect
    <3>2. \A i \in 1..Len(backlog'[k]) : i + 1 \in 1..Len(backlog[k])
      BY <3>1
    <3> QED
      BY <1>4, <2>1, <3>1, <3>2 DEF HeardOf
  <2>2. CASE p # k
    BY <1>4, <2>2, ImportEffect DEF HeardOf
  <2> QED
    BY <2>1, <2>2
<1>5. mode'[n] = "active" => mode[n] = "active"
  BY ImportLeader
<1> QED
  BY <1>1, <1>3, <1>4, <1>5 DEF CalmAt, PeersHeard, ActiveNeverTakes, Running

\* A cycle leaves the claims of the other orchestrators alone.
LEMMA CycleOthers ==
  ASSUME TypeOK, NEW n \in Operator, Cycle(n), NEW m \in Operator \ {n}
  PROVE  /\ pc'[m] = pc[m] /\ cur'[m] = cur[m] /\ watch'[m] = watch[m] /\ mode'[m] = mode[m]
         /\ \A tx : tx.sender = m => (tx \in pool' <=> tx \in pool)
<1>1. pc'[m] = pc[m] /\ mode'[m] = mode[m]
  BY CyclePc, CycleMode
<1>2. \A tx : tx.sender = m => (tx \in pool' <=> tx \in pool)
  BY CyclePool DEF SubmitSetLeader
<1>3. cur'[m] = cur[m] /\ watch'[m] = watch[m]
  <2> USE DEF TypeOK, EnforcePassive, EndCycle
  <2>1. CASE \/ ChecksFail(n) \/ CountQuietLeader(n) \/ JudgeAlive(n) \/ CannotSubmit(n)
             \/ SubmitThrows(n) \/ LeadershipRefused(n) \/ TransactionGone(n) \/ WatchLost(n)
             \/ Recheck(n)
    BY <2>1 DEF ChecksFail, CountQuietLeader, JudgeAlive, CannotSubmit, SubmitThrows,
                LeadershipRefused, TransactionGone, WatchLost, Recheck
  <2>2. CASE \/ ChecksPass(n) \/ ReadLeader(n) \/ GroupNotLeaded(n) \/ LeaderIsSelf(n)
             \/ ChallengeQuietLeader(n) \/ LookUpHeartbeat(n) \/ JudgeDown(n)
             \/ SubmitSetLeader(n) \/ LeadershipTaken(n) \/ EndWait(n)
    BY <2>2 DEF ChecksPass, ReadLeader, GroupNotLeaded, LeaderIsSelf, ChallengeQuietLeader,
                LookUpHeartbeat, JudgeDown, SubmitSetLeader, LeadershipTaken, EndWait
  <2> QED
    BY <2>1, <2>2 DEF Cycle
<1> QED
  BY <1>1, <1>2, <1>3

\* A cycle that ends with nothing left behind claims nothing.
LEMMA CalmEnd ==
  ASSUME TypeOK, NEW n \in Operator, CalmAt(n), EndCycle(n), UNCHANGED <<stage, backlog>>,
         NoOwnTx(n)', NoOwnBlock(n), ~Taking(n)
  PROVE  CalmAt(n)'
<1>1. pc'[n] = "idle" /\ watch'[n] = "none"
  BY DEF TypeOK, EndCycle, Goto
<1>2. NoOwnBlock(n)' /\ \A p \in Operator : HeardOf(p, n)' <=> HeardOf(p, n)
  BY DEF NoOwnBlock, HeardOf
<1> QED
  BY <1>1, <1>2 DEF CalmAt, OneClaim, PeersHeard, ActiveNeverTakes, Taking, Running

\* A cycle that goes on before it submits, or after the wait, claims nothing.
LEMMA CalmGoOn ==
  ASSUME TypeOK, NEW n \in Operator, CalmAt(n), UNCHANGED <<stage, backlog, pool, mode, watch>>,
         pc[n] \notin {"watching", "settling"}, pc'[n] \notin {"watching", "settling"},
         pc'[n] = "recheck" \/ pc[n] # "recheck",
         mode[n] = "active" => pc'[n] \in {"idle", "leader"} \/ cur'[n] \in {n, Unreadable}
  PROVE  CalmAt(n)'
<1>1. /\ NoOwnTx(n)' <=> NoOwnTx(n)
      /\ NoOwnBlock(n)' <=> NoOwnBlock(n)
      /\ \A p \in Operator : HeardOf(p, n)' <=> HeardOf(p, n)
  BY DEF NoOwnTx, NoOwnBlock, HeardOf
<1> QED
  BY <1>1 DEF CalmAt, OneClaim, PeersHeard, ActiveNeverTakes, Taking, Running

LEMMA CalmCycleOthers ==
  ASSUME TypeOK, NEW k \in Operator, Cycle(k), NEW n \in Operator \ {k}, CalmAt(n)
  PROVE  CalmAt(n)'
<1>1. /\ pc'[n] = pc[n] /\ cur'[n] = cur[n] /\ watch'[n] = watch[n] /\ mode'[n] = mode[n]
      /\ \A tx : tx.sender = n => (tx \in pool' <=> tx \in pool)
      /\ UNCHANGED <<stage, backlog>>
  BY CycleOthers, CycleFrame DEF bootVars
<1>2. /\ NoOwnTx(n)' <=> NoOwnTx(n)
      /\ NoOwnBlock(n)' <=> NoOwnBlock(n)
      /\ \A p \in Operator : HeardOf(p, n)' <=> HeardOf(p, n)
  BY <1>1 DEF NoOwnTx, NoOwnBlock, HeardOf
<1>3. /\ Waiting(n) => Waiting(n)'
      /\ Included(n) => Included(n)'
      /\ Told(n) => Told(n)'
  BY <1>1, <1>2 DEF Waiting, Included, Told
<1> QED
  BY <1>1, <1>2, <1>3 DEF CalmAt, OneClaim, PeersHeard, ActiveNeverTakes, Taking, Running

\* Step by step through a cycle that does not lose its watch.
LEMMA CalmCycle ==
  ASSUME Typed, ActiveInv, WaitCovers, NEW n \in Operator, Cycle(n), ~WatchLost(n),
         \A p \in Operator : CalmAt(p)
  PROVE  CalmAt(n)'
<1>1. /\ TypeOK /\ CalmAt(n) /\ Running(n) /\ OneClaim(n) /\ PeersHeard(n) /\ ActiveNeverTakes(n)
      /\ UNCHANGED <<stage, backlog>>
  BY CycleFrame DEF Typed, CalmAt, bootVars
<1>2. ASSUME pc[n] \notin {"watching", "settling"}
      PROVE  NoOwnTx(n) /\ NoOwnBlock(n) /\ ~Taking(n)
  BY <1>1, <1>2 DEF OneClaim, Taking
<1>3. ASSUME UNCHANGED pool, NoOwnTx(n)
      PROVE  NoOwnTx(n)'
  BY <1>3 DEF NoOwnTx
<1>4. CASE \/ ChecksFail(n) \/ CountQuietLeader(n) \/ JudgeAlive(n) \/ CannotSubmit(n)
           \/ SubmitThrows(n) \/ Recheck(n)
  <2>1. EndCycle(n) /\ UNCHANGED pool /\ pc[n] \notin {"watching", "settling"}
    BY <1>4 DEF ChecksFail, CountQuietLeader, JudgeAlive, CannotSubmit, SubmitThrows, Recheck,
                At, GroupLeaded, EnforcePassive, chainVars
  <2> QED
    BY <1>1, <1>2, <1>3, <2>1, CalmEnd
<1>5. CASE LeadershipRefused(n)
  <2>1. EndCycle(n) /\ UNCHANGED pool /\ pc[n] = "watching" /\ watch[n] = "refused"
    BY <1>5 DEF LeadershipRefused, At, EnforcePassive, chainVars
  <2>2. NoOwnTx(n) /\ NoOwnBlock(n)
    BY <1>1, <2>1 DEF OneClaim, Waiting, Included, Told
  <2>3. ~Taking(n)
    BY <2>1, <2>2 DEF Taking, HeardOf, NoOwnBlock
  <2> QED
    BY <1>1, <1>3, <2>1, <2>2, <2>3, CalmEnd
<1>6. CASE TransactionGone(n)
  <2>1. PICK tx \in pool : tx.sender = n /\ pool' = pool \ {tx}
    BY <1>6 DEF TransactionGone
  <2>2. EndCycle(n) /\ pc[n] = "watching"
    BY <1>6 DEF TransactionGone, At, EnforcePassive
  <2>3. Waiting(n)
    BY <1>1, <2>1, <2>2 DEF OneClaim, Included, Told, NoOwnTx
  <2>4. ~Taking(n) /\ NoOwnBlock(n)
    BY <2>2, <2>3 DEF Waiting, Taking, HeardOf, NoOwnBlock
  <2>5. \A other \in pool : other.sender = n => other = tx
    <3>1. SUFFICES ASSUME NEW other \in pool, other.sender = n PROVE other = tx
      OBVIOUS
    <3>2. other.reported = cur[n] /\ tx.reported = cur[n]
      BY <2>1, <2>3, <3>1 DEF Waiting
    <3>3. /\ tx \in [sender : Operator, reported : Node \cup {NoLeader}]
          /\ other \in [sender : Operator, reported : Node \cup {NoLeader}]
      BY <1>1 DEF TypeOK
    <3> QED
      BY <2>1, <3>1, <3>2, <3>3
  <2>6. NoOwnTx(n)'
    BY <2>1, <2>5 DEF NoOwnTx
  <2> QED
    BY <1>1, <2>2, <2>4, <2>6, CalmEnd
<1>7. CASE ChecksPass(n)
  <2>1. /\ UNCHANGED <<pool, mode, watch>> /\ pc[n] = "idle" /\ pc'[n] = "leader"
    BY <1>1, <1>7 DEF ChecksPass, At, Goto, chainVars, procVars, bootVars, TypeOK
  <2> QED
    BY <1>1, <2>1, CalmGoOn
<1>8. CASE ReadLeader(n)
  <2>1. /\ UNCHANGED <<pool, mode, watch>> /\ pc[n] = "leader" /\ pc'[n] = "leaded"
        /\ cur'[n] \in {LeaderSeen(n), Unreadable}
    BY <1>1, <1>8 DEF ReadLeader, At, Goto, chainVars, procVars, bootVars, TypeOK
  <2>2. mode[n] = "active" => LeaderSeen(n) = n
    BY <1>1 DEF ActiveInv, ActiveIsLeaderSeen
  <2> QED
    BY <1>1, <2>1, <2>2, CalmGoOn
<1>9. CASE GroupNotLeaded(n)
  <2>1. /\ UNCHANGED <<pool, mode, watch>> /\ pc[n] = "leaded" /\ pc'[n] = "submit"
        /\ cur'[n] = n
    BY <1>1, <1>9 DEF GroupNotLeaded, At, Goto, chainVars, procVars, bootVars, TypeOK
  <2> QED
    BY <1>1, <2>1, CalmGoOn
<1>10. CASE LeaderIsSelf(n) \/ ChallengeQuietLeader(n) \/ LookUpHeartbeat(n) \/ JudgeDown(n)
  <2>1. /\ UNCHANGED <<pool, mode, watch, cur>>
        /\ pc[n] \in {"leaded", "judge"} /\ pc'[n] \in {"recheck", "submit", "judge"}
    BY <1>1, <1>10 DEF LeaderIsSelf, ChallengeQuietLeader, LookUpHeartbeat, JudgeDown,
                       GroupLeaded, At, Goto, chainVars, procVars, bootVars, TypeOK
  <2>2. mode[n] = "active" => cur'[n] \in {n, Unreadable}
    BY <1>1, <2>1 DEF ActiveNeverTakes
  <2> QED
    BY <1>1, <2>1, <2>2, CalmGoOn
<1>11. CASE SubmitSetLeader(n)
  <2>1. /\ UNCHANGED <<mode, watch, cur>> /\ pc[n] = "submit" /\ pc'[n] = "watching"
        /\ pool' = pool \cup {[sender |-> n, reported |-> cur[n]]}
    BY <1>1, <1>11 DEF SubmitSetLeader, At, Goto, procVars, bootVars, TypeOK
  <2>2. NoOwnTx(n) /\ NoOwnBlock(n) /\ ~Taking(n) /\ watch[n] = "none"
    BY <1>1, <1>2, <2>1 DEF OneClaim
  <2>3. NoOwnBlock(n)' /\ \A p \in Operator : HeardOf(p, n)' <=> HeardOf(p, n)
    BY <1>1, <2>2 DEF NoOwnBlock, HeardOf
  <2>4. Waiting(n)'
    BY <2>1, <2>2, <2>3 DEF Waiting, NoOwnTx
  <2>5. ~Taking(n)'
    BY <2>1, <2>2, <2>3 DEF Taking, HeardOf, NoOwnBlock
  <2> QED
    BY <1>1, <2>1, <2>2, <2>3, <2>4, <2>5
    DEF CalmAt, Running, OneClaim, PeersHeard, ActiveNeverTakes
<1>12. CASE LeadershipTaken(n)
  <2>1. /\ UNCHANGED <<pool, mode, watch, cur>> /\ pc[n] = "watching" /\ watch[n] = "taken"
        /\ pc'[n] = "settling"
    BY <1>1, <1>12 DEF LeadershipTaken, At, Goto, chainVars, procVars, bootVars, TypeOK
  <2>2. NoOwnTx(n) /\ NoOwnBlock(n) /\ Taking(n)
    BY <1>1, <2>1 DEF OneClaim, Waiting, Included, Told, Taking
  <2>3. NoOwnTx(n)' /\ NoOwnBlock(n)'
    BY <1>1, <2>1, <2>2 DEF NoOwnTx, NoOwnBlock
  <2> QED
    BY <1>1, <2>1, <2>2, <2>3
    DEF CalmAt, Running, OneClaim, PeersHeard, ActiveNeverTakes, Taking
<1>13. CASE EndWait(n)
  <2>1. /\ UNCHANGED <<pool, mode, watch, cur>> /\ pc[n] = "settling" /\ pc'[n] = "recheck"
        /\ \A p \in Peers(n) : HeardOf(p, n)
    BY <1>1, <1>13 DEF EndWait, At, Goto, chainVars, procVars, bootVars, TypeOK
  <2>2. NoOwnTx(n) /\ NoOwnBlock(n) /\ Taking(n)
    BY <1>1, <2>1 DEF OneClaim, Taking
  <2>3. NoOwnTx(n)' /\ NoOwnBlock(n)'
    BY <1>1, <2>1, <2>2 DEF NoOwnTx, NoOwnBlock
  <2>4. \A p \in Operator \ {n} : GroupOf[p] = GroupOf[n] => HeardOf(p, n)'
    BY <1>1, <2>1 DEF Peers, HeardOf, CalmAt
  <2> QED
    BY <1>1, <2>1, <2>2, <2>3, <2>4
    DEF CalmAt, Running, OneClaim, PeersHeard, ActiveNeverTakes
<1> QED
  BY <1>4, <1>5, <1>6, <1>7, <1>8, <1>9, <1>10, <1>11, <1>12, <1>13 DEF Cycle

LEMMA CalmStep ==
  ASSUME WaitCovers
  PROVE  Typed /\ ActiveInv /\ StaysLed /\ CalmInv /\ [Next]_vars => CalmInv'
<1> SUFFICES ASSUME Typed, ActiveInv, StaysLed, CalmInv, [Next]_vars, failures' = 0,
                    NEW n \in Operator
             PROVE  CalmAt(n)'
  BY DEF CalmInv, CalmAt
<1>1. failures = 0 /\ \A k \in Operator : ~Crash(k) /\ ~WatchLost(k)
  BY FailuresGrow
<1>2. TypeOK /\ \A k \in Operator : CalmAt(k)
  BY <1>1 DEF CalmInv, CalmAt, Typed
<1>3. CASE UNCHANGED vars
  <2>1. UNCHANGED <<pool, backlog, stage, pc, cur, watch, mode>>
    BY <1>3 DEF vars, chainVars, nodeVars, cycleVars, procVars, bootVars
  <2> QED
    BY <1>2, <2>1
    DEF CalmAt, Running, OneClaim, PeersHeard, ActiveNeverTakes, Taking, Waiting, Included, Told,
        NoOwnTx, NoOwnBlock, HeardOf
<1>4. ASSUME NEW b \in Blocks, Produces(b)
      PROVE  CalmAt(n)'
  BY <1>2, <1>4, CalmProduce
<1>5. ASSUME NEW k \in Operator, Import(k)
      PROVE  CalmAt(n)'
  BY <1>2, <1>5, CalmImport
<1>6. ASSUME NEW k \in Operator, Cycle(k)
      PROVE  CalmAt(n)'
  <2>1. CASE k = n
    BY <1>1, <1>2, <1>6, <2>1, CalmCycle
  <2>2. CASE k # n
    BY <1>2, <1>6, <2>2, CalmCycleOthers
  <2> QED
    BY <2>1, <2>2
<1>7. ASSUME NEW k \in Operator, Process(k)
      PROVE  CalmAt(n)'
  <2>1. PICK m \in Node : FillHeartbeat(k, m)
    BY <1>1, <1>2, <1>7 DEF CalmAt, Running, Process, Restart, Listen
  <2>2. UNCHANGED <<pool, backlog, stage, pc, cur, watch, mode>>
    BY <2>1 DEF FillHeartbeat, chainVars, nodeVars, cycleVars
  <2> QED
    BY <1>2, <2>2
    DEF CalmAt, Running, OneClaim, PeersHeard, ActiveNeverTakes, Taking, Waiting, Included, Told,
        NoOwnTx, NoOwnBlock, HeardOf
<1> QED
  BY <1>1, <1>2, <1>3, <1>4, <1>5, <1>6, <1>7, StepCases

LEMMA CalmAlways ==
  ASSUME WaitCovers
  PROVE  Spec => []CalmInv
<1>1. Typed /\ ActiveInv /\ StaysLed /\ CalmInv /\ [Next]_vars => CalmInv'
  BY CalmStep
<1> QED
  BY <1>1, TypedAlways, ActiveAlways, LedAlways, CalmInit, PTL DEF Spec

\* Of two active nodes of a group, the one whose chain node is behind has yet
\* to import the block with which the other one took the leadership; but that
\* one waited until it had.
LEMMA Exclusion ==
  Typed /\ ActiveInv /\ ChainInv /\ CalmInv => (failures = 0 => AtMostOneActive)
<1> SUFFICES ASSUME Typed, ActiveInv, ChainInv, CalmInv, failures = 0
             PROVE  AtMostOneActive
  OBVIOUS
<1>1. ASSUME NEW n \in Operator, NEW m \in Operator, n # m,
             mode[n] = "active", mode[m] = "active", GroupOf[n] = GroupOf[m],
             Len(backlog[m]) <= Len(backlog[n])
      PROVE  FALSE
  <2>1. view[n].leader[GroupOf[n]] = n /\ view[m].leader[GroupOf[n]] = m /\ GroupOf[n] \in Group
    BY <1>1, LeaderSeenTyped DEF Typed, ActiveInv, ActiveIsLeaderSeen, LeaderSeen, CalmInv
  <2>2. HeardOf(n, m)
    BY <1>1 DEF CalmInv, ActiveNeverTakes, PeersHeard
  <2>3. Sees(n, GroupOf[n], Lead(n, m), m)
    <3>1. SameChain(n, m)
      BY DEF ChainInv
    <3> QED
      BY <1>1, <2>1, <3>1 DEF SameChain
  <2>4. PICK i \in 1..Lead(n, m) : Takes(backlog[n][i], GroupOf[n]) /\ m = backlog[n][i].sender
    BY <1>1, <2>1, <2>3 DEF Sees
  <2>5. i \in 1..Len(backlog[n])
    <3>1. \A a, b \in Nat : \A j \in 1..(a - b) : j \in 1..a
      OBVIOUS
    <3>2. Len(backlog[n]) \in Nat /\ Len(backlog[m]) \in Nat
      BY BestTyped
    <3> QED
      BY <3>1, <3>2 DEF Lead
  <2> QED
    BY <2>2, <2>4, <2>5 DEF HeardOf, Takes
<1>2. \A n, m \in Operator : Len(backlog[n]) <= Len(backlog[m]) \/ Len(backlog[m]) <= Len(backlog[n])
  <2>1. \A n \in Operator : Len(backlog[n]) \in Nat
    BY BestTyped
  <2> QED
    BY <2>1
<1> QED
  BY <1>1, <1>2 DEF AtMostOneActive

\* README.md:102, for any number of operators and groups, any lag and any
\* failed queries: as long as no process has crashed and no watch was lost, and
\* if the 10 s wait outlasts the propagation of a block, at most one node per
\* group is active.
THEOREM AtMostOneActiveHolds ==
  ASSUME WaitCovers
  PROVE  Spec => [](failures = 0 => AtMostOneActive)
<1>1. Spec => []CalmInv
  BY CalmAlways
<1> QED
  BY <1>1, TypedAlways, ActiveAlways, ChainAlways, Exclusion, PTL

\* In a federation in which nothing fails the bound on failures is zero.
LEMMA NothingFails ==
  ASSUME MaxFailures = 0
  PROVE  Typed => failures = 0
BY DEF Typed, TypeOK

\* A node turns active in its last look alone, and by then its peers know.
LEMMA HeardStep ==
  ASSUME MaxFailures = 0
  PROVE  Typed /\ CalmInv /\ [Next]_vars =>
           \A n \in Operator :
             mode[n] # "active" /\ mode'[n] = "active" => \A m \in Peers(n) : HeardOf(m, n)
<1> SUFFICES ASSUME Typed, CalmInv, [Next]_vars, NEW n \in Operator,
                    mode[n] # "active", mode'[n] = "active", NEW m \in Peers(n)
             PROVE  HeardOf(m, n)
  OBVIOUS
<1>1. TypeOK /\ PeersHeard(n)
  BY NothingFails DEF Typed, CalmInv
<1>2. mode' # mode
  OBVIOUS
<1>3. Cycle(n)
  <2>1. ASSUME NEW b \in Blocks, Produces(b) PROVE FALSE
    BY <1>2, <2>1 DEF Produces, procVars, bootVars
  <2>2. ASSUME NEW k \in Operator, Import(k) PROVE FALSE
    <3>1. mode'[n] = mode[n] \/ mode'[n] = "passive"
      BY <2>2, ImportLeader
    <3> QED
      BY <3>1
  <2>3. ASSUME NEW k \in Operator, Process(k) PROVE FALSE
    BY <1>1, <2>3 DEF Process, Crash, Restart, FillHeartbeat, Listen, StartService, TypeOK
  <2>4. ASSUME NEW k \in Operator \ {n}, Cycle(k) PROVE FALSE
    BY <1>1, <2>4, CycleMode
  <2>5. ~(UNCHANGED vars)
    BY <1>2 DEF vars, procVars, bootVars
  <2> QED
    BY <1>1, <2>1, <2>2, <2>3, <2>4, <2>5, StepCases
<1>4. pc[n] = "recheck"
  BY <1>1, <1>3, CycleMode DEF At
<1> QED
  BY <1>1, <1>4 DEF PeersHeard, Taking, Peers

\* orchestrator.js:235, in a federation in which nothing fails: no node turns
\* active before every peer of its group has imported the block with which it
\* took the leadership, not even one that reads itself as the leader again
\* after a cycle that stopped half way.
THEOREM PeersHeardBeforeActiveHolds ==
  ASSUME WaitCovers, MaxFailures = 0
  PROVE  Spec => PeersHeardBeforeActive
<1>1. Spec => []CalmInv
  BY CalmAlways
<1>2. Typed /\ CalmInv /\ [Next]_vars =>
        \A n \in Operator :
          mode[n] # "active" /\ mode'[n] = "active" => \A m \in Peers(n) : HeardOf(m, n)
  BY HeardStep
<1> QED
  BY <1>1, <1>2, TypedAlways, PTL DEF Spec, PeersHeardBeforeActive
=============================================================================
