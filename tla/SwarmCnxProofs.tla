--------------------------- MODULE SwarmCnxProofs ---------------------------
(***************************************************************************)
(* Proofs about SwarmCnx, for every number of blocks, every length of the  *)
(* socket's buffer and of a BLOCK_REP, and any number of commands under    *)
(* way.                                                                    *)
(***************************************************************************)
EXTENDS SwarmCnx, NatLemmas, SequenceTheorems

\* What is known of the lengths.
LEMMA CmdFacts ==
    /\ NoBlock \notin Block
    /\ RepLen \in Nat \ {0} /\ XmitbufMaxlen \in Nat /\ RepLen <= XmitbufMaxlen
    /\ \A c \in Cmd : /\ CmdLen(c) \in Nat \ {0} /\ CmdLen(c) <= XmitbufMaxlen
                      /\ c.type \in CmdType
                      /\ c.type # "block_rep" => CmdLen(c) = 1
                      /\ c.type = "block_rep" => CmdLen(c) = RepLen /\ c.block \in Block /\ c = Rep(c.block)
    /\ \A b \in Block : Rep(b) \in Cmd /\ Rep(b).type = "block_rep" /\ Rep(b).block = b
    /\ \A t \in CmdType \ {"block_rep"} : Plain(t) \in Cmd /\ Plain(t).type = t
BY SwarmCnxAssumption DEF Cmd, CmdType, CmdLen, Rep, Plain

\* A function that sums up the lengths gives the total length.
LEMMA TotalLenIs ==
    ASSUME NEW q \in Seq(Cmd), NEW f \in [0 .. Len(q) -> Nat], f[0] = 0,
           \A n \in 1 .. Len(q) : f[n] = f[n - 1] + CmdLen(q[n])
    PROVE  TotalLen(q) = f[Len(q)]
<1> DEFINE P(g) == g = [n \in 0 .. Len(q) |-> IF n = 0 THEN 0 ELSE g[n - 1] + CmdLen(q[n])]
           sum == CHOOSE g : P(g)
           S == {n \in 0 .. Len(q) : sum[n] = f[n]}
<1>1. P(f)
  OBVIOUS
<1>2. P(sum)
  BY <1>1, Zenon
<1>3. TotalLen(q) = sum[Len(q)]
  BY Zenon DEF TotalLen
<1> HIDE DEF sum
<1>4. sum[0] = 0 /\ \A n \in 1 .. Len(q) : sum[n] = sum[n - 1] + CmdLen(q[n])
  BY <1>2
<1>5. 0 \in S
  BY <1>4
<1>6. ASSUME NEW n \in 1 .. Len(q), n - 1 \in S PROVE n \in S
  BY <1>4, <1>6
<1> HIDE DEF S
<1>7. Len(q) \in Nat
  OBVIOUS
<1>8. \A n \in 0 .. Len(q) : n \in S
  BY <1>5, <1>6, <1>7, RangeInduction, Zenon
<1> QED BY <1>3, <1>8, <1>7 DEF S

\* The lengths can be summed up.
LEMMA TotalLenExists ==
    ASSUME NEW q \in Seq(Cmd)
    PROVE  \E f \in [0 .. Len(q) -> Nat] :
              /\ f[0] = 0 /\ \A n \in 1 .. Len(q) : f[n] = f[n - 1] + CmdLen(q[n])
              /\ TotalLen(q) = f[Len(q)]
<1> DEFINE G == [n \in 1 .. Len(q) |-> [d \in Nat |-> d + CmdLen(q[n])]]
<1>1. \A n \in 1 .. Len(q) : CmdLen(q[n]) \in Nat
  BY CmdFacts
<1>2. G \in [1 .. Len(q) -> [Nat -> Nat]] /\ Len(q) \in Nat /\ 0 \in Nat
  BY <1>1
<1>3. \A n \in 1 .. Len(q) : \A d \in Nat : G[n][d] = d + CmdLen(q[n])
  OBVIOUS
<1> HIDE DEF G
<1>a. \E f : IsRecursion(f, Len(q), Nat, 0, G)
  BY <1>2, RecursionExists, Zenon
<1>4. PICK f \in [0 .. Len(q) -> Nat] : f[0] = 0 /\ \A n \in 1 .. Len(q) : f[n] = G[n][f[n - 1]]
  BY <1>a, Zenon DEF IsRecursion
<1>5. ASSUME NEW n \in 1 .. Len(q) PROVE f[n] = f[n - 1] + CmdLen(q[n])
  <2>1. n - 1 \in 0 .. Len(q) /\ f[n - 1] \in Nat
    OBVIOUS
  <2> QED BY <1>3, <1>4, <2>1
<1>6. TotalLen(q) = f[Len(q)]
  BY <1>4, <1>5, TotalLenIs
<1> QED BY <1>4, <1>5, <1>6

\* The total length of a command more, and of some short ones more.
LEMMA TotalLenAppend ==
    ASSUME NEW q \in Seq(Cmd), NEW c \in Cmd
    PROVE  TotalLen(Append(q, c)) = TotalLen(q) + CmdLen(c) /\ TotalLen(q) \in Nat
<1>1. PICK f \in [0 .. Len(q) -> Nat] :
              /\ f[0] = 0 /\ \A n \in 1 .. Len(q) : f[n] = f[n - 1] + CmdLen(q[n])
              /\ TotalLen(q) = f[Len(q)]
  BY TotalLenExists
<1> DEFINE r == Append(q, c)
           N == Len(q)
           g == [n \in 0 .. N + 1 |-> IF n <= N THEN f[n] ELSE f[N] + CmdLen(c)]
<1>2. N \in Nat /\ CmdLen(c) \in Nat
  BY CmdFacts
<1>3. /\ r \in Seq(Cmd) /\ Len(r) = N + 1
      /\ \A n \in 1 .. N : r[n] = q[n]
      /\ r[N + 1] = c
  OBVIOUS
<1>4. f[N] \in Nat /\ \A n \in 1 .. N : f[n] = f[n - 1] + CmdLen(q[n])
  BY <1>1, <1>2
<1> HIDE DEF r, N
<1>5. g \in [0 .. N + 1 -> Nat] /\ g[N + 1] = f[N] + CmdLen(c) /\ \A n \in 0 .. N : g[n] = f[n]
  BY <1>1, <1>2, <1>4 DEF N
<1> HIDE DEF g
<1>6. g[0] = 0
  BY <1>1, <1>2, <1>5
<1>7. ASSUME NEW n \in 1 .. N + 1 PROVE g[n] = g[n - 1] + CmdLen(r[n])
  <2>1. CASE n = N + 1
    BY <2>1, <1>2, <1>3, <1>5
  <2>2. CASE n # N + 1
    <3>1. n \in 1 .. N /\ n - 1 \in 0 .. N /\ n \in 0 .. N
      BY <2>2, <1>2
    <3> QED BY <3>1, <1>3, <1>4, <1>5
  <2> QED BY <2>1, <2>2
<1>8. TotalLen(r) = g[Len(r)]
  BY <1>3, <1>5, <1>6, <1>7, TotalLenIs
<1> QED BY <1>8, <1>1, <1>3, <1>4, <1>5 DEF r, N

LEMMA TotalLenShort ==
    ASSUME NEW q \in Seq(Cmd), NEW s \in Seq(Cmd), \A n \in 1 .. Len(s) : s[n].type # "block_rep"
    PROVE  TotalLen(q \o s) = TotalLen(q) + Len(s) /\ TotalLen(q) \in Nat
<1>1. PICK f \in [0 .. Len(q) -> Nat] :
              /\ f[0] = 0 /\ \A n \in 1 .. Len(q) : f[n] = f[n - 1] + CmdLen(q[n])
              /\ TotalLen(q) = f[Len(q)]
  BY TotalLenExists
<1> DEFINE r == q \o s
           N == Len(q)
           M == Len(s)
           g == [n \in 0 .. N + M |-> IF n <= N THEN f[n] ELSE f[N] + (n - N)]
<1>2. N \in Nat /\ M \in Nat /\ \A n \in 1 .. M : CmdLen(s[n]) = 1
  BY CmdFacts
<1>3. /\ r \in Seq(Cmd) /\ Len(r) = N + M
      /\ \A n \in 1 .. N : r[n] = q[n]
      /\ \A n \in N + 1 .. N + M : r[n] = s[n - N]
  OBVIOUS
<1>4. f[N] \in Nat /\ \A n \in 1 .. N : f[n] = f[n - 1] + CmdLen(q[n])
  BY <1>1, <1>2
<1> HIDE DEF r, N, M
<1>5. /\ g \in [0 .. N + M -> Nat]
      /\ \A n \in 0 .. N : g[n] = f[n]
      /\ \A n \in N + 1 .. N + M : g[n] = f[N] + (n - N)
  <2>1. f \in [0 .. N -> Nat]
    BY DEF N
  <2> QED BY <2>1, <1>2, <1>4
<1>6. g[0] = 0 /\ g[N + M] = f[N] + M
  <2>1. CASE M = 0
    BY <2>1, <1>1, <1>2, <1>4, <1>5
  <2>2. CASE M # 0
    BY <2>2, <1>1, <1>2, <1>4, <1>5
  <2> QED BY <2>1, <2>2
<1> HIDE DEF g
<1>7. ASSUME NEW n \in 1 .. N + M PROVE g[n] = g[n - 1] + CmdLen(r[n])
  <2>1. CASE n > N
    <3>1. CmdLen(r[n]) = 1
      BY <2>1, <1>2, <1>3
    <3>2. n \in N + 1 .. N + M /\ g[n] = f[N] + (n - N)
      BY <2>1, <1>2, <1>5
    <3>3. g[n - 1] = f[N] + ((n - 1) - N)
      <4>1. CASE n = N + 1
        BY <4>1, <1>2, <1>4, <1>5
      <4>2. CASE n # N + 1
        <5>1. n - 1 \in N + 1 .. N + M
          BY <4>2, <3>2, <1>2
        <5> QED BY <5>1, <1>5
      <4> QED BY <4>1, <4>2
    <3> QED BY <3>1, <3>2, <3>3, <1>2, <1>4
  <2>2. CASE n <= N
    <3>1. n \in 1 .. N /\ n - 1 \in 0 .. N /\ n \in 0 .. N
      BY <2>2, <1>2
    <3> QED BY <3>1, <1>3, <1>4, <1>5
  <2> QED BY <2>1, <2>2, <1>2
<1>8. TotalLen(r) = g[Len(r)]
  BY <1>3, <1>5, <1>6, <1>7, TotalLenIs
<1> QED BY <1>8, <1>1, <1>3, <1>4, <1>6 DEF r, N, M

\* What remove_all_block_rep leaves: commands, and no BLOCK_REP.
LEMMA WithoutBlockRepLeaves ==
    ASSUME NEW q \in Seq(Cmd)
    PROVE  /\ WithoutBlockRep(q) \in Seq(Cmd)
           /\ \A n \in 1 .. Len(WithoutBlockRep(q)) : WithoutBlockRep(q)[n].type # "block_rep"
<1> DEFINE D == {s \in Seq(Cmd) : \A n \in 1 .. Len(s) : s[n].type # "block_rep"}
           Step(d, c) == IF c.type = "block_rep" THEN d ELSE Append(d, c)
           G == [n \in 1 .. Len(q) |-> [d \in D |-> Step(d, q[n])]]
           P(g) == g = [n \in 0 .. Len(q) |-> IF n = 0 THEN <<>> ELSE Step(g[n - 1], q[n])]
           keep == CHOOSE g : P(g)
<1>1. ASSUME NEW d \in D, NEW c \in Cmd PROVE Step(d, c) \in D
  <2>1. CASE c.type = "block_rep"
    BY <2>1
  <2>2. CASE c.type # "block_rep"
    <3>1. Append(d, c) \in Seq(Cmd) /\ Len(Append(d, c)) = Len(d) + 1
      OBVIOUS
    <3>2. \A n \in 1 .. Len(d) + 1 : Append(d, c)[n].type # "block_rep"
      BY <2>2
    <3> QED BY <3>1, <3>2, <2>2
  <2> QED BY <2>1, <2>2
<1>2. <<>> \in D /\ Len(q) \in Nat /\ \A n \in 1 .. Len(q) : q[n] \in Cmd
  OBVIOUS
<1> HIDE DEF D
<1>3. G \in [1 .. Len(q) -> [D -> D]] /\ \A n \in 1 .. Len(q) : \A d \in D : G[n][d] = Step(d, q[n])
  BY <1>1, <1>2
<1> HIDE DEF G
<1>a. \E f : IsRecursion(f, Len(q), D, <<>>, G)
  BY <1>2, <1>3, RecursionExists, Zenon
<1>4. PICK f \in [0 .. Len(q) -> D] : f[0] = <<>> /\ \A n \in 1 .. Len(q) : f[n] = G[n][f[n - 1]]
  BY <1>a, Zenon DEF IsRecursion
<1>5. ASSUME NEW n \in 1 .. Len(q) PROVE f[n] = Step(f[n - 1], q[n])
  <2>1. f[n - 1] \in D
    BY <1>2
  <2> QED BY <2>1, <1>3, <1>4
<1>6. WithoutBlockRep(q) = keep[Len(q)]
  BY Zenon DEF WithoutBlockRep
<1> HIDE DEF Step
<1>7. P(f)
  BY <1>4, <1>5
<1>8. P(keep)
  BY <1>7, Zenon
<1> HIDE DEF keep
<1>9. keep[0] = <<>> /\ \A n \in 1 .. Len(q) : keep[n] = Step(keep[n - 1], q[n])
  BY <1>8
<1> DEFINE S == {n \in 0 .. Len(q) : keep[n] \in D}
<1>10. 0 \in S
  BY <1>9, <1>2
<1>11. ASSUME NEW n \in 1 .. Len(q), n - 1 \in S PROVE n \in S
  BY <1>1, <1>2, <1>9, <1>11
<1> HIDE DEF S
<1>12. \A n \in 0 .. Len(q) : n \in S
  BY <1>2, <1>10, <1>11, RangeInduction, Zenon
<1>13. keep[Len(q)] \in D
  BY <1>12, <1>2 DEF S
<1> QED BY <1>6, <1>13 DEF D
-----------------------------------------------------------------------------
LEMMA CmdsAssociative ==
    ASSUME NEW d \in Seq(Cmd), NEW s \in Seq(Cmd), NEW t \in Seq(Cmd)
    PROVE  (d \o s) \o t = d \o (s \o t)
BY ConcatAssociative, SMTT(30)

\* fill_socket_xmitbuf, whatever the queue q, the read rd under way, the bytes used and
\* the commands d given to the socket: it loses and reorders nothing, stays within the
\* buffer, and stops at a command that has a read or a threshold to wait for.
LEMMA FillSocket ==
    ASSUME NEW q \in Seq(Cmd), NEW rd \in Block \cup {NoBlock}, NEW used \in 0 .. XmitbufMaxlen,
           NEW d \in Seq(Cmd), used <= TotalLen(d), tshold \in 0 .. XmitbufMaxlen,
           rd # NoBlock => q # <<>> /\ Head(q) = Rep(rd) /\ used + RepLen <= XmitbufMaxlen,
           FillSocketXmitbuf(q, rd, used, d)
    PROVE  /\ cmd_queue' \in Seq(Cmd) /\ down' \in Seq(Cmd)
           /\ bt_io_read' \in Block \cup {NoBlock}
           /\ usedlen' \in 0 .. XmitbufMaxlen /\ tshold' \in 0 .. XmitbufMaxlen
           /\ usedlen' <= TotalLen(down')
           /\ ReadIsFront' /\ QueueIsDriven'
           /\ Stream' = d \o q
<1> DEFINE fits == {n \in 0 .. Len(q) : /\ used + n <= XmitbufMaxlen
                                        /\ \A k \in 1 .. n : q[k].type # "block_rep"}
           n == CHOOSE m \in fits : \A k \in fits : k <= m
           rest == SubSeq(q, n + 1, Len(q))
           noroom == rest # <<>> /\ XmitbufMaxlen - (used + n) < CmdLen(rest[1])
<1>1. /\ cmd_queue' = rest
      /\ down' = d \o SubSeq(q, 1, n)
      /\ usedlen' = used + n
      /\ tshold' = IF noroom THEN CmdLen(rest[1]) ELSE tshold
      /\ bt_io_read' = IF rest # <<>> /\ ~noroom /\ rd = NoBlock THEN rest[1].block ELSE rd
  BY DEF FillSocketXmitbuf
<1>2. n \in fits /\ \A k \in fits : k <= n
  <2>1. Len(q) \in Nat /\ fits \in SUBSET (0 .. Len(q)) /\ 0 \in fits
    BY SwarmCnxAssumption
  <2> HIDE DEF fits
  <2>2. \E m \in fits : \A k \in fits : k <= m
    BY <2>1, GreatestNat
  <2> QED BY <2>2, Zenon
<1> HIDE DEF n
<1>3. /\ n \in 0 .. Len(q) /\ used + n <= XmitbufMaxlen
      /\ \A k \in 1 .. n : q[k].type # "block_rep"
  BY <1>2
<1>4. n < Len(q) => used + n + 1 > XmitbufMaxlen \/ q[n + 1].type = "block_rep"
  <2> SUFFICES ASSUME n < Len(q), used + n + 1 <= XmitbufMaxlen, q[n + 1].type # "block_rep"
               PROVE  FALSE
    BY <1>3, SwarmCnxAssumption
  <2>1. n + 1 \in fits
    BY <1>3, SwarmCnxAssumption
  <2> HIDE DEF fits
  <2> QED BY <2>1, <1>2, <1>3
<1> HIDE DEF fits
<1>5. /\ rest \in Seq(Cmd) /\ Len(rest) = Len(q) - n
      /\ rest # <<>> <=> n < Len(q)
      /\ n < Len(q) => rest[1] = q[n + 1] /\ Head(rest) = rest[1] /\ rest[1] \in Cmd
      /\ SubSeq(q, 1, n) \in Seq(Cmd) /\ Len(SubSeq(q, 1, n)) = n
      /\ \A k \in 1 .. n : SubSeq(q, 1, n)[k].type # "block_rep"
  <2>1. /\ rest \in Seq(Cmd) /\ Len(rest) = Len(q) - n
        /\ \A i \in 1 .. Len(q) - n : rest[i] = q[n + i]
    BY <1>3
  <2>2. /\ SubSeq(q, 1, n) \in Seq(Cmd) /\ Len(SubSeq(q, 1, n)) = n
        /\ \A k \in 1 .. n : SubSeq(q, 1, n)[k] = q[k]
    BY <1>3
  <2> HIDE DEF rest
  <2>3. rest # <<>> <=> n < Len(q)
    BY <2>1, <1>3
  <2>4. n < Len(q) => rest[1] = q[n + 1] /\ Head(rest) = rest[1] /\ rest[1] \in Cmd
    BY <2>1, <1>3
  <2> QED BY <2>1, <2>2, <2>3, <2>4, <1>3
<1>6. rd # NoBlock => n = 0 /\ rest = q /\ q[1] = Rep(rd) /\ Len(q) > 0
  <2> SUFFICES ASSUME rd # NoBlock PROVE n = 0 /\ rest = q /\ q[1] = Rep(rd) /\ Len(q) > 0
    OBVIOUS
  <2>1. q[1] = Rep(rd) /\ q[1].type = "block_rep" /\ Len(q) > 0
    BY CmdFacts
  <2>2. n = 0
    BY <2>1, <1>3
  <2> QED BY <2>1, <2>2
<1>7. Stream' = d \o q
  <2>1. SubSeq(q, 1, n) \o SubSeq(q, n + 1, Len(q)) = q
    <3>1. 1 \in 1 .. Len(q) + 1 /\ n \in 1 - 1 .. Len(q) /\ Len(q) \in n .. Len(q)
      BY <1>3
    <3>2. SubSeq(q, 1, n) \o SubSeq(q, n + 1, Len(q)) = SubSeq(q, 1, Len(q))
      BY <3>1, ConcatAdjacentSubSeq, Zenon
    <3> QED BY <3>2, SubSeqFull, Zenon
  <2>2. (d \o SubSeq(q, 1, n)) \o SubSeq(q, n + 1, Len(q))
            = d \o (SubSeq(q, 1, n) \o SubSeq(q, n + 1, Len(q)))
    <3>1. SubSeq(q, 1, n) \in Seq(Cmd) /\ SubSeq(q, n + 1, Len(q)) \in Seq(Cmd)
      BY <1>5
    <3> DEFINE s == SubSeq(q, 1, n)
               t == SubSeq(q, n + 1, Len(q))
    <3>2. s \in Seq(Cmd) /\ t \in Seq(Cmd)
      BY <3>1
    <3> HIDE DEF s, t
    <3>3. (d \o s) \o t = d \o (s \o t)
      BY <3>2, CmdsAssociative
    <3> QED BY <3>3 DEF s, t
  <2> QED BY <2>1, <2>2, <1>1 DEF Stream
<1> HIDE DEF rest
<1>8. usedlen' \in 0 .. XmitbufMaxlen /\ usedlen' <= TotalLen(down')
  <2>1. TotalLen(down') = TotalLen(d) + n /\ TotalLen(d) \in Nat
    BY <1>1, <1>5, TotalLenShort
  <2> QED BY <2>1, <1>1, <1>3, SwarmCnxAssumption
<1>9. CASE rest = <<>>
  <2>1. rd = NoBlock
    BY <1>9, <1>5, <1>6
  <2> QED BY <2>1, <1>1, <1>5, <1>7, <1>8, <1>9 DEF ReadIsFront, QueueIsDriven
<1>10. CASE rest # <<>> /\ noroom
  <2>1. rd = NoBlock
    <3> SUFFICES ASSUME rd # NoBlock PROVE FALSE
      OBVIOUS
    <3>1. n = 0 /\ rest[1] = Rep(rd) /\ rd \in Block
      BY <1>6
    <3>2. CmdLen(rest[1]) = RepLen
      BY <3>1, CmdFacts
    <3>3. XmitbufMaxlen - (used + n) < RepLen
      BY <3>2, <1>10
    <3> QED BY <3>1, <3>3, CmdFacts
  <2>2. tshold' = CmdLen(rest[1]) /\ bt_io_read' = NoBlock
    BY <2>1, <1>1, <1>10
  <2>3. tshold' \in 0 .. XmitbufMaxlen /\ XmitbufMaxlen - usedlen' < tshold'
    BY <2>2, <1>1, <1>5, <1>10, CmdFacts
  <2> QED BY <2>2, <2>3, <1>1, <1>5, <1>7, <1>8 DEF ReadIsFront, QueueIsDriven
<1>11. CASE rest # <<>> /\ ~noroom
  <2>1. XmitbufMaxlen - (used + n) >= CmdLen(rest[1]) /\ CmdLen(rest[1]) \in Nat \ {0}
    BY <1>11, <1>5, <1>3, CmdFacts
  <2>2. rest[1].type = "block_rep"
    BY <2>1, <1>11, <1>5, <1>4, <1>3, CmdFacts, SMTT(30)
  <2>3. CmdLen(rest[1]) = RepLen /\ rest[1].block \in Block /\ rest[1] = Rep(rest[1].block)
    BY <2>2, <1>11, <1>5, CmdFacts
  <2>4. bt_io_read' = rest[1].block /\ tshold' = tshold
    <3>1. CASE rd = NoBlock
      BY <3>1, <1>1, <1>11
    <3>2. CASE rd # NoBlock
      <4>1. rest[1] = Rep(rd) /\ rest[1].block = rd
        BY <3>2, <1>6, CmdFacts
      <4> QED BY <4>1, <3>2, <1>1, <1>11
    <3> QED BY <3>1, <3>2
  <2>5. usedlen' + RepLen <= XmitbufMaxlen
    BY <2>1, <2>3, <1>1, <1>3, CmdFacts
  <2>6. cmd_queue' # <<>> /\ Head(cmd_queue') = Rep(bt_io_read') /\ bt_io_read' # NoBlock
    BY <2>3, <2>4, <1>1, <1>5, <1>11, CmdFacts
  <2> QED BY <2>3, <2>4, <2>5, <2>6, <1>1, <1>5, <1>7, <1>8 DEF ReadIsFront, QueueIsDriven
<1> QED BY <1>9, <1>10, <1>11
-----------------------------------------------------------------------------
\* The parts of the invariant that are about the stream st.
Final(st) ==
    \A i, j \in 1 .. Len(st) :
        i < j /\ st[i].type = "unauth_req" /\ st[j].type = "block_rep"
            => \E k \in i .. j : st[k].type = "doauth_req"
Follows(st, a, b) ==
    \A i \in 1 .. Len(st) : st[i].type = a => \E j \in 1 .. Len(st) : i < j /\ st[j].type = b
Occurs(st, c) == \E i \in 1 .. Len(st) : st[i] = c
Silent(st) == \A i \in 1 .. Len(st) : st[i].type \notin {"doauth_req", "unauth_req"}

ReqCmd(b) == [type |-> "block_req", block |-> b]
DelCmd(b) == [type |-> "block_del", block |-> b]

\* The commands st under way to the downloader, with the authorization la of the uploader
\* and oa of the downloader, its requests rq and the commands u it sent: the last word on
\* the authorization is under way or has come, without one the downloader has no request,
\* no BLOCK_REP follows an UNAUTH_REQ, and every request is accounted for.
StreamInv(st, la, oa, rq, u) ==
    /\ ~la => Follows(st, "doauth_req", "unauth_req")
    /\ la => Follows(st, "unauth_req", "doauth_req")
    /\ ~oa => rq = {}
    /\ Final(st)
    /\ Silent(st) => oa = la
    /\ \A b \in rq : Occurs(u, ReqCmd(b)) \/ Occurs(st, Rep(b)) \/ Occurs(st, Plain("unauth_req"))

\* A BLOCK_DEL under way is of an earlier request than the one the downloader waits for,
\* whose BLOCK_REQ follows.
CancelPrecedes(rq, u) ==
    \A b \in rq : \A i \in 1 .. Len(u) :
        u[i] = DelCmd(b) => \E j \in 1 .. Len(u) : i < j /\ u[j] = ReqCmd(b)

\* The queue, the socket and the disk, of TypeOK.
SendqOK ==
    /\ cmd_queue \in Seq(Cmd) /\ down \in Seq(Cmd)
    /\ bt_io_read \in Block \cup {NoBlock}
    /\ usedlen \in 0 .. XmitbufMaxlen /\ tshold \in 0 .. XmitbufMaxlen
    /\ usedlen <= TotalLen(down)

\* The inductive invariant.
IndInv ==
    /\ local_doauth \in BOOLEAN /\ other_doauth \in BOOLEAN
    /\ requests \subseteq Block /\ up \in Seq(UpCmd)
    /\ SendqOK /\ ReadIsFront /\ QueueIsDriven
    /\ StreamInv(Stream, local_doauth, other_doauth, requests, up)
    /\ CancelPrecedes(requests, up)

\* t is s without its element at p.
Removes(s, t, p) ==
    /\ p \in 1 .. Len(s) /\ Len(t) = Len(s) - 1
    /\ \A i \in 1 .. Len(t) : t[i] = IF i < p THEN s[i] ELSE s[i + 1]

\* What a command more does to the stream.
LEMMA StreamAppend ==
    ASSUME NEW s \in Seq(Cmd), NEW c \in Cmd, NEW t, t = Append(s, c)
    PROVE  /\ t \in Seq(Cmd)
           /\ \A x : Occurs(t, x) <=> Occurs(s, x) \/ x = c
           /\ Silent(t) <=> Silent(s) /\ c.type \notin {"doauth_req", "unauth_req"}
           /\ \A a, b \in CmdType : Follows(s, a, b) /\ c.type # a => Follows(t, a, b)
           /\ \A a, b \in CmdType : c.type = b /\ a # b => Follows(t, a, b)
           /\ Final(s) /\ (c.type = "block_rep" => Follows(s, "unauth_req", "doauth_req")) => Final(t)
<1>1. /\ t \in Seq(Cmd) /\ Len(t) = Len(s) + 1 /\ Len(s) \in Nat
      /\ t[Len(s) + 1] = c
      /\ \A i \in 1 .. Len(s) : t[i] = s[i]
  OBVIOUS
<1>2. ASSUME NEW x PROVE Occurs(t, x) <=> Occurs(s, x) \/ x = c
  BY <1>1 DEF Occurs
<1>3. Silent(t) <=> Silent(s) /\ c.type \notin {"doauth_req", "unauth_req"}
  BY <1>1 DEF Silent
<1>4. ASSUME NEW a \in CmdType, NEW b \in CmdType, Follows(s, a, b), c.type # a
      PROVE  Follows(t, a, b)
  <2> SUFFICES ASSUME NEW i \in 1 .. Len(t), t[i].type = a
               PROVE  \E j \in 1 .. Len(t) : i < j /\ t[j].type = b
    BY DEF Follows
  <2>1. i \in 1 .. Len(s) /\ s[i].type = a
    BY <1>1, <1>4
  <2>2. PICK j \in 1 .. Len(s) : i < j /\ s[j].type = b
    BY <2>1, <1>4 DEF Follows
  <2> QED BY <2>2, <1>1
<1>5. ASSUME NEW a \in CmdType, NEW b \in CmdType, c.type = b, a # b
      PROVE  Follows(t, a, b)
  <2> SUFFICES ASSUME NEW i \in 1 .. Len(t), t[i].type = a
               PROVE  \E j \in 1 .. Len(t) : i < j /\ t[j].type = b
    BY DEF Follows
  <2>1. i < Len(s) + 1
    BY <1>1, <1>5
  <2> QED BY <2>1, <1>1, <1>5
<1>6. ASSUME Final(s), c.type = "block_rep" => Follows(s, "unauth_req", "doauth_req")
      PROVE  Final(t)
  <2> SUFFICES ASSUME NEW i \in 1 .. Len(t), NEW j \in 1 .. Len(t),
                      i < j, t[i].type = "unauth_req", t[j].type = "block_rep"
               PROVE  \E k \in i .. j : t[k].type = "doauth_req"
    BY SMTT(30) DEF Final
  <2>1. i \in 1 .. Len(s) /\ s[i].type = "unauth_req"
    BY <1>1
  <2>2. CASE j = Len(s) + 1
    <3>1. PICK k \in 1 .. Len(s) : i < k /\ s[k].type = "doauth_req"
      BY <2>1, <2>2, <1>1, <1>6 DEF Follows
    <3> QED BY <3>1, <2>2, <1>1
  <2>3. CASE j # Len(s) + 1
    <3>1. j \in 1 .. Len(s) /\ s[j].type = "block_rep"
      BY <2>3, <1>1
    <3>2. PICK k \in i .. j : s[k].type = "doauth_req"
      BY <3>1, <2>1, <1>6 DEF Final
    <3> QED BY <3>1, <3>2, <2>1, <1>1
  <2> QED BY <2>2, <2>3
<1> QED BY <1>1, <1>2, <1>3, <1>4, <1>5, <1>6

\* What a command less does: a BLOCK_REP, or the first one.
LEMMA StreamRemove ==
    ASSUME NEW s \in Seq(Cmd), NEW t \in Seq(Cmd), NEW p, Removes(s, t, p),
           p = 1 \/ s[p].type = "block_rep"
    PROVE  /\ \A x : Occurs(s, x) /\ x # s[p] => Occurs(t, x)
           /\ Silent(t) /\ s[p].type \notin {"doauth_req", "unauth_req"} => Silent(s)
           /\ \A a, b \in CmdType \ {"block_rep"} : Follows(s, a, b) => Follows(t, a, b)
           /\ Final(s) => Final(t)
<1>1. /\ p \in 1 .. Len(s) /\ Len(t) = Len(s) - 1 /\ Len(s) \in Nat /\ Len(t) \in Nat
      /\ \A i \in 1 .. Len(t) : i < p => t[i] = s[i]
      /\ \A i \in 1 .. Len(t) : i >= p => t[i] = s[i + 1]
  BY DEF Removes
<1> DEFINE old(i) == IF i < p THEN i ELSE i + 1
           new(j) == IF j < p THEN j ELSE j - 1
<1>2. \A i \in 1 .. Len(t) : old(i) \in 1 .. Len(s) /\ old(i) # p /\ t[i] = s[old(i)]
  BY <1>1, SMTT(30)
<1>3. \A j \in 1 .. Len(s) : j # p => new(j) \in 1 .. Len(t) /\ t[new(j)] = s[j]
  BY <1>1
<1>4. \A i \in 1 .. Len(t), j \in 1 .. Len(s) : j # p /\ old(i) < j => i < new(j)
  BY <1>1
<1>5. \A i \in 1 .. Len(t), j \in 1 .. Len(t) : i < j => old(i) < old(j)
  BY <1>1
<1>6. \A i \in 1 .. Len(t), j \in 1 .. Len(t) : \A k \in old(i) .. old(j) : k # p => new(k) \in i .. j
  BY <1>1
<1> HIDE DEF old, new
<1>7. ASSUME NEW x, Occurs(s, x), x # s[p] PROVE Occurs(t, x)
  <2>1. PICK j \in 1 .. Len(s) : s[j] = x
    BY <1>7 DEF Occurs
  <2>2. j # p
    BY <2>1, <1>7
  <2> QED BY <2>1, <2>2, <1>3 DEF Occurs
<1>8. ASSUME Silent(t), s[p].type \notin {"doauth_req", "unauth_req"} PROVE Silent(s)
  <2> SUFFICES ASSUME NEW j \in 1 .. Len(s) PROVE s[j].type \notin {"doauth_req", "unauth_req"}
    BY DEF Silent
  <2> QED BY <1>3, <1>8 DEF Silent
<1>9. ASSUME NEW a \in CmdType \ {"block_rep"}, NEW b \in CmdType \ {"block_rep"}, Follows(s, a, b)
      PROVE  Follows(t, a, b)
  <2> SUFFICES ASSUME NEW i \in 1 .. Len(t), t[i].type = a
               PROVE  \E j \in 1 .. Len(t) : i < j /\ t[j].type = b
    BY DEF Follows
  <2>1. PICK j \in 1 .. Len(s) : old(i) < j /\ s[j].type = b
    BY <1>2, <1>9 DEF Follows
  <2>2. j # p
    <3>1. CASE p = 1
      BY <3>1, <2>1, <1>2, <1>1
    <3>2. CASE s[p].type = "block_rep"
      BY <3>2, <2>1
    <3> QED BY <3>1, <3>2
  <2> QED BY <2>1, <2>2, <1>3, <1>4
<1>10. ASSUME Final(s) PROVE Final(t)
  <2> SUFFICES ASSUME NEW i \in 1 .. Len(t), NEW j \in 1 .. Len(t),
                      i < j, t[i].type = "unauth_req", t[j].type = "block_rep"
               PROVE  \E k \in i .. j : t[k].type = "doauth_req"
    BY DEF Final
  <2>1. PICK k \in old(i) .. old(j) : s[k].type = "doauth_req"
    BY <1>2, <1>5, <1>10 DEF Final
  <2>2. k \in 1 .. Len(s)
    BY <2>1, <1>2, <1>1
  <2>3. k # p
    <3>1. CASE p = 1
      BY <3>1, <2>1, <1>2, <1>1
    <3>2. CASE s[p].type = "block_rep"
      BY <3>2, <2>1
    <3> QED BY <3>1, <3>2
  <2> QED BY <2>1, <2>2, <2>3, <1>3, <1>6
<1> QED BY <1>7, <1>8, <1>9, <1>10

\* The commands of the downloader, one more and one less.
LEMMA UpAppend ==
    ASSUME NEW u \in Seq(UpCmd), NEW c \in UpCmd, NEW t, t = Append(u, c)
    PROVE  /\ t \in Seq(UpCmd)
           /\ \A x : Occurs(t, x) <=> Occurs(u, x) \/ x = c
           /\ \A rq : CancelPrecedes(rq, u) /\ (\A b \in rq : c # DelCmd(b)) => CancelPrecedes(rq, t)
           /\ \A b \in Block : c = ReqCmd(b) => CancelPrecedes({b}, t)
<1>1. /\ t \in Seq(UpCmd) /\ Len(t) = Len(u) + 1 /\ Len(u) \in Nat
      /\ t[Len(u) + 1] = c
      /\ \A i \in 1 .. Len(u) : t[i] = u[i]
  OBVIOUS
<1>2. ASSUME NEW x PROVE Occurs(t, x) <=> Occurs(u, x) \/ x = c
  BY <1>1 DEF Occurs
<1>3. ASSUME NEW rq, CancelPrecedes(rq, u), \A b \in rq : c # DelCmd(b)
      PROVE  CancelPrecedes(rq, t)
  <2> SUFFICES ASSUME NEW b \in rq, NEW i \in 1 .. Len(t), t[i] = DelCmd(b)
               PROVE  \E j \in 1 .. Len(t) : i < j /\ t[j] = ReqCmd(b)
    BY DEF CancelPrecedes
  <2>1. i \in 1 .. Len(u) /\ u[i] = DelCmd(b)
    BY <1>1, <1>3
  <2>2. PICK j \in 1 .. Len(u) : i < j /\ u[j] = ReqCmd(b)
    BY <2>1, <1>3 DEF CancelPrecedes
  <2> QED BY <2>2, <1>1
<1>4. ASSUME NEW b \in Block, c = ReqCmd(b) PROVE CancelPrecedes({b}, t)
  <2> SUFFICES ASSUME NEW i \in 1 .. Len(t), t[i] = DelCmd(b)
               PROVE  \E j \in 1 .. Len(t) : i < j /\ t[j] = ReqCmd(b)
    BY DEF CancelPrecedes
  <2>1. i < Len(u) + 1
    BY <1>1, <1>4 DEF ReqCmd, DelCmd
  <2> QED BY <2>1, <1>1, <1>4
<1> QED BY <1>1, <1>2, <1>3, <1>4

LEMMA UpTail ==
    ASSUME NEW u \in Seq(UpCmd), u # <<>>, NEW t, t = Tail(u)
    PROVE  /\ t \in Seq(UpCmd) /\ Head(u) \in UpCmd
           /\ \A x : Occurs(u, x) /\ x # Head(u) => Occurs(t, x)
           /\ \A rq : CancelPrecedes(rq, u) => CancelPrecedes(rq, t)
           /\ \A rq : CancelPrecedes(rq, u) => \A b \in rq : Head(u) = DelCmd(b) => Occurs(t, ReqCmd(b))
<1>1. /\ t \in Seq(UpCmd) /\ Len(t) = Len(u) - 1 /\ Len(u) \in Nat \ {0}
      /\ Head(u) = u[1] /\ Head(u) \in UpCmd
      /\ \A i \in 1 .. Len(t) : t[i] = u[i + 1]
  OBVIOUS
<1>2. \A j \in 1 .. Len(u) : j # 1 => j - 1 \in 1 .. Len(t) /\ t[j - 1] = u[j]
  BY <1>1
<1>3. ASSUME NEW x, Occurs(u, x), x # Head(u) PROVE Occurs(t, x)
  BY <1>1, <1>2, <1>3 DEF Occurs
<1>4. ASSUME NEW rq, CancelPrecedes(rq, u) PROVE CancelPrecedes(rq, t)
  <2> SUFFICES ASSUME NEW b \in rq, NEW i \in 1 .. Len(t), t[i] = DelCmd(b)
               PROVE  \E j \in 1 .. Len(t) : i < j /\ t[j] = ReqCmd(b)
    BY DEF CancelPrecedes
  <2>1. i + 1 \in 1 .. Len(u) /\ u[i + 1] = DelCmd(b)
    BY <1>1
  <2>2. PICK j \in 1 .. Len(u) : i + 1 < j /\ u[j] = ReqCmd(b)
    BY <2>1, <1>4 DEF CancelPrecedes
  <2>3. j - 1 \in 1 .. Len(t) /\ t[j - 1] = u[j] /\ i < j - 1
    BY <2>2, <1>2
  <2> QED BY <2>2, <2>3
<1>5. ASSUME NEW rq, CancelPrecedes(rq, u), NEW b \in rq, Head(u) = DelCmd(b)
      PROVE  Occurs(t, ReqCmd(b))
  <2>1. PICK j \in 1 .. Len(u) : 1 < j /\ u[j] = ReqCmd(b)
    BY <1>1, <1>5 DEF CancelPrecedes
  <2> QED BY <2>1, <1>2 DEF Occurs
<1> QED BY <1>1, <1>3, <1>4, <1>5
-----------------------------------------------------------------------------
\* A command queued goes to the end of the stream.
LEMMA QueueCmdStep ==
    ASSUME SendqOK, ReadIsFront, NEW c \in Cmd, QueueCmd(c)
    PROVE  /\ SendqOK' /\ ReadIsFront' /\ QueueIsDriven'
           /\ Stream \in Seq(Cmd) /\ Stream' = Append(Stream, c)
<1> DEFINE q == Append(cmd_queue, c)
<1>1. q \in Seq(Cmd) /\ q # <<>> /\ (cmd_queue # <<>> => Head(q) = Head(cmd_queue))
  BY DEF SendqOK
<1>2. down \o q = Append(down \o cmd_queue, c) /\ down \o cmd_queue \in Seq(Cmd)
  BY DEF SendqOK
<1>3. FillSocketXmitbuf(q, bt_io_read, usedlen, down)
  BY DEF QueueCmd
<1> HIDE DEF q
<1>4. bt_io_read # NoBlock => q # <<>> /\ Head(q) = Rep(bt_io_read) /\ usedlen + RepLen <= XmitbufMaxlen
  BY <1>1 DEF ReadIsFront
<1> QED BY <1>1, <1>2, <1>3, <1>4, FillSocket DEF SendqOK, Stream

\* The first command of the stream is received.
LEMMA ArrivedStep ==
    ASSUME SendqOK, ReadIsFront, QueueIsDriven, NEW t \in CmdType, Arrived(t), UNCHANGED uploader
    PROVE  /\ SendqOK' /\ ReadIsFront' /\ QueueIsDriven'
           /\ Stream \in Seq(Cmd) /\ Stream' \in Seq(Cmd)
           /\ Removes(Stream, Stream', 1)
           /\ Stream[1] = Head(down) /\ Head(down) \in Cmd /\ Head(down).type = t
<1>1. /\ down # <<>> /\ Head(down).type = t /\ down' = Tail(down) /\ usedlen <= TotalLen(Tail(down))
      /\ UNCHANGED <<cmd_queue, bt_io_read, usedlen, tshold>>
  BY DEF Arrived, uploader
<1>2. SendqOK' /\ ReadIsFront' /\ QueueIsDriven'
  <2>1. Tail(down) \in Seq(Cmd)
    BY <1>1 DEF SendqOK
  <2> QED BY <2>1, <1>1 DEF SendqOK, ReadIsFront, QueueIsDriven
<1>3. /\ Stream \in Seq(Cmd) /\ Stream' \in Seq(Cmd)
      /\ Len(Stream) = Len(down) + Len(cmd_queue) /\ Len(Stream') = Len(Stream) - 1
      /\ Len(down) > 0 /\ Stream[1] = Head(down) /\ Head(down) \in Cmd
      /\ \A i \in 1 .. Len(Stream') : Stream'[i] = Stream[i + 1]
  BY <1>1 DEF SendqOK, Stream
<1> QED BY <1>1, <1>2, <1>3 DEF Removes, SendqOK
-----------------------------------------------------------------------------
\* One lemma per action.

LEMMA IndInvUnfold ==
    ASSUME IndInv
    PROVE  /\ local_doauth \in BOOLEAN /\ other_doauth \in BOOLEAN
           /\ requests \subseteq Block /\ up \in Seq(UpCmd)
           /\ SendqOK /\ ReadIsFront /\ QueueIsDriven
           /\ StreamInv(Stream, local_doauth, other_doauth, requests, up)
           /\ CancelPrecedes(requests, up)
BY DEF IndInv

LEMMA SetDoauthReqStep == ASSUME IndInv, SetDoauthReq PROVE IndInv'
<1> USE IndInvUnfold
<1>1. Plain("doauth_req") \in Cmd /\ Plain("doauth_req").type = "doauth_req"
  BY CmdFacts DEF CmdType
<1>2. /\ SendqOK' /\ ReadIsFront' /\ QueueIsDriven'
      /\ Stream \in Seq(Cmd) /\ Stream' = Append(Stream, Plain("doauth_req"))
  BY <1>1, QueueCmdStep DEF SetDoauthReq
<1>3. /\ local_doauth' = TRUE
      /\ other_doauth' = other_doauth /\ requests' = requests /\ up' = up
  BY DEF SetDoauthReq, downloader
<1>4. StreamInv(Stream', TRUE, other_doauth, requests, up)
  <2> DEFINE st == Stream
             nx == Stream'
             c == Plain("doauth_req")
  <2>1. st \in Seq(Cmd) /\ c \in Cmd /\ c.type = "doauth_req" /\ nx = Append(st, c)
    BY <1>1, <1>2
  <2>2. StreamInv(st, local_doauth, other_doauth, requests, up)
    OBVIOUS
  <2> HIDE DEF st, nx, c
  <2>3. /\ \A x : Occurs(nx, x) <=> Occurs(st, x) \/ x = c
        /\ ~Silent(nx)
        /\ Follows(nx, "unauth_req", "doauth_req")
        /\ Final(st) => Final(nx)
    BY <2>1, StreamAppend DEF CmdType
  <2>4. StreamInv(nx, TRUE, other_doauth, requests, up)
    BY <2>2, <2>3 DEF StreamInv
  <2> QED BY <2>4 DEF nx
<1> QED BY <1>2, <1>3, <1>4 DEF IndInv

LEMMA SendOtherStep == ASSUME IndInv, SendOther PROVE IndInv'
<1> USE IndInvUnfold
<1>1. Plain("other") \in Cmd /\ Plain("other").type = "other"
  BY CmdFacts DEF CmdType
<1>2. /\ SendqOK' /\ ReadIsFront' /\ QueueIsDriven'
      /\ Stream \in Seq(Cmd) /\ Stream' = Append(Stream, Plain("other"))
  BY <1>1, QueueCmdStep DEF SendOther
<1>3. local_doauth' = local_doauth /\ other_doauth' = other_doauth /\ requests' = requests /\ up' = up
  BY DEF SendOther, downloader
<1>4. StreamInv(Stream', local_doauth, other_doauth, requests, up)
  <2> DEFINE st == Stream
             nx == Stream'
             c == Plain("other")
  <2>1. st \in Seq(Cmd) /\ c \in Cmd /\ c.type = "other" /\ nx = Append(st, c)
    BY <1>1, <1>2
  <2>2. StreamInv(st, local_doauth, other_doauth, requests, up)
    OBVIOUS
  <2> HIDE DEF st, nx, c
  <2>3. /\ \A x : Occurs(st, x) => Occurs(nx, x)
        /\ Silent(nx) => Silent(st)
        /\ Follows(st, "unauth_req", "doauth_req") => Follows(nx, "unauth_req", "doauth_req")
        /\ Follows(st, "doauth_req", "unauth_req") => Follows(nx, "doauth_req", "unauth_req")
        /\ Final(st) => Final(nx)
    BY <2>1, StreamAppend DEF CmdType
  <2>4. StreamInv(nx, local_doauth, other_doauth, requests, up)
    BY <2>2, <2>3 DEF StreamInv
  <2> QED BY <2>4 DEF nx
<1> QED BY <1>2, <1>3, <1>4 DEF IndInv

LEMMA SetUnauthReqStep == ASSUME IndInv, SetUnauthReq PROVE IndInv'
<1> USE IndInvUnfold
<1> DEFINE w == WithoutBlockRep(cmd_queue)
           c == Plain("unauth_req")
           q == Append(w, c)
           D == Len(down)
<1>1. c \in Cmd /\ c.type = "unauth_req"
  BY CmdFacts DEF CmdType
<1>2. w \in Seq(Cmd) /\ \A n \in 1 .. Len(w) : w[n].type # "block_rep"
  BY WithoutBlockRepLeaves DEF SendqOK
<1>3. /\ local_doauth' = FALSE
      /\ other_doauth' = other_doauth /\ requests' = requests /\ up' = up
      /\ FillSocketXmitbuf(q, NoBlock, usedlen, down)
  BY DEF SetUnauthReq, downloader
<1> HIDE DEF w, c
<1>4. q \in Seq(Cmd) /\ Len(q) = Len(w) + 1 /\ q[Len(q)] = c /\ \A n \in 1 .. Len(q) : q[n].type # "block_rep"
  <2>1. q \in Seq(Cmd) /\ Len(q) = Len(w) + 1 /\ q[Len(w) + 1] = c /\ \A n \in 1 .. Len(w) : q[n] = w[n]
    BY <1>1, <1>2
  <2> HIDE DEF q
  <2> QED BY <2>1, <1>1, <1>2
<1> HIDE DEF q
<1>5. SendqOK' /\ ReadIsFront' /\ QueueIsDriven' /\ Stream' = down \o q
  BY <1>3, <1>4, FillSocket DEF SendqOK
<1>6. StreamInv(Stream', FALSE, other_doauth, requests, up)
  <2> DEFINE st == Stream
             nx == Stream'
  <2>0. D \in Nat /\ Len(q) \in Nat \ {0} /\ down \in Seq(Cmd) /\ nx = down \o q /\ q \in Seq(Cmd)
    BY <1>2, <1>4, <1>5 DEF SendqOK
  <2>1. /\ nx \in Seq(Cmd) /\ Len(nx) = D + Len(q) /\ D \in Nat /\ Len(q) \in Nat \ {0}
        /\ \A i \in 1 .. D : nx[i] = down[i]
        /\ \A i \in D + 1 .. D + Len(q) : nx[i] = q[i - D]
    <3> HIDE DEF nx
    <3> QED BY <2>0
  <2>2. Len(st) >= D /\ \A i \in 1 .. D : st[i] = down[i]
    BY DEF SendqOK, Stream
  <2>3. StreamInv(st, local_doauth, other_doauth, requests, up)
    OBVIOUS
  <2>f. Len(st) \in Nat
    BY DEF SendqOK, Stream
  <2> HIDE DEF st, nx, D
  <2>4. nx[Len(nx)] = c
    BY <2>1, <1>4
  <2>5. Occurs(nx, c) /\ ~Silent(nx)
    BY <2>1, <2>4, <1>1 DEF Occurs, Silent
  <2>6. Follows(nx, "doauth_req", "unauth_req")
    <3> SUFFICES ASSUME NEW i \in 1 .. Len(nx), nx[i].type = "doauth_req"
                 PROVE  \E j \in 1 .. Len(nx) : i < j /\ nx[j].type = "unauth_req"
      BY DEF Follows
    <3>1. i # Len(nx)
      BY <2>4, <1>1
    <3> QED BY <3>1, <2>1, <2>4, <1>1
  <2>7. Final(nx)
    <3> SUFFICES ASSUME NEW i \in 1 .. Len(nx), NEW j \in 1 .. Len(nx),
                        i < j, nx[i].type = "unauth_req", nx[j].type = "block_rep"
                 PROVE  \E k \in i .. j : nx[k].type = "doauth_req"
      BY DEF Final
    <3>1. j \in 1 .. D
      <4> SUFFICES ASSUME j > D PROVE FALSE
        BY <2>1
      <4>1. nx[j] = q[j - D] /\ j - D \in 1 .. Len(q)
        BY <2>1
      <4> QED BY <4>1, <1>4
    <3>2. /\ i \in 1 .. Len(st) /\ j \in 1 .. Len(st) /\ i \in 1 .. D
          /\ st[i] = nx[i] /\ st[j] = nx[j]
      BY <3>1, <2>1, <2>2, <2>f
    <3>3. PICK k \in i .. j : st[k].type = "doauth_req"
      BY <3>2, <2>3 DEF StreamInv, Final
    <3>4. k \in 1 .. D
      BY <3>1, <2>1
    <3> QED BY <3>3, <3>4, <2>1, <2>2
  <2>8. StreamInv(nx, FALSE, other_doauth, requests, up)
    BY <2>3, <2>5, <2>6, <2>7 DEF StreamInv, c
  <2> QED BY <2>8 DEF nx
<1> QED BY <1>3, <1>5, <1>6 DEF IndInv

LEMMA ParseBlockReqStep == ASSUME IndInv, ParseBlockReq PROVE IndInv'
<1> USE IndInvUnfold
<1> DEFINE b0 == Head(up).block
<1>1. /\ up # <<>> /\ Head(up).type = "block_req" /\ up' = Tail(up)
      /\ local_doauth' = local_doauth /\ other_doauth' = other_doauth /\ requests' = requests
  BY DEF ParseBlockReq, downloader
<1>2. /\ up' \in Seq(UpCmd) /\ Head(up) \in UpCmd
      /\ \A x : Occurs(up, x) /\ x # Head(up) => Occurs(up', x)
      /\ CancelPrecedes(requests, up')
  BY <1>1, UpTail
<1>3. b0 \in Block /\ Head(up) = ReqCmd(b0)
  BY <1>1, <1>2 DEF UpCmd, ReqCmd
<1>4. \A b \in Block : Occurs(up, ReqCmd(b)) /\ b # b0 => Occurs(up', ReqCmd(b))
  BY <1>2, <1>3 DEF ReqCmd
<1> HIDE DEF b0
<1>5. CASE local_doauth
  <2>1. Rep(b0) \in Cmd /\ Rep(b0).type = "block_rep"
    BY <1>3, CmdFacts
  <2>2. QueueCmd(Rep(b0))
    BY <1>5 DEF ParseBlockReq, b0
  <2>3. /\ SendqOK' /\ ReadIsFront' /\ QueueIsDriven'
        /\ Stream \in Seq(Cmd) /\ Stream' = Append(Stream, Rep(b0))
    BY <2>1, <2>2, QueueCmdStep
  <2>4. StreamInv(Stream', local_doauth, other_doauth, requests, up')
    <3> DEFINE st == Stream
               nx == Stream'
               c == Rep(b0)
               u == up'
    <3>1. st \in Seq(Cmd) /\ c \in Cmd /\ c.type = "block_rep" /\ nx = Append(st, c)
      BY <2>1, <2>3
    <3>2. /\ StreamInv(st, local_doauth, other_doauth, requests, up)
          /\ \A b \in Block : Occurs(up, ReqCmd(b)) /\ b # b0 => Occurs(u, ReqCmd(b))
      BY <1>4
    <3>3. c = Rep(b0)
      OBVIOUS
    <3> HIDE DEF st, nx, c, u
    <3>4. /\ \A x : Occurs(nx, x) <=> Occurs(st, x) \/ x = c
          /\ Silent(nx) => Silent(st)
          /\ Follows(st, "unauth_req", "doauth_req") => Follows(nx, "unauth_req", "doauth_req")
          /\ Final(st) /\ Follows(st, "unauth_req", "doauth_req") => Final(nx)
      BY <3>1, StreamAppend DEF CmdType
    <3>5. StreamInv(nx, local_doauth, other_doauth, requests, u)
      BY <1>5, <3>2, <3>3, <3>4 DEF StreamInv
    <3> QED BY <3>5 DEF nx, u
  <2> QED BY <2>3, <2>4, <1>1, <1>2 DEF IndInv
<1>6. CASE ~local_doauth
  <2>1. UNCHANGED sendq
    BY <1>6 DEF ParseBlockReq
  <2>2. SendqOK' /\ ReadIsFront' /\ QueueIsDriven' /\ Stream' = Stream
    BY <2>1 DEF sendq, SendqOK, ReadIsFront, QueueIsDriven, Stream
  <2>3. StreamInv(Stream, local_doauth, other_doauth, requests, up')
    <3>1. CASE Silent(Stream)
      BY <3>1, <1>6 DEF StreamInv
    <3>2. CASE ~Silent(Stream)
      <4>1. PICK i \in 1 .. Len(Stream) : Stream[i].type \in {"doauth_req", "unauth_req"}
        BY <3>2 DEF Silent
      <4>2. \E j \in 1 .. Len(Stream) : Stream[j].type = "unauth_req"
        BY <4>1, <1>6 DEF StreamInv, Follows
      <4>3. Stream \in Seq(Cmd)
        BY DEF SendqOK, Stream
      <4>4. \A x \in Cmd : x.type = "unauth_req" => x = Plain("unauth_req")
        BY DEF Cmd, Plain, CmdType
      <4>5. Occurs(Stream, Plain("unauth_req"))
        BY <4>2, <4>3, <4>4 DEF Occurs
      <4> QED BY <4>5 DEF StreamInv
    <3> QED BY <3>1, <3>2
  <2> QED BY <2>2, <2>3, <1>1, <1>2 DEF IndInv
<1> QED BY <1>5, <1>6

\* A command is erased from a queue, and from what is made of it.
LEMMA EraseRemoves ==
    ASSUME NEW q \in Seq(Cmd), NEW n \in 1 .. Len(q), NEW r,
           r = SubSeq(q, 1, n - 1) \o SubSeq(q, n + 1, Len(q))
    PROVE  r \in Seq(Cmd) /\ Removes(q, r, n)
<1> DEFINE x == SubSeq(q, 1, n - 1)
           y == SubSeq(q, n + 1, Len(q))
<1>1. x \in Seq(Cmd) /\ Len(x) = n - 1 /\ \A i \in 1 .. n - 1 : x[i] = q[i]
  OBVIOUS
<1>2. y \in Seq(Cmd) /\ Len(y) = Len(q) - n /\ \A i \in 1 .. Len(q) - n : y[i] = q[n + i]
  OBVIOUS
<1>3. r = x \o y
  OBVIOUS
<1> HIDE DEF x, y
<1>a. Len(q) \in Nat /\ n \in Nat /\ 1 <= n /\ n <= Len(q)
  OBVIOUS
<1>b. /\ x \o y \in Seq(Cmd) /\ Len(x \o y) = Len(x) + Len(y)
      /\ \A i \in 1 .. Len(x) + Len(y) : (x \o y)[i] = IF i <= Len(x) THEN x[i] ELSE y[i - Len(x)]
  BY <1>1, <1>2, ConcatProperties
<1>c. (n - 1) + (Len(q) - n) = Len(q) - 1
  BY <1>a
<1>4. /\ r \in Seq(Cmd) /\ Len(r) = Len(q) - 1
      /\ \A i \in 1 .. Len(q) - 1 : r[i] = IF i <= n - 1 THEN x[i] ELSE y[i - (n - 1)]
  BY <1>1, <1>2, <1>3, <1>b, <1>c
<1>5. ASSUME NEW i \in 1 .. Len(r) PROVE r[i] = IF i < n THEN q[i] ELSE q[i + 1]
  <2>0. i \in 1 .. Len(q) - 1 /\ i \in Nat
    BY <1>4, <1>a
  <2>1. CASE i < n
    <3>1. i \in 1 .. n - 1 /\ i <= n - 1
      BY <2>0, <2>1, <1>a
    <3> QED BY <3>1, <2>0, <2>1, <1>1, <1>4
  <2>2. CASE i >= n
    <3>1. /\ ~(i <= n - 1) /\ ~(i < n) /\ i - (n - 1) \in 1 .. Len(q) - n
          /\ n + (i - (n - 1)) = i + 1
      BY <2>0, <2>2, <1>a
    <3>2. r[i] = y[i - (n - 1)]
      BY <3>1, <2>0, <1>4
    <3> QED BY <3>1, <3>2, <1>2
  <2> QED BY <2>0, <2>1, <2>2, <1>a
<1> QED BY <1>4, <1>5 DEF Removes

LEMMA ConcatRemoves ==
    ASSUME NEW d \in Seq(Cmd), NEW q \in Seq(Cmd), NEW r \in Seq(Cmd), NEW n \in Nat, Removes(q, r, n)
    PROVE  /\ d \o q \in Seq(Cmd) /\ d \o r \in Seq(Cmd)
           /\ Removes(d \o q, d \o r, Len(d) + n) /\ (d \o q)[Len(d) + n] = q[n]
<1> DEFINE st == d \o q
           nx == d \o r
<1>1. n \in 1 .. Len(q) /\ Len(r) = Len(q) - 1 /\ \A i \in 1 .. Len(r) : r[i] = IF i < n THEN q[i] ELSE q[i + 1]
  BY DEF Removes
<1>2. /\ st \in Seq(Cmd) /\ Len(st) = Len(d) + Len(q) /\ Len(d) \in Nat /\ Len(q) \in Nat /\ Len(r) \in Nat
      /\ \A i \in 1 .. Len(d) : st[i] = d[i]
      /\ \A i \in 1 .. Len(q) : st[Len(d) + i] = q[i]
  OBVIOUS
<1>3. /\ nx \in Seq(Cmd) /\ Len(nx) = Len(d) + Len(r)
      /\ \A i \in 1 .. Len(d) : nx[i] = d[i]
      /\ \A i \in 1 .. Len(r) : nx[Len(d) + i] = r[i]
  OBVIOUS
<1> HIDE DEF st, nx
<1>4. Len(d) + n \in 1 .. Len(st) /\ Len(nx) = Len(st) - 1 /\ st[Len(d) + n] = q[n]
  BY <1>1, <1>2, <1>3
<1>5. ASSUME NEW i \in 1 .. Len(nx) PROVE nx[i] = IF i < Len(d) + n THEN st[i] ELSE st[i + 1]
  <2>1. CASE i <= Len(d)
    <3>1. i \in 1 .. Len(d) /\ i < Len(d) + n
      BY <2>1, <1>1, <1>2
    <3> QED BY <3>1, <1>2, <1>3
  <2>2. CASE i > Len(d)
    <3>1. PICK k \in 1 .. Len(r) : i = Len(d) + k /\ i + 1 = Len(d) + (k + 1)
      <4>1. i - Len(d) \in 1 .. Len(r) /\ i = Len(d) + (i - Len(d)) /\ i + 1 = Len(d) + ((i - Len(d)) + 1)
        BY <2>2, <1>2, <1>3
      <4> QED BY <4>1
    <3>2. nx[i] = r[k] /\ r[k] = IF k < n THEN q[k] ELSE q[k + 1]
      BY <3>1, <1>1, <1>3
    <3>3. k < n <=> i < Len(d) + n
      BY <3>1, <1>1, <1>2
    <3>4. k \in 1 .. Len(q) /\ k + 1 \in 1 .. Len(q)
      BY <1>1, <1>2
    <3>5. st[i] = q[k] /\ st[i + 1] = q[k + 1]
      BY <3>1, <3>4, <1>2
    <3> QED BY <3>2, <3>3, <3>5
  <2>3. i \in Nat
    BY <1>2, <1>3
  <2>4. i <= Len(d) \/ i > Len(d)
    BY <2>3, <1>2
  <2> QED BY <2>1, <2>2, <2>4, Zenon
<1>6. st \in Seq(Cmd) /\ nx \in Seq(Cmd) /\ Removes(st, nx, Len(d) + n) /\ st[Len(d) + n] = q[n]
  BY <1>2, <1>3, <1>4, <1>5 DEF Removes
<1> QED BY <1>6 DEF st, nx

\* The first BLOCK_REP for a block is removed from the queue, wherever it is.
LEMMA EraseStep ==
    ASSUME SendqOK, ReadIsFront, NEW b \in Block, FirstRep(b) # 0,
           FillSocketXmitbuf(Erase(FirstRep(b)), IF FirstRep(b) = 1 THEN NoBlock ELSE bt_io_read,
                             usedlen, down)
    PROVE  /\ SendqOK' /\ ReadIsFront' /\ QueueIsDriven'
           /\ Stream \in Seq(Cmd) /\ Stream' \in Seq(Cmd)
           /\ \E p : Removes(Stream, Stream', p) /\ Stream[p] = Rep(b)
<1>1. PICK n \in 1 .. Len(cmd_queue) : n = FirstRep(b) /\ cmd_queue[n] = Rep(b)
  <2> DEFINE at == {m \in DOMAIN cmd_queue : cmd_queue[m] = Rep(b)}
  <2>1. at \in SUBSET Nat /\ at # {} /\ FirstRep(b) = CHOOSE m \in at : \A k \in at : m <= k
    BY DEF FirstRep, SendqOK
  <2>2. \A m \in at : m \in 1 .. Len(cmd_queue) /\ cmd_queue[m] = Rep(b)
    BY DEF SendqOK
  <2> HIDE DEF at
  <2>3. \E m \in at : \A k \in at : m <= k
    BY <2>1, LeastNat
  <2>4. FirstRep(b) \in at
    BY <2>1, <2>3, Zenon
  <2> QED BY <2>2, <2>4
<1>2. PICK q \in Seq(Cmd) : q = cmd_queue
  BY DEF SendqOK
<1>3. PICK r : r = Erase(n) /\ r = SubSeq(q, 1, n - 1) \o SubSeq(q, n + 1, Len(q))
  BY <1>2 DEF Erase
<1>4. n \in 1 .. Len(q) /\ q[n] = Rep(b)
  BY <1>1, <1>2
<1>5. r \in Seq(Cmd) /\ Removes(q, r, n)
  BY <1>3, <1>4, EraseRemoves
<1>6. PICK rd \in Block \cup {NoBlock} :
        rd = (IF n = 1 THEN NoBlock ELSE bt_io_read) /\ FillSocketXmitbuf(r, rd, usedlen, down)
  <2>1. (IF n = 1 THEN NoBlock ELSE bt_io_read) \in Block \cup {NoBlock}
    BY DEF SendqOK
  <2> QED BY <2>1, <1>1, <1>3, Zenon
<1>7. rd # NoBlock => r # <<>> /\ Head(r) = Rep(rd) /\ usedlen + RepLen <= XmitbufMaxlen
  <2> SUFFICES ASSUME rd # NoBlock
               PROVE  r # <<>> /\ Head(r) = Rep(rd) /\ usedlen + RepLen <= XmitbufMaxlen
    OBVIOUS
  <2>1. rd = bt_io_read /\ n # 1
    BY <1>6
  <2>2. q # <<>> /\ Head(q) = Rep(rd) /\ usedlen + RepLen <= XmitbufMaxlen
    BY <2>1, <1>2 DEF ReadIsFront
  <2>3. 1 \in 1 .. Len(r) /\ 1 < n /\ r[1] = q[1]
    BY <2>1, <1>4, <1>5 DEF Removes
  <2> QED BY <2>2, <2>3, <1>5
<1>8. SendqOK' /\ ReadIsFront' /\ QueueIsDriven' /\ Stream' = down \o r
  BY <1>5, <1>6, <1>7, FillSocket DEF SendqOK
<1>9. down \in Seq(Cmd) /\ Stream = down \o q
  BY <1>2 DEF SendqOK, Stream
<1>10. /\ down \o q \in Seq(Cmd) /\ down \o r \in Seq(Cmd)
       /\ Removes(down \o q, down \o r, Len(down) + n) /\ (down \o q)[Len(down) + n] = q[n]
  BY <1>1, <1>2, <1>5, <1>9, ConcatRemoves
<1> QED BY <1>4, <1>8, <1>9, <1>10

LEMMA ParseBlockDelStep == ASSUME IndInv, ParseBlockDel PROVE IndInv'
<1> USE IndInvUnfold
<1> DEFINE b0 == Head(up).block
<1>1. /\ up # <<>> /\ Head(up).type = "block_del" /\ up' = Tail(up) /\ RemoveOneBlockRep(b0)
      /\ local_doauth' = local_doauth /\ other_doauth' = other_doauth /\ requests' = requests
  BY DEF ParseBlockDel, downloader
<1>2. /\ up' \in Seq(UpCmd) /\ Head(up) \in UpCmd
      /\ \A x : Occurs(up, x) /\ x # Head(up) => Occurs(up', x)
      /\ CancelPrecedes(requests, up')
      /\ \A b \in requests : Head(up) = DelCmd(b) => Occurs(up', ReqCmd(b))
  BY <1>1, UpTail
<1>3. b0 \in Block /\ Head(up) = DelCmd(b0)
  BY <1>1, <1>2 DEF UpCmd, DelCmd
<1>4. /\ \A b \in Block : Occurs(up, ReqCmd(b)) => Occurs(up', ReqCmd(b))
      /\ b0 \in requests => Occurs(up', ReqCmd(b0))
  BY <1>2, <1>3 DEF ReqCmd, DelCmd
<1> HIDE DEF b0
<1>5. CASE FirstRep(b0) = 0
  <2>1. UNCHANGED sendq
    BY <1>1, <1>5 DEF RemoveOneBlockRep
  <2>2. SendqOK' /\ ReadIsFront' /\ QueueIsDriven' /\ Stream' = Stream
    BY <2>1 DEF sendq, SendqOK, ReadIsFront, QueueIsDriven, Stream
  <2>3. StreamInv(Stream, local_doauth, other_doauth, requests, up')
    BY <1>4 DEF StreamInv
  <2> QED BY <2>2, <2>3, <1>1, <1>2 DEF IndInv
<1>6. CASE FirstRep(b0) # 0
  <2>1. FillSocketXmitbuf(Erase(FirstRep(b0)), IF FirstRep(b0) = 1 THEN NoBlock ELSE bt_io_read,
                          usedlen, down)
    BY <1>1, <1>6 DEF RemoveOneBlockRep
  <2>2. /\ SendqOK' /\ ReadIsFront' /\ QueueIsDriven'
        /\ Stream \in Seq(Cmd) /\ Stream' \in Seq(Cmd)
        /\ \E p : Removes(Stream, Stream', p) /\ Stream[p] = Rep(b0)
    BY <2>1, <1>3, <1>6, EraseStep
  <2>3. StreamInv(Stream', local_doauth, other_doauth, requests, up')
    <3> DEFINE st == Stream
               nx == Stream'
               u == up'
    <3>1. PICK p : Removes(st, nx, p) /\ st[p] = Rep(b0)
      BY <2>2
    <3>2. /\ StreamInv(st, local_doauth, other_doauth, requests, up)
          /\ \A b \in Block : Occurs(up, ReqCmd(b)) => Occurs(u, ReqCmd(b))
          /\ b0 \in requests => Occurs(u, ReqCmd(b0))
          /\ requests \subseteq Block
          /\ st \in Seq(Cmd) /\ nx \in Seq(Cmd)
      BY <1>4, <2>2
    <3> HIDE DEF st, nx, u
    <3>3. /\ \A x : Occurs(st, x) /\ x # Rep(b0) => Occurs(nx, x)
          /\ Silent(nx) => Silent(st)
          /\ Follows(st, "unauth_req", "doauth_req") => Follows(nx, "unauth_req", "doauth_req")
          /\ Follows(st, "doauth_req", "unauth_req") => Follows(nx, "doauth_req", "unauth_req")
          /\ Final(st) => Final(nx)
      <4>1. st[p].type = "block_rep"
        BY <3>1, <1>3, CmdFacts
      <4> QED BY <4>1, <3>1, <3>2, StreamRemove DEF CmdType
    <3>4. \A b \in Block : Occurs(st, Rep(b)) /\ b # b0 => Occurs(nx, Rep(b))
      BY <3>3 DEF Rep
    <3>5. Occurs(st, Plain("unauth_req")) => Occurs(nx, Plain("unauth_req"))
      BY <3>3 DEF Plain, Rep
    <3>6. StreamInv(nx, local_doauth, other_doauth, requests, u)
      BY <3>2, <3>3, <3>4, <3>5 DEF StreamInv
    <3> QED BY <3>6 DEF nx, u
  <2> QED BY <2>2, <2>3, <1>1, <1>2 DEF IndInv
<1> QED BY <1>5, <1>6

LEMMA IoReadDoneStep == ASSUME IndInv, IoReadDone PROVE IndInv'
<1> USE IndInvUnfold
<1> DEFINE c == Head(cmd_queue)
           q == Tail(cmd_queue)
           d == Append(down, c)
           used == usedlen + CmdLen(c)
<1>1. /\ bt_io_read # NoBlock /\ FillSocketXmitbuf(q, NoBlock, used, d)
      /\ local_doauth' = local_doauth /\ other_doauth' = other_doauth
      /\ requests' = requests /\ up' = up
  BY DEF IoReadDone, downloader
<1>2. /\ cmd_queue # <<>> /\ c = Rep(bt_io_read) /\ bt_io_read \in Block
      /\ usedlen + RepLen <= XmitbufMaxlen
  BY <1>1 DEF ReadIsFront, SendqOK
<1>3. c \in Cmd /\ CmdLen(c) = RepLen /\ RepLen \in Nat
  BY <1>2, CmdFacts
<1>4. q \in Seq(Cmd) /\ d \in Seq(Cmd) /\ d \o q = down \o cmd_queue
  BY <1>2, <1>3, SMTT(30) DEF SendqOK
<1>5. used \in 0 .. XmitbufMaxlen /\ used <= TotalLen(d)
  <2>1. TotalLen(d) = TotalLen(down) + CmdLen(c) /\ TotalLen(down) \in Nat
    BY <1>3, TotalLenAppend DEF SendqOK
  <2> QED BY <2>1, <1>2, <1>3, SwarmCnxAssumption DEF SendqOK
<1> HIDE DEF c, q, d, used
<1>6. SendqOK' /\ ReadIsFront' /\ QueueIsDriven' /\ Stream' = Stream
  BY <1>1, <1>4, <1>5, FillSocket DEF SendqOK, Stream
<1> QED BY <1>1, <1>6 DEF IndInv

LEMMA TransmitStep == ASSUME IndInv, NEW n \in 1 .. XmitbufMaxlen, Transmit(n) PROVE IndInv'
<1> USE IndInvUnfold
<1>1. /\ n <= usedlen
      /\ local_doauth' = local_doauth /\ other_doauth' = other_doauth
      /\ requests' = requests /\ up' = up
  BY DEF Transmit, downloader
<1>t. TotalLen(down) \in Nat
  <2>1. down \in Seq(Cmd) /\ Plain("other") \in Cmd
    BY CmdFacts DEF SendqOK, CmdType
  <2> QED BY <2>1, TotalLenAppend
<1>2. usedlen - n \in 0 .. XmitbufMaxlen /\ usedlen - n <= TotalLen(down)
  BY <1>1, <1>t, SwarmCnxAssumption DEF SendqOK
<1>3. bt_io_read # NoBlock => /\ cmd_queue # <<>> /\ Head(cmd_queue) = Rep(bt_io_read)
                              /\ usedlen - n + RepLen <= XmitbufMaxlen
  BY <1>1, SwarmCnxAssumption DEF ReadIsFront, SendqOK
<1>4. CASE XmitbufMaxlen - usedlen < tshold /\ tshold <= XmitbufMaxlen - (usedlen - n)
  <2>1. FillSocketXmitbuf(cmd_queue, bt_io_read, usedlen - n, down)
    BY <1>4 DEF Transmit
  <2>2. SendqOK' /\ ReadIsFront' /\ QueueIsDriven' /\ Stream' = Stream
    BY <2>1, <1>2, <1>3, FillSocket DEF SendqOK, Stream
  <2> QED BY <2>2, <1>1 DEF IndInv
<1>5. CASE ~(XmitbufMaxlen - usedlen < tshold /\ tshold <= XmitbufMaxlen - (usedlen - n))
  <2>1. usedlen' = usedlen - n /\ UNCHANGED <<cmd_queue, bt_io_read, tshold, down>>
    BY <1>5 DEF Transmit
  <2>2. QueueIsDriven'
    BY <2>1, <1>1, <1>2, <1>5, SwarmCnxAssumption DEF QueueIsDriven, SendqOK
  <2>3. SendqOK' /\ ReadIsFront' /\ Stream' = Stream
    BY <2>1, <1>2, <1>3 DEF SendqOK, Stream, ReadIsFront
  <2> QED BY <2>2, <2>3, <1>1 DEF IndInv
<1> QED BY <1>4, <1>5

LEMMA ParseBlockRepStep == ASSUME IndInv, ParseBlockRep PROVE IndInv'
<1> USE IndInvUnfold
<1> DEFINE b0 == Head(down).block
<1>1. /\ Arrived("block_rep") /\ UNCHANGED uploader
      /\ local_doauth' = local_doauth /\ other_doauth' = other_doauth
      /\ requests' = requests \ {b0} /\ up' = up
  BY DEF ParseBlockRep, uploader
<1>2. /\ SendqOK' /\ ReadIsFront' /\ QueueIsDriven'
      /\ Stream \in Seq(Cmd) /\ Stream' \in Seq(Cmd) /\ Removes(Stream, Stream', 1)
      /\ Stream[1] = Head(down) /\ Head(down) \in Cmd /\ Head(down).type = "block_rep"
  BY <1>1, ArrivedStep DEF CmdType
<1>3. b0 \in Block /\ Head(down) = Rep(b0)
  BY <1>2, CmdFacts
<1> HIDE DEF b0
<1>4. StreamInv(Stream', local_doauth, other_doauth, requests \ {b0}, up)
  <2> DEFINE st == Stream
             nx == Stream'
  <2>1. /\ StreamInv(st, local_doauth, other_doauth, requests, up) /\ requests \subseteq Block
        /\ st \in Seq(Cmd) /\ nx \in Seq(Cmd) /\ Removes(st, nx, 1)
        /\ st[1] = Rep(b0) /\ st[1].type = "block_rep"
    BY <1>2, <1>3
  <2> HIDE DEF st, nx
  <2>2. /\ \A x : Occurs(st, x) /\ x # Rep(b0) => Occurs(nx, x)
        /\ Silent(nx) => Silent(st)
        /\ Follows(st, "unauth_req", "doauth_req") => Follows(nx, "unauth_req", "doauth_req")
        /\ Follows(st, "doauth_req", "unauth_req") => Follows(nx, "doauth_req", "unauth_req")
        /\ Final(st) => Final(nx)
    BY <2>1, StreamRemove DEF CmdType
  <2>3. \A b \in Block : Occurs(st, Rep(b)) /\ b # b0 => Occurs(nx, Rep(b))
    BY <2>2 DEF Rep
  <2>4. Occurs(st, Plain("unauth_req")) => Occurs(nx, Plain("unauth_req"))
    BY <2>2 DEF Plain, Rep
  <2>5. StreamInv(nx, local_doauth, other_doauth, requests \ {b0}, up)
    BY <2>1, <2>2, <2>3, <2>4 DEF StreamInv
  <2> QED BY <2>5 DEF nx
<1>5. CancelPrecedes(requests \ {b0}, up)
  BY DEF CancelPrecedes
<1> QED BY <1>1, <1>2, <1>4, <1>5 DEF IndInv

\* A DOAUTH_REQ that is not followed by an UNAUTH_REQ is the uploader's last word, and the
\* other way round.
LEMMA ParseDoauthReqStep == ASSUME IndInv, ParseDoauthReq PROVE IndInv'
<1> USE IndInvUnfold
<1>1. /\ Arrived("doauth_req") /\ UNCHANGED uploader
      /\ local_doauth' = local_doauth /\ other_doauth' = TRUE
      /\ requests' = requests /\ up' = up
  BY DEF ParseDoauthReq, uploader
<1>2. /\ SendqOK' /\ ReadIsFront' /\ QueueIsDriven'
      /\ Stream \in Seq(Cmd) /\ Stream' \in Seq(Cmd) /\ Removes(Stream, Stream', 1)
      /\ Stream[1].type = "doauth_req"
  BY <1>1, ArrivedStep DEF CmdType
<1>4. StreamInv(Stream', local_doauth, TRUE, requests, up)
  <2> DEFINE st == Stream
             nx == Stream'
  <2>1. /\ StreamInv(st, local_doauth, other_doauth, requests, up)
        /\ st \in Seq(Cmd) /\ nx \in Seq(Cmd) /\ Removes(st, nx, 1)
        /\ st[1].type = "doauth_req"
    BY <1>2
  <2> HIDE DEF st, nx
  <2>2. /\ \A x : Occurs(st, x) /\ x # st[1] => Occurs(nx, x)
        /\ Follows(st, "unauth_req", "doauth_req") => Follows(nx, "unauth_req", "doauth_req")
        /\ Follows(st, "doauth_req", "unauth_req") => Follows(nx, "doauth_req", "unauth_req")
        /\ Final(st) => Final(nx)
    BY <2>1, StreamRemove DEF CmdType
  <2>3. \A b \in requests : Occurs(st, Rep(b)) => Occurs(nx, Rep(b))
    BY <2>1, <2>2 DEF Rep
  <2>4. Occurs(st, Plain("unauth_req")) => Occurs(nx, Plain("unauth_req"))
    BY <2>1, <2>2 DEF Plain
  <2>5. Silent(nx) => local_doauth
    <3> SUFFICES ASSUME ~local_doauth PROVE ~Silent(nx)
      OBVIOUS
    <3>1. 1 \in 1 .. Len(st) /\ Follows(st, "doauth_req", "unauth_req")
      BY <2>1 DEF StreamInv, Removes
    <3>2. PICK j \in 1 .. Len(st) : 1 < j /\ st[j].type = "unauth_req"
      BY <3>1, <2>1 DEF Follows
    <3>3. j - 1 \in 1 .. Len(nx) /\ nx[j - 1] = st[j]
      BY <3>2, <2>1 DEF Removes
    <3> QED BY <3>2, <3>3 DEF Silent
  <2>6. StreamInv(nx, local_doauth, TRUE, requests, up)
    BY <2>1, <2>2, <2>3, <2>4, <2>5 DEF StreamInv
  <2> QED BY <2>6 DEF nx
<1> QED BY <1>1, <1>2, <1>4 DEF IndInv

LEMMA ParseUnauthReqStep == ASSUME IndInv, ParseUnauthReq PROVE IndInv'
<1> USE IndInvUnfold
<1>1. /\ Arrived("unauth_req") /\ UNCHANGED uploader
      /\ local_doauth' = local_doauth /\ other_doauth' = FALSE
      /\ requests' = {} /\ up' = up
  BY DEF ParseUnauthReq, uploader
<1>2. /\ SendqOK' /\ ReadIsFront' /\ QueueIsDriven'
      /\ Stream \in Seq(Cmd) /\ Stream' \in Seq(Cmd) /\ Removes(Stream, Stream', 1)
      /\ Stream[1].type = "unauth_req"
  BY <1>1, ArrivedStep DEF CmdType
<1>4. StreamInv(Stream', local_doauth, FALSE, {}, up)
  <2> DEFINE st == Stream
             nx == Stream'
  <2>1. /\ StreamInv(st, local_doauth, other_doauth, requests, up)
        /\ st \in Seq(Cmd) /\ nx \in Seq(Cmd) /\ Removes(st, nx, 1)
        /\ st[1].type = "unauth_req"
    BY <1>2
  <2> HIDE DEF st, nx
  <2>2. /\ Follows(st, "unauth_req", "doauth_req") => Follows(nx, "unauth_req", "doauth_req")
        /\ Follows(st, "doauth_req", "unauth_req") => Follows(nx, "doauth_req", "unauth_req")
        /\ Final(st) => Final(nx)
    BY <2>1, StreamRemove DEF CmdType
  <2>5. Silent(nx) => ~local_doauth
    <3> SUFFICES ASSUME local_doauth PROVE ~Silent(nx)
      OBVIOUS
    <3>1. 1 \in 1 .. Len(st) /\ Follows(st, "unauth_req", "doauth_req")
      BY <2>1 DEF StreamInv, Removes
    <3>2. PICK j \in 1 .. Len(st) : 1 < j /\ st[j].type = "doauth_req"
      BY <3>1, <2>1 DEF Follows
    <3>3. j - 1 \in 1 .. Len(nx) /\ nx[j - 1] = st[j]
      BY <3>2, <2>1 DEF Removes
    <3> QED BY <3>2, <3>3 DEF Silent
  <2>6. StreamInv(nx, local_doauth, FALSE, {}, up)
    BY <2>1, <2>2, <2>5 DEF StreamInv
  <2> QED BY <2>6 DEF nx
<1>5. CancelPrecedes({}, up)
  BY DEF CancelPrecedes
<1> QED BY <1>1, <1>2, <1>4, <1>5 DEF IndInv

LEMMA ParseOtherStep == ASSUME IndInv, ParseOther PROVE IndInv'
<1> USE IndInvUnfold
<1>1. /\ Arrived("other") /\ UNCHANGED uploader
      /\ local_doauth' = local_doauth /\ other_doauth' = other_doauth
      /\ requests' = requests /\ up' = up
  BY DEF ParseOther, uploader
<1>2. /\ SendqOK' /\ ReadIsFront' /\ QueueIsDriven'
      /\ Stream \in Seq(Cmd) /\ Stream' \in Seq(Cmd) /\ Removes(Stream, Stream', 1)
      /\ Stream[1].type = "other"
  BY <1>1, ArrivedStep DEF CmdType
<1>4. StreamInv(Stream', local_doauth, other_doauth, requests, up)
  <2> DEFINE st == Stream
             nx == Stream'
  <2>1. /\ StreamInv(st, local_doauth, other_doauth, requests, up)
        /\ st \in Seq(Cmd) /\ nx \in Seq(Cmd) /\ Removes(st, nx, 1)
        /\ st[1].type = "other"
    BY <1>2
  <2> HIDE DEF st, nx
  <2>2. /\ \A x : Occurs(st, x) /\ x # st[1] => Occurs(nx, x)
        /\ Silent(nx) => Silent(st)
        /\ Follows(st, "unauth_req", "doauth_req") => Follows(nx, "unauth_req", "doauth_req")
        /\ Follows(st, "doauth_req", "unauth_req") => Follows(nx, "doauth_req", "unauth_req")
        /\ Final(st) => Final(nx)
    BY <2>1, StreamRemove DEF CmdType
  <2>3. \A b \in requests : Occurs(st, Rep(b)) => Occurs(nx, Rep(b))
    BY <2>1, <2>2 DEF Rep
  <2>4. Occurs(st, Plain("unauth_req")) => Occurs(nx, Plain("unauth_req"))
    BY <2>1, <2>2 DEF Plain
  <2>6. StreamInv(nx, local_doauth, other_doauth, requests, up)
    BY <2>1, <2>2, <2>3, <2>4 DEF StreamInv
  <2> QED BY <2>6 DEF nx
<1> QED BY <1>1, <1>2, <1>4 DEF IndInv

\* The downloader's own steps leave the queue and the stream alone.
LEMMA DownloaderStep ==
    ASSUME IndInv, NEW b \in Block, RequestBlock(b) \/ CancelRequest(b) \/ DropRequest(b)
    PROVE  IndInv'
<1> USE IndInvUnfold
<1>1. /\ local_doauth' = local_doauth /\ other_doauth' = other_doauth
      /\ SendqOK' /\ ReadIsFront' /\ QueueIsDriven' /\ Stream' = Stream
  BY DEF RequestBlock, CancelRequest, DropRequest, uploader, SendqOK, ReadIsFront, QueueIsDriven, Stream
<1>2. CASE RequestBlock(b)
  <2>1. other_doauth /\ requests' = requests \cup {b} /\ up' = Append(up, ReqCmd(b)) /\ ReqCmd(b) \in UpCmd
    BY <1>2 DEF RequestBlock, ReqCmd, UpCmd
  <2>2. \A a : ReqCmd(b) # DelCmd(a)
    BY DEF ReqCmd, DelCmd
  <2>3. /\ up' \in Seq(UpCmd) /\ \A x : Occurs(up', x) <=> Occurs(up, x) \/ x = ReqCmd(b)
        /\ CancelPrecedes(requests, up') /\ CancelPrecedes({b}, up')
    BY <2>1, <2>2, UpAppend
  <2>4. CancelPrecedes(requests \cup {b}, up')
    BY <2>3 DEF CancelPrecedes
  <2>5. StreamInv(Stream, local_doauth, other_doauth, requests \cup {b}, up')
    BY <2>1, <2>3 DEF StreamInv
  <2> QED BY <2>1, <2>3, <2>4, <2>5, <1>1 DEF IndInv
<1>3. CASE CancelRequest(b)
  <2>1. requests' = requests \ {b} /\ up' = Append(up, DelCmd(b)) /\ DelCmd(b) \in UpCmd
    BY <1>3 DEF CancelRequest, DelCmd, UpCmd
  <2>2. CancelPrecedes(requests \ {b}, up) /\ \A a \in requests \ {b} : DelCmd(b) # DelCmd(a)
    BY DEF CancelPrecedes, DelCmd
  <2>3. /\ up' \in Seq(UpCmd) /\ \A x : Occurs(up, x) => Occurs(up', x)
        /\ CancelPrecedes(requests \ {b}, up')
    BY <2>1, <2>2, UpAppend
  <2>5. StreamInv(Stream, local_doauth, other_doauth, requests \ {b}, up')
    BY <2>1, <2>3 DEF StreamInv
  <2> QED BY <2>1, <2>3, <2>5, <1>1 DEF IndInv
<1>4. CASE DropRequest(b)
  <2>1. requests' = requests \ {b} /\ up' = up
    BY <1>4 DEF DropRequest
  <2>2. CancelPrecedes(requests \ {b}, up) /\ StreamInv(Stream, local_doauth, other_doauth, requests \ {b}, up)
    BY DEF CancelPrecedes, StreamInv
  <2> QED BY <2>1, <2>2, <1>1 DEF IndInv
<1> QED BY <1>2, <1>3, <1>4
-----------------------------------------------------------------------------
LEMMA IndInvInit == Init => IndInv
<1> SUFFICES ASSUME Init PROVE IndInv
  OBVIOUS
<1>1. Stream = <<>> /\ Len(<<>>) = 0 /\ Stream \in Seq(Cmd)
  BY DEF Init, Stream
<1>2. TotalLen(<<>>) \in Nat
  <2>1. <<>> \in Seq(Cmd) /\ Plain("other") \in Cmd
    BY CmdFacts DEF CmdType
  <2> QED BY <2>1, TotalLenAppend
<1>3. SendqOK /\ ReadIsFront /\ QueueIsDriven
  BY <1>2, SwarmCnxAssumption DEF Init, SendqOK, ReadIsFront, QueueIsDriven
<1>4. StreamInv(<<>>, FALSE, FALSE, {}, <<>>) /\ CancelPrecedes({}, <<>>)
  BY DEF StreamInv, CancelPrecedes, Follows, Final, Silent
<1>5. /\ local_doauth = FALSE /\ other_doauth = FALSE /\ requests = {} /\ up = <<>>
      /\ <<>> \in Seq(UpCmd) /\ requests \subseteq Block
  BY DEF Init
<1>6. StreamInv(Stream, local_doauth, other_doauth, requests, up) /\ CancelPrecedes(requests, up)
  BY <1>1, <1>4, <1>5, Zenon
<1> QED BY <1>3, <1>5, <1>6 DEF IndInv

LEMMA IndInvStutter == ASSUME IndInv, UNCHANGED vars PROVE IndInv'
BY DEF IndInv, vars, SendqOK, ReadIsFront, QueueIsDriven, Stream

\* IndInv holds always: every way a command is queued, read from the disk, sent,
\* cancelled or received preserves it.
THEOREM Invariance == Spec => []IndInv
<1>1. IndInv /\ [Next]_vars => IndInv'
  <2> SUFFICES ASSUME IndInv, [Next]_vars PROVE IndInv'
    OBVIOUS
  <2>1. CASE SetDoauthReq
    BY <2>1, SetDoauthReqStep
  <2>2. CASE SetUnauthReq
    BY <2>2, SetUnauthReqStep
  <2>3. CASE SendOther
    BY <2>3, SendOtherStep
  <2>4. CASE ParseBlockReq
    BY <2>4, ParseBlockReqStep
  <2>5. CASE ParseBlockDel
    BY <2>5, ParseBlockDelStep
  <2>6. CASE IoReadDone
    BY <2>6, IoReadDoneStep
  <2>7. CASE \E n \in 1 .. XmitbufMaxlen : Transmit(n)
    BY <2>7, TransmitStep
  <2>8. CASE \E b \in Block : RequestBlock(b) \/ CancelRequest(b) \/ DropRequest(b)
    BY <2>8, DownloaderStep
  <2>9. CASE ParseBlockRep
    BY <2>9, ParseBlockRepStep
  <2>10. CASE ParseDoauthReq
    BY <2>10, ParseDoauthReqStep
  <2>11. CASE ParseUnauthReq
    BY <2>11, ParseUnauthReqStep
  <2>12. CASE ParseOther
    BY <2>12, ParseOtherStep
  <2>13. CASE UNCHANGED vars
    BY <2>13, IndInvStutter
  <2> QED BY <2>1, <2>2, <2>3, <2>4, <2>5, <2>6, <2>7, <2>8, <2>9, <2>10, <2>11, <2>12, <2>13 DEF Next
<1> QED BY <1>1, IndInvInit, PTL DEF Spec

\* TypeOK of SwarmCnx: fill_socket_xmitbuf never gives the socket more than its buffer
\* takes, and the bytes in the buffer are always of commands not yet received.
THEOREM TypeCorrect == Spec => []TypeOK
<1>1. IndInv => TypeOK
  BY DEF IndInv, SendqOK, TypeOK
<1> QED BY <1>1, Invariance, PTL

\* ReadIsFront: what neoip_bt_io_read_cb asserts when a block comes from the disk, that its
\* command is still in front and the socket has the room, whatever was queued, cancelled
\* or removed meanwhile.
THEOREM ReadMatchesFront == Spec => []ReadIsFront
<1>1. IndInv => ReadIsFront
  BY DEF IndInv
<1> QED BY <1>1, Invariance, PTL

\* QueueIsDriven: the queue never stalls, a read or the crossing of the maysend threshold
\* is always to come.
THEOREM NoStall == Spec => []QueueIsDriven
<1>1. IndInv => QueueIsDriven
  BY DEF IndInv
<1> QED BY <1>1, Invariance, PTL

LEMMA StreamDomain == ASSUME SendqOK PROVE DOMAIN Stream = 1 .. Len(Stream)
BY DEF SendqOK, Stream

\* NoLostRequest: a request the downloader waits for is on its way, or answered, or about
\* to be deleted by an UNAUTH_REQ, although a BLOCK_DEL of an earlier request of the same
\* block may still be under way.
THEOREM RequestsKept == Spec => []NoLostRequest
<1>1. ASSUME IndInv PROVE NoLostRequest
  <2>1. /\ DOMAIN Stream = 1 .. Len(Stream) /\ DOMAIN up = 1 .. Len(up)
        /\ StreamInv(Stream, local_doauth, other_doauth, requests, up)
    BY <1>1, StreamDomain, IndInvUnfold
  <2> QED BY <2>1 DEF StreamInv, Occurs, NoLostRequest, IsIn, ReqCmd
<1> QED BY <1>1, Invariance, PTL

\* UnauthIsFinal: no BLOCK_REP follows an UNAUTH_REQ before the next DOAUTH_REQ, and when
\* neither is under way the two ends agree on the authorization.
THEOREM UnauthFinal == Spec => []UnauthIsFinal
<1>1. ASSUME IndInv PROVE UnauthIsFinal
  <2>1. /\ DOMAIN Stream = 1 .. Len(Stream)
        /\ StreamInv(Stream, local_doauth, other_doauth, requests, up)
    BY <1>1, StreamDomain, IndInvUnfold
  <2>2. Final(Stream) /\ (Silent(Stream) => other_doauth = local_doauth)
    BY <2>1 DEF StreamInv
  <2> QED BY <2>1, <2>2 DEF Final, Silent, UnauthIsFinal
<1> QED BY <1>1, Invariance, PTL
=============================================================================
