------------------------ MODULE PacketFragmenterProofs ------------------------
(***************************************************************************)
(* Machine-checked proofs about PacketFragmenter, for any connection       *)
(* handles, ACL data sizes, packet lengths and numbers of segments.        *)
(*                                                                         *)
(* The bytes of a connection form one stream: what was delivered, the      *)
(* partial packet, the fragments on their way and what is left of the      *)
(* packet under way follow each other without gap or overlap.              *)
(***************************************************************************)
EXTENDS PacketFragmenter, SequenceTheorems, TLAPS

\* What L2CAP sends fits the buffer the other end allocates for it.
Usage == \A l \in L2capLengths : l + L2CAP_HEADER_SIZE <= MaxLength

Flags == {"start", "continuation"}
FragmentType == [flag : Flags, l2cap_length : Nat, data : Seq(Byte)]
PacketType == [handle : Handles, flag : Flags, l2cap_length : Nat, data : Seq(Byte),
               layer_specific : Nat]
PartialType == [len : Nat, data : Seq(Byte)]

-------------------------------------------------------------------------------
(* The stream of one connection: |sub| was submitted, |lk| is on its way,   *)
(* |up| is the packet under way, if any, |dl| was delivered, |pt| is the    *)
(* partial packet, |m| the size of a full fragment.                         *)

\* Where a byte belongs: the number of its packet, and how many bytes of it
\* come before.
Number(b) == b[1][2]
Before(b) == b[2] - 1

\* Data from the middle of a packet, with bytes before and after it.
First(data) == Number(data[1])
Offset(data) == Before(data[1])
IsCut(sub, data) ==
  /\ First(data) \in 1 .. Len(sub) /\ Offset(data) \in Nat /\ Len(data) >= 1
  /\ Offset(data) + Len(data) <= Len(sub[First(data)])
  /\ \A j \in 1 .. Len(data) : data[j] = sub[First(data)][Offset(data) + j]

\* Where the data behind it starts.
Ends(sub, data) == Offset(data) + Len(data) = Len(sub[First(data)])
NextFirst(sub, data) == IF Ends(sub, data) THEN First(data) + 1 ELSE First(data)
NextOffset(sub, data) == IF Ends(sub, data) THEN 0 ELSE Offset(data) + Len(data)

\* The flag tells where a packet starts, and its first fragment how long it is.
HeaderRight(sub, f) ==
  /\ f.flag = IF Offset(f.data) = 0 THEN "start" ELSE "continuation"
  /\ Offset(f.data) = 0 => f.l2cap_length + L2CAP_HEADER_SIZE = Len(sub[First(f.data)])

SubmittedRight(sub) ==
  /\ sub \in Seq(Seq(Byte))
  /\ \A k \in 1 .. Len(sub) :
       /\ Len(sub[k]) \in L2CAP_HEADER_SIZE .. MaxLength
       /\ \A i \in 1 .. Len(sub[k]) : Number(sub[k][i]) = k /\ Before(sub[k][i]) = i - 1

\* The packet under way is the last one submitted, and all the rest of it.
UpRight(sub, up) ==
  /\ up \in Seq(PacketType) /\ Len(up) <= 1
  /\ up # <<>> => /\ IsCut(sub, up[1].data) /\ Ends(sub, up[1].data)
                  /\ First(up[1].data) = Len(sub) /\ HeaderRight(sub, up[1])

UpFirst(sub, up) == IF up = <<>> THEN Len(sub) + 1 ELSE First(up[1].data)
UpOffset(up) == IF up = <<>> THEN 0 ELSE Offset(up[1].data)

LinkRight(sub, lk, up, m) ==
  /\ lk \in Seq(FragmentType)
  /\ \A i \in 1 .. Len(lk) :
       /\ IsCut(sub, lk[i].data) /\ HeaderRight(sub, lk[i]) /\ Len(lk[i].data) <= m
       /\ Offset(lk[i].data) = 0 => Len(lk[i].data) >= L2CAP_HEADER_SIZE
  /\ \A i \in 1 .. Len(lk) - 1 :
       /\ First(lk[i + 1].data) = NextFirst(sub, lk[i].data)
       /\ Offset(lk[i + 1].data) = NextOffset(sub, lk[i].data)
  /\ lk # <<>> => /\ UpFirst(sub, up) = NextFirst(sub, lk[Len(lk)].data)
                  /\ UpOffset(up) = NextOffset(sub, lk[Len(lk)].data)

\* Where the receiving side stands: it gets byte |o| + 1 of packet |k| next.
Received(sub, dl, pt, k, o) ==
  /\ dl \in Seq(Seq(Byte)) /\ pt \in Seq(PartialType)
  /\ Len(dl) = k - 1 /\ \A i \in 1 .. Len(dl) : dl[i] = sub[i]
  /\ o # 0 => /\ Len(pt) = 1
              /\ pt[1].len = Len(sub[k]) /\ Len(pt[1].data) = o
              /\ \A j \in 1 .. o : pt[1].data[j] = sub[k][j]

LinkFirst(sub, lk, up) == IF lk = <<>> THEN UpFirst(sub, up) ELSE First(lk[1].data)
LinkOffset(lk, up) == IF lk = <<>> THEN UpOffset(up) ELSE Offset(lk[1].data)

Stream(sub, lk, up, dl, pt, m) ==
  /\ SubmittedRight(sub) /\ UpRight(sub, up) /\ LinkRight(sub, lk, up, m)
  /\ Received(sub, dl, pt, LinkFirst(sub, lk, up), LinkOffset(lk, up))

-------------------------------------------------------------------------------
(* The state.                                                               *)

\* The packet of a handle that fragment_and_dispatch works on or gave back.
UnderWay(h) == IF tx # Idle /\ tx[1].handle = h THEN tx ELSE held[h]

PartialRight(pt) ==
  /\ Len(pt) <= 1
  /\ pt # <<>> => Len(pt[1].data) < pt[1].len /\ pt[1].len <= MaxLength

SendTypes ==
  /\ tx \in Seq(PacketType) /\ Len(tx) <= 1
  /\ held \in [Handles -> Seq(PacketType)]
  /\ \A h \in Handles : Len(held[h]) <= 1 /\ (held[h] # <<>> => held[h][1].handle = h)
  /\ tx # Idle => held[tx[1].handle] = <<>>

LinkTypes ==
  /\ link \in [Handles -> Seq(FragmentType)]
  /\ partial_packets \in [Handles -> Seq(PartialType)]
  /\ \A h \in Handles : PartialRight(partial_packets[h])
  /\ connections \in 0 .. MaxConnections
  /\ submitted \in [Handles -> Seq(Seq(Byte))]
  /\ delivered \in [Handles -> Seq(Seq(Byte))]

StreamOf(h) ==
  Stream(submitted[h], link[h], UnderWay(h), delivered[h], partial_packets[h], max_data_size[h])

FragmentInv ==
  /\ SendTypes /\ LinkTypes
  /\ \A h \in Handles \ disturbed : StreamOf(h)

-------------------------------------------------------------------------------
(* Sequences.                                                               *)

LEMMA Single ==
  ASSUME NEW S, NEW x \in S
  PROVE  <<x>> \in Seq(S) /\ Len(<<x>>) = 1 /\ <<x>>[1] = x /\ <<x>> # <<>>
  OBVIOUS

LEMMA AtMostOne ==
  ASSUME NEW S, NEW s \in Seq(S), Len(s) <= 1, s # <<>>
  PROVE  Len(s) = 1 /\ s[1] \in S
<1>1. Len(s) \in Nat /\ Len(s) # 0
  BY LenProperties, EmptySeq
<1>2. PICK n \in Nat : n = Len(s) /\ n # 0 /\ n <= 1
  BY <1>1, Zenon
<1>3. n = 1
  BY <1>2
<1> QED
  BY <1>2, <1>3, ElementOfSeq

LEMMA AppendAt ==
  ASSUME NEW S, NEW s \in Seq(S), NEW x \in S
  PROVE  /\ Append(s, x) \in Seq(S) /\ Append(s, x) # <<>> /\ Len(Append(s, x)) = Len(s) + 1
         /\ Append(s, x)[Len(s) + 1] = x /\ \A i \in 1 .. Len(s) : Append(s, x)[i] = s[i]
  BY AppendProperties

LEMMA TailAt ==
  ASSUME NEW S, NEW s \in Seq(S), s # <<>>
  PROVE  /\ Tail(s) \in Seq(S) /\ Len(Tail(s)) = Len(s) - 1 /\ Len(s) >= 1
         /\ Head(s) = s[1] /\ s[1] \in S
         /\ \A i \in 1 .. Len(s) - 1 : Tail(s)[i] = s[i + 1]
<1>1. Len(s) \in Nat /\ Len(s) # 0
  BY LenProperties, EmptySeq
<1>2. /\ Tail(s) \in Seq(S) /\ Len(Tail(s)) = Len(s) - 1
      /\ \A i \in 1 .. Len(Tail(s)) : Tail(s)[i] = s[i + 1]
  BY HeadTailProperties, Zenon
<1>3. Len(s) >= 1 /\ s[1] \in S
  BY <1>1, ElementOfSeq
<1>4. Head(s) = s[1]
  OBVIOUS
<1> QED
  BY <1>2, <1>3, <1>4

\* The part of |s| from |a| + 1 to |b|.
LEMMA Part ==
  ASSUME NEW S, NEW s \in Seq(S), NEW a \in Nat, NEW b \in Nat, a <= b, b <= Len(s)
  PROVE  /\ SubSeq(s, a + 1, b) \in Seq(S) /\ Len(SubSeq(s, a + 1, b)) = b - a
         /\ \A j \in 1 .. b - a : SubSeq(s, a + 1, b)[j] = s[a + j]
<1>1. Len(s) \in Nat
  BY LenProperties
<1>2. \A i \in a + 1 .. b : s[i] \in S
  BY <1>1, ElementOfSeq
<1>3. PICK c : c = a + 1
  OBVIOUS
<1>4. /\ SubSeq(s, c, b) \in Seq(S)
      /\ Len(SubSeq(s, c, b)) = IF c <= b THEN b - c + 1 ELSE 0
      /\ \A i \in 1 .. b - c + 1 : SubSeq(s, c, b)[i] = s[c + i - 1]
  BY <1>1, <1>3, SubSeqProperties, SMTT(30)
<1> QED
  BY <1>3, <1>4, SMTT(30)

-------------------------------------------------------------------------------
(* Pieces of packets.                                                       *)

\* Data whose bytes are those of packet |k| behind the first |o|.
LEMMA CutAt ==
  ASSUME NEW sub, SubmittedRight(sub), NEW data \in Seq(Byte), NEW k \in 1 .. Len(sub),
         NEW o \in Nat, Len(data) >= 1, o + Len(data) <= Len(sub[k]),
         \A j \in 1 .. Len(data) : data[j] = sub[k][o + j]
  PROVE  First(data) = k /\ Offset(data) = o /\ IsCut(sub, data)
<1>1. Len(data) \in Nat /\ Len(sub[k]) \in Nat
  BY LenProperties, FragmentAssumption DEF SubmittedRight
<1>2. data[1] = sub[k][o + 1] /\ o + 1 \in 1 .. Len(sub[k])
  BY <1>1
<1>3. Number(data[1]) = k /\ Before(data[1]) = o
  <2>1. \A i \in 1 .. Len(sub[k]) : Number(sub[k][i]) = k /\ Before(sub[k][i]) = i - 1
    BY Zenon DEF SubmittedRight
  <2>2. PICK i \in 1 .. Len(sub[k]) : i = o + 1
    BY <1>2, Zenon
  <2>3. Number(data[1]) = k /\ Before(data[1]) = i - 1
    BY <1>2, <2>1, <2>2, Zenon
  <2> QED
    BY <2>2, <2>3
<1>4. First(data) = k /\ Offset(data) = o
  BY <1>3, Zenon DEF First, Offset
<1> QED
  BY <1>4, Zenon DEF IsCut

\* A piece stays one when another packet is submitted.
LEMMA CutStays ==
  ASSUME NEW sub \in Seq(Seq(Byte)), NEW new \in Seq(Byte), NEW data, IsCut(sub, data)
  PROVE  /\ IsCut(Append(sub, new), data)
         /\ Append(sub, new)[First(data)] = sub[First(data)]
         /\ Ends(Append(sub, new), data) <=> Ends(sub, data)
         /\ NextFirst(Append(sub, new), data) = NextFirst(sub, data)
         /\ NextOffset(Append(sub, new), data) = NextOffset(sub, data)
<1>1. Len(sub) \in Nat
  BY LenProperties
<1>2. PICK k : k = First(data)
  OBVIOUS
<1>3. k \in 1 .. Len(sub)
  BY <1>2, Zenon DEF IsCut
<1>4. /\ Append(sub, new)[k] = sub[k] /\ Len(Append(sub, new)) = Len(sub) + 1
  BY <1>3, AppendAt, SMTT(30)
<1>5. k \in 1 .. Len(Append(sub, new))
  BY <1>1, <1>3, <1>4
<1>6. IsCut(Append(sub, new), data)
  BY <1>2, <1>4, <1>5, Zenon DEF IsCut
<1>7. Ends(Append(sub, new), data) <=> Ends(sub, data)
  BY <1>2, <1>4, Zenon DEF Ends
<1> QED
  BY <1>2, <1>4, <1>6, <1>7, Zenon DEF NextFirst, NextOffset

LEMMA HeaderStays ==
  ASSUME NEW sub \in Seq(Seq(Byte)), NEW new \in Seq(Byte), NEW f, IsCut(sub, f.data),
         HeaderRight(sub, f)
  PROVE  HeaderRight(Append(sub, new), f)
  BY CutStays, Zenon DEF HeaderRight

\* Between two pieces there is a next one, in the same packet or the one behind.
LEMMA NextIsNat ==
  ASSUME NEW sub \in Seq(Seq(Byte)), NEW data \in Seq(Byte), IsCut(sub, data)
  PROVE  /\ NextFirst(sub, data) \in 1 .. Len(sub) + 1 /\ NextOffset(sub, data) \in Nat
         /\ First(data) \in Nat /\ Offset(data) \in Nat /\ Len(data) \in Nat
         /\ Len(sub) \in Nat /\ Len(sub[First(data)]) \in Nat
<1>1. Len(data) \in Nat /\ Len(sub) \in Nat
  BY LenProperties
<1>2. First(data) \in 1 .. Len(sub) /\ Offset(data) \in Nat
  BY Zenon DEF IsCut
<1>3. Len(sub[First(data)]) \in Nat
  BY <1>2, ElementOfSeq, LenProperties
<1> QED
  BY <1>1, <1>2, <1>3, SMTT(30) DEF NextFirst, NextOffset

-------------------------------------------------------------------------------
(* Fragments on their way.                                                  *)

\* |f| is the next piece of the packet under way, and |next| what is left of it.
IsNext(sub, lk, up, f, next, m) ==
  /\ LinkRight(sub, lk, up, m)
  /\ f \in FragmentType /\ IsCut(sub, f.data) /\ HeaderRight(sub, f) /\ Len(f.data) <= m
  /\ Offset(f.data) = 0 => Len(f.data) >= L2CAP_HEADER_SIZE
  /\ First(f.data) = UpFirst(sub, up) /\ Offset(f.data) = UpOffset(up)
  /\ UpFirst(sub, next) = NextFirst(sub, f.data) /\ UpOffset(next) = NextOffset(sub, f.data)

\* The next piece of the packet under way is put behind the others.
LEMMA LinkAppended ==
  ASSUME NEW sub, NEW lk, NEW up, NEW f, NEW next, NEW m,
         IsNext(sub, lk, up, f, next, m)
  PROVE  /\ LinkRight(sub, Append(lk, f), next, m)
         /\ LinkFirst(sub, Append(lk, f), next) = LinkFirst(sub, lk, up)
         /\ LinkOffset(Append(lk, f), next) = LinkOffset(lk, up)
<1>0. /\ LinkRight(sub, lk, up, m)
      /\ f \in FragmentType /\ IsCut(sub, f.data) /\ HeaderRight(sub, f) /\ Len(f.data) <= m
      /\ Offset(f.data) = 0 => Len(f.data) >= L2CAP_HEADER_SIZE
      /\ First(f.data) = UpFirst(sub, up) /\ Offset(f.data) = UpOffset(up)
      /\ UpFirst(sub, next) = NextFirst(sub, f.data) /\ UpOffset(next) = NextOffset(sub, f.data)
  BY Zenon DEF IsNext
<1>1. lk \in Seq(FragmentType) /\ Len(lk) \in Nat
  BY <1>0, LenProperties DEF LinkRight
<1>2. PICK l \in Seq(FragmentType) :
        /\ l = Append(lk, f) /\ l # <<>> /\ Len(l) = Len(lk) + 1 /\ l[Len(lk) + 1] = f
        /\ \A i \in 1 .. Len(lk) : l[i] = lk[i]
  <2>1. /\ Append(lk, f) \in Seq(FragmentType) /\ Append(lk, f) # <<>>
        /\ Len(Append(lk, f)) = Len(lk) + 1 /\ Append(lk, f)[Len(lk) + 1] = f
        /\ \A i \in 1 .. Len(lk) : Append(lk, f)[i] = lk[i]
    BY <1>0, <1>1, AppendAt, SMTT(30)
  <2> QED
    BY <2>1, Zenon
<1>3. PICK n \in Nat : n = Len(lk)
  BY <1>1, Zenon
<1>4. /\ Len(l) = n + 1 /\ l[n + 1] = f /\ \A i \in 1 .. n : l[i] = lk[i]
  BY <1>2, <1>3, Zenon
<1>5. lk = <<>> <=> n = 0
  BY <1>1, <1>3, EmptySeq
<1>6. \A i \in 1 .. n + 1 :
        /\ IsCut(sub, l[i].data) /\ HeaderRight(sub, l[i]) /\ Len(l[i].data) <= m
        /\ Offset(l[i].data) = 0 => Len(l[i].data) >= L2CAP_HEADER_SIZE
  <2> SUFFICES ASSUME NEW i \in 1 .. n + 1
               PROVE  /\ IsCut(sub, l[i].data) /\ HeaderRight(sub, l[i]) /\ Len(l[i].data) <= m
                      /\ Offset(l[i].data) = 0 => Len(l[i].data) >= L2CAP_HEADER_SIZE
    BY Zenon
  <2>1. CASE i = n + 1
    BY <1>0, <1>4, <2>1, Zenon
  <2>2. CASE i # n + 1
    <3>1. i \in 1 .. n
      BY <2>2
    <3> QED
      BY <1>0, <1>3, <1>4, <3>1, Zenon DEF LinkRight
  <2> QED
    BY <2>1, <2>2, Zenon
<1>7. \A i \in 1 .. n :
        /\ First(l[i + 1].data) = NextFirst(sub, l[i].data)
        /\ Offset(l[i + 1].data) = NextOffset(sub, l[i].data)
  <2> SUFFICES ASSUME NEW i \in 1 .. n
               PROVE  /\ First(l[i + 1].data) = NextFirst(sub, l[i].data)
                      /\ Offset(l[i + 1].data) = NextOffset(sub, l[i].data)
    BY Zenon
  <2>1. CASE i = n
    <3>1. lk # <<>> /\ l[i] = lk[Len(lk)] /\ l[i + 1] = f
      BY <1>3, <1>4, <1>5, <2>1
    <3> QED
      BY <1>0, <3>1, Zenon DEF LinkRight
  <2>2. CASE i # n
    <3>1. i \in 1 .. n - 1 /\ i + 1 \in 1 .. n
      BY <2>2
    <3>2. i \in 1 .. Len(lk) - 1 /\ l[i + 1] = lk[i + 1] /\ l[i] = lk[i]
      BY <1>3, <1>4, <3>1, Zenon
    <3> QED
      BY <1>0, <3>2, Zenon DEF LinkRight
  <2> QED
    BY <2>1, <2>2, Zenon
<1>8. LinkRight(sub, l, next, m)
  <2>1. l[Len(l)] = f /\ Len(l) - 1 = n
    BY <1>4
  <2> QED
    BY <1>0, <1>2, <1>4, <1>6, <1>7, <2>1, Zenon DEF LinkRight
<1>9. l[1] = IF lk = <<>> THEN f ELSE lk[1]
  BY <1>4, <1>5
<1>10. /\ LinkFirst(sub, l, next) = LinkFirst(sub, lk, up)
       /\ LinkOffset(l, next) = LinkOffset(lk, up)
  BY <1>0, <1>2, <1>9, Zenon DEF LinkFirst, LinkOffset
<1> QED
  BY <1>2, <1>8, <1>10, Zenon

\* The first fragment is taken off: the next one starts where it ended.
LEMMA LinkTaken ==
  ASSUME NEW sub, NEW lk, NEW up, NEW m, LinkRight(sub, lk, up, m), lk # <<>>
  PROVE  /\ Head(lk) = lk[1] /\ lk[1] \in FragmentType
         /\ IsCut(sub, lk[1].data) /\ HeaderRight(sub, lk[1])
         /\ Offset(lk[1].data) = 0 => Len(lk[1].data) >= L2CAP_HEADER_SIZE
         /\ LinkRight(sub, Tail(lk), up, m)
         /\ LinkFirst(sub, Tail(lk), up) = NextFirst(sub, lk[1].data)
         /\ LinkOffset(Tail(lk), up) = NextOffset(sub, lk[1].data)
<1>1. lk \in Seq(FragmentType) /\ Len(lk) \in Nat
  BY LenProperties DEF LinkRight
<1>2. PICK l \in Seq(FragmentType) :
        /\ l = Tail(lk) /\ Len(l) = Len(lk) - 1 /\ Len(lk) >= 1
        /\ Head(lk) = lk[1] /\ lk[1] \in FragmentType
        /\ \A i \in 1 .. Len(lk) - 1 : l[i] = lk[i + 1]
  <2>1. /\ Tail(lk) \in Seq(FragmentType) /\ Len(Tail(lk)) = Len(lk) - 1 /\ Len(lk) >= 1
        /\ Head(lk) = lk[1] /\ lk[1] \in FragmentType
        /\ \A i \in 1 .. Len(lk) - 1 : Tail(lk)[i] = lk[i + 1]
    BY <1>1, TailAt, SMTT(30)
  <2> QED
    BY <2>1, Zenon
<1>3. PICK n \in Nat : n = Len(lk) - 1 /\ Len(lk) = n + 1 /\ 1 \in 1 .. Len(lk)
  <2>1. PICK k \in Nat : k = Len(lk) /\ k >= 1
    BY <1>1, <1>2, Zenon
  <2>2. k - 1 \in Nat /\ k = (k - 1) + 1 /\ 1 \in 1 .. k
    BY <2>1
  <2> QED
    BY <2>1, <2>2, Zenon
<1>4. Len(l) = n /\ (l = <<>> <=> n = 0) /\ \A i \in 1 .. n : l[i] = lk[i + 1]
  BY <1>2, <1>3, EmptySeq, Zenon
<1>5. \A i \in 1 .. n :
        /\ IsCut(sub, l[i].data) /\ HeaderRight(sub, l[i]) /\ Len(l[i].data) <= m
        /\ Offset(l[i].data) = 0 => Len(l[i].data) >= L2CAP_HEADER_SIZE
  <2> SUFFICES ASSUME NEW i \in 1 .. n
               PROVE  /\ IsCut(sub, l[i].data) /\ HeaderRight(sub, l[i]) /\ Len(l[i].data) <= m
                      /\ Offset(l[i].data) = 0 => Len(l[i].data) >= L2CAP_HEADER_SIZE
    BY Zenon
  <2>1. i + 1 \in 1 .. Len(lk) /\ l[i] = lk[i + 1]
    BY <1>3, <1>4
  <2> QED
    BY <2>1, Zenon DEF LinkRight
<1>6. \A i \in 1 .. n - 1 :
        /\ First(l[i + 1].data) = NextFirst(sub, l[i].data)
        /\ Offset(l[i + 1].data) = NextOffset(sub, l[i].data)
  <2> SUFFICES ASSUME NEW i \in 1 .. n - 1
               PROVE  /\ First(l[i + 1].data) = NextFirst(sub, l[i].data)
                      /\ Offset(l[i + 1].data) = NextOffset(sub, l[i].data)
    BY Zenon
  <2>1. PICK j \in 1 .. Len(lk) - 1 : j = i + 1
    BY <1>3
  <2>2. l[i] = lk[j] /\ l[i + 1] = lk[j + 1]
    BY <1>4, <2>1
  <2> QED
    BY <2>2, Zenon DEF LinkRight
<1>7. l # <<>> => l[Len(l)] = lk[Len(lk)] /\ l[1] = lk[2] /\ 1 \in 1 .. Len(lk) - 1
  <2>1. l # <<>> => n \in 1 .. n /\ 1 \in 1 .. n /\ 1 + 1 = 2
    BY <1>4
  <2> QED
    BY <1>3, <1>4, <2>1, Zenon
<1>8. l = <<>> => lk[Len(lk)] = lk[1]
  <2>1. n = 0 => n + 1 = 1
    OBVIOUS
  <2> QED
    BY <1>3, <1>4, <2>1, Zenon
<1>9. LinkRight(sub, l, up, m)
  BY <1>4, <1>5, <1>6, <1>7, Zenon DEF LinkRight
<1>10. /\ LinkFirst(sub, l, up) = NextFirst(sub, lk[1].data)
       /\ LinkOffset(l, up) = NextOffset(sub, lk[1].data)
  <2>1. CASE l = <<>>
    BY <1>8, <2>1, Zenon DEF LinkRight, LinkFirst, LinkOffset
  <2>2. CASE l # <<>>
    <3>1. /\ First(lk[1 + 1].data) = NextFirst(sub, lk[1].data)
          /\ Offset(lk[1 + 1].data) = NextOffset(sub, lk[1].data)
      BY <1>7, <2>2, Zenon DEF LinkRight
    <3>2. l[1] = lk[1 + 1]
      BY <1>7, <2>2
    <3> QED
      BY <2>2, <3>1, <3>2, Zenon DEF LinkFirst, LinkOffset
  <2> QED
    BY <2>1, <2>2, Zenon
<1>11. /\ IsCut(sub, lk[1].data) /\ HeaderRight(sub, lk[1])
       /\ Offset(lk[1].data) = 0 => Len(lk[1].data) >= L2CAP_HEADER_SIZE
  BY <1>3, Zenon DEF LinkRight
<1> QED
  BY <1>2, <1>9, <1>10, <1>11, Zenon

-------------------------------------------------------------------------------
(* Receiving.                                                               *)

\* The whole packet |k| has come: it is delivered behind the others.
LEMMA ReceivedWhole ==
  ASSUME NEW sub, SubmittedRight(sub), NEW dl, NEW pt, NEW k \in 1 .. Len(sub), NEW o,
         Received(sub, dl, pt, k, o), NEW data \in Seq(Byte), Len(data) = Len(sub[k]),
         \A j \in 1 .. Len(data) : data[j] = sub[k][j]
  PROVE  Received(sub, dl \o <<data>>, <<>>, k + 1, 0)
<1>1. sub[k] \in Seq(Byte) /\ dl \in Seq(Seq(Byte)) /\ Len(dl) \in Nat /\ Len(sub) \in Nat
  BY ElementOfSeq, LenProperties DEF SubmittedRight, Received
<1>2. data = sub[k]
  BY <1>1, SeqEqual, Zenon
<1>3. dl \o <<data>> = Append(dl, data)
  BY <1>1, AppendIsConcat
<1>4. PICK d \in Seq(Seq(Byte)) :
        /\ d = dl \o <<data>> /\ Len(d) = Len(dl) + 1 /\ d[Len(dl) + 1] = data
        /\ \A i \in 1 .. Len(dl) : d[i] = dl[i]
  <2>1. /\ Append(dl, data) \in Seq(Seq(Byte)) /\ Len(Append(dl, data)) = Len(dl) + 1
        /\ Append(dl, data)[Len(dl) + 1] = data
        /\ \A i \in 1 .. Len(dl) : Append(dl, data)[i] = dl[i]
    BY <1>1, AppendAt, SMTT(30)
  <2> QED
    BY <1>3, <2>1, Zenon
<1>5. Len(dl) = k - 1 /\ \A i \in 1 .. Len(dl) : dl[i] = sub[i]
  BY Zenon DEF Received
<1>6. Len(d) = k /\ (k + 1) - 1 = k /\ Len(dl) + 1 = k
  BY <1>4, <1>5
<1>7. \A i \in 1 .. k : d[i] = sub[i]
  <2> SUFFICES ASSUME NEW i \in 1 .. k
               PROVE  d[i] = sub[i]
    BY Zenon
  <2>1. i = k \/ i \in 1 .. Len(dl)
    BY <1>5
  <2> QED
    BY <1>2, <1>4, <1>5, <1>6, <2>1, Zenon
<1>8. <<>> \in Seq(PartialType)
  BY EmptySeq, Zenon
<1> QED
  BY <1>4, <1>6, <1>7, <1>8, Zenon DEF Received

\* The first |n| bytes of packet |k| have come, and are kept.
LEMMA ReceivedPart ==
  ASSUME NEW sub, NEW dl, NEW pt, NEW k, NEW o, Received(sub, dl, pt, k, o),
         NEW p \in PartialType, NEW n, p.len = Len(sub[k]), Len(p.data) = n,
         \A j \in 1 .. n : p.data[j] = sub[k][j]
  PROVE  Received(sub, dl \o <<>>, <<p>>, k, n)
<1>1. dl \in Seq(Seq(Byte)) /\ Len(dl) = k - 1 /\ \A i \in 1 .. Len(dl) : dl[i] = sub[i]
  BY Zenon DEF Received
<1>2. dl \o <<>> = dl
  BY <1>1, ConcatEmptySeq
<1>3. <<p>> \in Seq(PartialType) /\ Len(<<p>>) = 1 /\ <<p>>[1] = p
  BY Single, Zenon
<1> QED
  BY <1>1, <1>2, <1>3, Zenon DEF Received

LEMMA StartReceived ==
  ASSUME NEW sub, SubmittedRight(sub), NEW f \in FragmentType, IsCut(sub, f.data),
         HeaderRight(sub, f), Offset(f.data) = 0, Len(f.data) >= L2CAP_HEADER_SIZE,
         NEW dl, NEW pt, Received(sub, dl, pt, First(f.data), 0)
  PROVE  Received(sub, dl \o reassemble_start(pt, f).packets, reassemble_start(pt, f).partial,
                  NextFirst(sub, f.data), NextOffset(sub, f.data))
<1>1. PICK k \in 1 .. Len(sub) : k = First(f.data)
  BY Zenon DEF IsCut
<1>2. PICK data \in Seq(Byte) : data = f.data
  BY DEF FragmentType
<1>3. PICK n : n = Len(data)
  OBVIOUS
<1>4. PICK l : l = Len(sub[k])
  BY SMTT(30)
<1>5. /\ n \in Nat /\ l \in Nat /\ n >= 2 /\ n >= L2CAP_HEADER_SIZE /\ l <= MaxLength
      /\ MaxLength \in Nat /\ L2CAP_HEADER_SIZE \in Nat
  BY <1>2, <1>3, <1>4, LenProperties, FragmentAssumption, SMTT(30) DEF SubmittedRight
<1>6. full_length(f) = l
  BY <1>1, <1>4, Zenon DEF HeaderRight, full_length
<1>7. n <= l /\ \A j \in 1 .. n : data[j] = sub[k][j]
  <2>1. 0 + n <= l /\ \A j \in 1 .. n : data[j] = sub[k][0 + j]
    BY <1>1, <1>2, <1>3, <1>4, Zenon DEF IsCut
  <2> QED
    BY <1>5, <2>1
<1>8. reassemble_start(pt, f) = IF l <= n THEN Outcome(<<>>, <<data>>)
                                ELSE Outcome(<<[len |-> l, data |-> data]>>, <<>>)
  BY <1>2, <1>3, <1>5, <1>6 DEF reassemble_start
<1>9. Ends(sub, data) <=> n = l
  <2>1. Ends(sub, data) <=> 0 + n = l
    BY <1>1, <1>2, <1>3, <1>4, Zenon DEF Ends
  <2> QED
    BY <1>5, <2>1
<1>10. CASE n = l
  <2>1. reassemble_start(pt, f).packets = <<data>> /\ reassemble_start(pt, f).partial = <<>>
    BY <1>5, <1>8, <1>10 DEF Outcome
  <2>2. NextFirst(sub, f.data) = k + 1 /\ NextOffset(sub, f.data) = 0
    BY <1>1, <1>2, <1>9, <1>10, Zenon DEF NextFirst, NextOffset
  <2>3. Received(sub, dl \o <<data>>, <<>>, k + 1, 0)
    BY <1>1, <1>3, <1>4, <1>7, <1>10, ReceivedWhole, Zenon
  <2> QED
    BY <2>1, <2>2, <2>3, Zenon
<1>11. CASE n # l
  <2>1. PICK p \in PartialType : p = [len |-> l, data |-> data] /\ p.len = l /\ p.data = data
    <3>1. [len |-> l, data |-> data] \in PartialType
      BY <1>5 DEF PartialType
    <3>2. [len |-> l, data |-> data].len = l /\ [len |-> l, data |-> data].data = data
      OBVIOUS
    <3> QED
      BY <3>1, <3>2, Zenon
  <2>2. reassemble_start(pt, f).packets = <<>> /\ reassemble_start(pt, f).partial = <<p>>
    BY <1>5, <1>7, <1>8, <1>11, <2>1 DEF Outcome
  <2>3. NextFirst(sub, f.data) = k /\ NextOffset(sub, f.data) = n
    <3>1. NextFirst(sub, f.data) = k /\ NextOffset(sub, f.data) = 0 + n
      BY <1>1, <1>2, <1>3, <1>9, <1>11, Zenon DEF NextFirst, NextOffset
    <3> QED
      BY <1>5, <3>1
  <2>4. Received(sub, dl \o <<>>, <<p>>, k, n)
    BY <1>1, <1>3, <1>4, <1>7, <2>1, ReceivedPart, Zenon
  <2> QED
    BY <2>2, <2>3, <2>4, Zenon
<1> QED
  BY <1>10, <1>11, Zenon

LEMMA ContinuationReceived ==
  ASSUME NEW sub, SubmittedRight(sub), NEW f \in FragmentType, IsCut(sub, f.data),
         Offset(f.data) # 0, NEW dl, NEW pt,
         Received(sub, dl, pt, First(f.data), Offset(f.data))
  PROVE  Received(sub, dl \o reassemble_continuation(pt, f).packets,
                  reassemble_continuation(pt, f).partial,
                  NextFirst(sub, f.data), NextOffset(sub, f.data))
<1>1. PICK k \in 1 .. Len(sub) : k = First(f.data)
  BY Zenon DEF IsCut
<1>2. PICK data \in Seq(Byte) : data = f.data
  BY DEF FragmentType
<1>3. PICK n : n = Len(data)
  OBVIOUS
<1>4. PICK l : l = Len(sub[k])
  BY Zenon
<1>5. PICK o \in Nat : o = Offset(f.data) /\ o # 0
  BY Zenon DEF IsCut
<1>6. /\ pt \in Seq(PartialType) /\ Len(pt) = 1 /\ pt[1].len = l /\ Len(pt[1].data) = o
      /\ \A j \in 1 .. o : pt[1].data[j] = sub[k][j]
  BY <1>1, <1>4, <1>5, Zenon DEF Received
<1>7. pt[1] \in PartialType /\ pt # <<>>
  <2>1. pt # <<>>
    <3>1. Len(<<>>) = 0 /\ 0 # 1
      OBVIOUS
    <3> QED
      BY <1>6, <3>1, Zenon
  <2>2. 1 \in 1 .. Len(pt)
    BY <1>6
  <2> QED
    BY <1>6, <2>1, <2>2, ElementOfSeq, Zenon
<1>8. PICK old \in Seq(Byte) : old = pt[1].data
  BY <1>7 DEF PartialType
<1>9. n \in Nat /\ l \in Nat
  BY <1>3, <1>4, LenProperties, FragmentAssumption DEF SubmittedRight
<1>10. o + n <= l /\ \A j \in 1 .. n : data[j] = sub[k][o + j]
  BY <1>1, <1>2, <1>3, <1>4, <1>5, Zenon DEF IsCut
<1>11. PICK all \in Seq(Byte) : /\ all = old \o data /\ Len(all) = o + n
                                /\ \A j \in 1 .. o + n : all[j] = sub[k][j]
  <2>1. /\ old \o data \in Seq(Byte) /\ Len(old \o data) = o + n
        /\ \A j \in 1 .. o + n : (old \o data)[j] = IF j <= o THEN old[j] ELSE data[j - o]
    <3>1. /\ old \o data \in Seq(Byte) /\ Len(old \o data) = Len(old) + Len(data)
          /\ \A j \in 1 .. Len(old) + Len(data) :
               (old \o data)[j] = IF j <= Len(old) THEN old[j] ELSE data[j - Len(old)]
      BY ConcatProperties
    <3>2. Len(old) = o /\ Len(data) = n
      BY <1>3, <1>6, <1>8, Zenon
    <3> QED
      BY <3>1, <3>2, Zenon
  <2>2. ASSUME NEW j \in 1 .. o + n
        PROVE  (old \o data)[j] = sub[k][j]
    <3>1. CASE j <= o
      <4>1. j \in 1 .. o
        BY <3>1
      <4> QED
        BY <1>6, <1>8, <2>1, <3>1, <4>1, Zenon
    <3>2. CASE ~(j <= o)
      <4>1. PICK i \in 1 .. n : i = j - o /\ j = o + i
        BY <1>9, <3>2
      <4> QED
        BY <1>10, <2>1, <3>2, <4>1, Zenon
    <3> QED
      BY <3>1, <3>2, Zenon
  <2> QED
    BY <2>1, <2>2, Zenon
<1>12. Copied(pt[1], f.data) = data
  <2>1. n <= l - o
    BY <1>9, <1>10
  <2> QED
    BY <1>2, <1>3, <1>6, <2>1, Zenon DEF Copied
<1>13. reassemble_continuation(pt, f) =
         IF o + n = l THEN Outcome(<<>>, <<all>>)
         ELSE Outcome(<<[pt[1] EXCEPT !.data = all]>>, <<>>)
  BY <1>6, <1>7, <1>8, <1>11, <1>12, Zenon DEF reassemble_continuation
<1>14. Ends(sub, data) <=> o + n = l
  BY <1>1, <1>2, <1>3, <1>4, <1>5, Zenon DEF Ends
<1>15. CASE o + n = l
  <2>1. /\ reassemble_continuation(pt, f).packets = <<all>>
        /\ reassemble_continuation(pt, f).partial = <<>>
    BY <1>13, <1>15 DEF Outcome
  <2>2. NextFirst(sub, f.data) = k + 1 /\ NextOffset(sub, f.data) = 0
    BY <1>1, <1>2, <1>14, <1>15, Zenon DEF NextFirst, NextOffset
  <2>3. Received(sub, dl \o <<all>>, <<>>, k + 1, 0)
    BY <1>1, <1>4, <1>5, <1>11, <1>15, ReceivedWhole, Zenon
  <2> QED
    BY <2>1, <2>2, <2>3, Zenon
<1>16. CASE o + n # l
  <2>1. PICK p \in PartialType : p = [pt[1] EXCEPT !.data = all] /\ p.len = l /\ p.data = all
    <3>1. /\ [pt[1] EXCEPT !.data = all] \in PartialType
          /\ [pt[1] EXCEPT !.data = all].len = pt[1].len /\ [pt[1] EXCEPT !.data = all].data = all
      BY <1>7, SMTT(30) DEF PartialType
    <3> QED
      BY <1>6, <3>1, Zenon
  <2>2. /\ reassemble_continuation(pt, f).packets = <<>>
        /\ reassemble_continuation(pt, f).partial = <<p>>
    BY <1>13, <1>16, <2>1 DEF Outcome
  <2>3. NextFirst(sub, f.data) = k /\ NextOffset(sub, f.data) = o + n
    BY <1>1, <1>2, <1>3, <1>5, <1>14, <1>16, Zenon DEF NextFirst, NextOffset
  <2>4. Received(sub, dl \o <<>>, <<p>>, k, o + n)
    <3>1. Received(sub, dl, pt, k, o)
      BY <1>1, <1>5, Zenon
    <3>2. p.len = Len(sub[k]) /\ Len(p.data) = o + n /\ \A j \in 1 .. o + n : p.data[j] = sub[k][j]
      BY <1>4, <1>11, <2>1, Zenon
    <3> QED
      BY <3>1, <3>2, <2>1, ReceivedPart, Zenon
  <2> QED
    BY <2>2, <2>3, <2>4, Zenon
<1> QED
  BY <1>15, <1>16, Zenon

-------------------------------------------------------------------------------
(* The steps of a stream.                                                   *)

\* Nothing submitted yet on this connection; a partial packet of an earlier one
\* may be left.
LEMMA NewStream ==
  ASSUME NEW pt \in Seq(PartialType), NEW m
  PROVE  Stream(<<>>, <<>>, <<>>, <<>>, pt, m)
<1>1. /\ <<>> \in Seq(Seq(Byte)) /\ <<>> \in Seq(PacketType) /\ <<>> \in Seq(FragmentType)
      /\ Len(<<>>) = 0 /\ 1 .. 0 = {} /\ 1 .. 0 - 1 = {} /\ 0 <= 1 /\ 0 = (0 + 1) - 1
  OBVIOUS
<1>2. SubmittedRight(<<>>) /\ UpRight(<<>>, <<>>) /\ LinkRight(<<>>, <<>>, <<>>, m)
  BY <1>1, Zenon DEF SubmittedRight, UpRight, LinkRight
<1>3. UpFirst(<<>>, <<>>) = 0 + 1 /\ UpOffset(<<>>) = 0
  BY <1>1, Zenon DEF UpFirst, UpOffset
<1>4. Received(<<>>, <<>>, pt, 0 + 1, 0)
  BY <1>1, Zenon DEF Received
<1> QED
  BY <1>2, <1>3, <1>4, Zenon DEF Stream, LinkFirst, LinkOffset

\* send_packet
LEMMA StreamSubmits ==
  ASSUME NEW sub, NEW lk, NEW dl, NEW pt, NEW m, Stream(sub, lk, <<>>, dl, pt, m),
         NEW p \in PacketType, Len(p.data) \in L2CAP_HEADER_SIZE .. MaxLength,
         \A i \in 1 .. Len(p.data) : Number(p.data[i]) = Len(sub) + 1 /\ Before(p.data[i]) = i - 1,
         p.flag = "start", p.l2cap_length + L2CAP_HEADER_SIZE = Len(p.data)
  PROVE  Stream(Append(sub, p.data), lk, <<p>>, dl, pt, m)
<1>1. /\ SubmittedRight(sub) /\ LinkRight(sub, lk, <<>>, m) /\ lk \in Seq(FragmentType)
      /\ sub \in Seq(Seq(Byte)) /\ Received(sub, dl, pt, LinkFirst(sub, lk, <<>>), LinkOffset(lk, <<>>))
  BY Zenon DEF Stream, SubmittedRight, LinkRight
<1>2. PICK data \in Seq(Byte) : data = p.data
  BY DEF PacketType
<1>3. PICK n \in Nat : n = Len(sub)
  BY <1>1, LenProperties
<1>4. PICK s \in Seq(Seq(Byte)) : /\ s = Append(sub, data) /\ Len(s) = n + 1 /\ s[n + 1] = data
                                  /\ \A i \in 1 .. n : s[i] = sub[i]
  <2>1. /\ Append(sub, data) \in Seq(Seq(Byte)) /\ Len(Append(sub, data)) = Len(sub) + 1
        /\ Append(sub, data)[Len(sub) + 1] = data
        /\ \A i \in 1 .. Len(sub) : Append(sub, data)[i] = sub[i]
    BY <1>1, AppendAt, SMTT(30)
  <2> QED
    BY <1>3, <2>1, Zenon
<1>5. SubmittedRight(s)
  <2>1. ASSUME NEW k \in 1 .. n + 1
        PROVE  /\ Len(s[k]) \in L2CAP_HEADER_SIZE .. MaxLength
               /\ \A i \in 1 .. Len(s[k]) : Number(s[k][i]) = k /\ Before(s[k][i]) = i - 1
    <3>1. CASE k = n + 1
      BY <1>2, <1>3, <1>4, <3>1, Zenon
    <3>2. CASE k # n + 1
      <4>1. k \in 1 .. n
        BY <3>2
      <4> QED
        BY <1>1, <1>3, <1>4, <4>1, Zenon DEF SubmittedRight
    <3> QED
      BY <3>1, <3>2, Zenon
  <2> QED
    BY <1>4, <2>1, Zenon DEF SubmittedRight
<1>6. First(data) = n + 1 /\ Offset(data) = 0 /\ IsCut(s, data)
  <2>1. Len(data) \in Nat /\ Len(data) >= 1 /\ n + 1 \in 1 .. n + 1
    BY <1>2, LenProperties, FragmentAssumption
  <2>2. \A j \in 1 .. Len(data) : 0 + j = j
    OBVIOUS
  <2>3. 0 + Len(data) <= Len(data) /\ 0 \in Nat
    BY <2>1
  <2>4. PICK k \in 1 .. Len(s) : k = n + 1 /\ s[k] = data
    BY <1>4, <2>1, Zenon
  <2>5. PICK o \in Nat : o = 0
    OBVIOUS
  <2>6. /\ o + Len(data) <= Len(s[k]) /\ \A j \in 1 .. Len(data) : data[j] = s[k][o + j]
    BY <2>2, <2>3, <2>4, <2>5, Zenon
  <2>7. First(data) = k /\ Offset(data) = o /\ IsCut(s, data)
    BY <1>5, <2>1, <2>6, CutAt, Zenon
  <2> QED
    BY <2>4, <2>5, <2>7, Zenon
<1>7. Ends(s, data) /\ HeaderRight(s, p)
  <2>1. 0 + Len(data) = Len(data)
    BY LenProperties
  <2> QED
    BY <1>2, <1>4, <1>6, <2>1, Zenon DEF Ends, HeaderRight
<1>8. /\ <<p>> \in Seq(PacketType) /\ Len(<<p>>) <= 1 /\ <<p>>[1] = p /\ <<p>> # <<>>
  <2>1. <<p>> \in Seq(PacketType) /\ Len(<<p>>) = 1 /\ <<p>>[1] = p /\ <<p>> # <<>>
    BY Single, Zenon
  <2> QED
    BY <2>1
<1>9. UpRight(s, <<p>>)
  BY <1>2, <1>4, <1>6, <1>7, <1>8, Zenon DEF UpRight
<1>10. /\ UpFirst(s, <<p>>) = n + 1 /\ UpOffset(<<p>>) = 0
       /\ UpFirst(sub, <<>>) = n + 1 /\ UpOffset(<<>>) = 0
  BY <1>2, <1>3, <1>6, <1>8, Zenon DEF UpFirst, UpOffset
<1>11. LinkRight(s, lk, <<p>>, m)
  <2>1. ASSUME NEW i \in 1 .. Len(lk)
        PROVE  /\ IsCut(s, lk[i].data) /\ HeaderRight(s, lk[i]) /\ Len(lk[i].data) <= m
               /\ Offset(lk[i].data) = 0 => Len(lk[i].data) >= L2CAP_HEADER_SIZE
               /\ NextFirst(s, lk[i].data) = NextFirst(sub, lk[i].data)
               /\ NextOffset(s, lk[i].data) = NextOffset(sub, lk[i].data)
    <3>1. /\ IsCut(sub, lk[i].data) /\ HeaderRight(sub, lk[i]) /\ Len(lk[i].data) <= m
          /\ Offset(lk[i].data) = 0 => Len(lk[i].data) >= L2CAP_HEADER_SIZE
      BY <1>1, Zenon DEF LinkRight
    <3> QED
      BY <1>1, <1>4, <3>1, CutStays, HeaderStays, ZenonT(30)
  <2>2. Len(lk) \in Nat /\ (lk # <<>> => Len(lk) \in 1 .. Len(lk))
    BY <1>1, LenProperties, EmptySeq
  <2>3. \A i \in 1 .. Len(lk) - 1 : i \in 1 .. Len(lk)
    BY <2>2
  <2> QED
    BY <1>1, <1>10, <2>1, <2>2, <2>3, Zenon DEF LinkRight
<1>12. LinkFirst(s, lk, <<p>>) = LinkFirst(sub, lk, <<>>) /\ LinkOffset(lk, <<p>>) = LinkOffset(lk, <<>>)
  BY <1>10, Zenon DEF LinkFirst, LinkOffset
<1>13. Received(s, dl, pt, LinkFirst(s, lk, <<p>>), LinkOffset(lk, <<p>>))
  <2>1. PICK k : k = LinkFirst(sub, lk, <<>>)
    OBVIOUS
  <2>2. PICK o : o = LinkOffset(lk, <<>>)
    OBVIOUS
  <2>3. k \in 1 .. n + 1 /\ (k = n + 1 => o = 0)
    <3>1. CASE lk = <<>>
      BY <1>10, <2>1, <2>2, <3>1 DEF LinkFirst, LinkOffset
    <3>2. CASE lk # <<>>
      <4>1. 1 \in 1 .. Len(lk)
        BY <1>1, <3>2, LenProperties, EmptySeq
      <4>2. k \in 1 .. n
        BY <1>1, <1>3, <2>1, <3>2, <4>1, Zenon DEF LinkRight, LinkFirst, IsCut
      <4> QED
        BY <4>2
    <3> QED
      BY <3>1, <3>2, Zenon
  <2>4. /\ dl \in Seq(Seq(Byte)) /\ Len(dl) = k - 1 /\ \A i \in 1 .. Len(dl) : dl[i] = sub[i]
    BY <1>1, <2>1, <2>2, Zenon DEF Received
  <2>5. \A i \in 1 .. Len(dl) : i \in 1 .. n
    BY <2>3, <2>4
  <2>6. o # 0 => s[k] = sub[k]
    <3>1. o # 0 => k \in 1 .. n
      BY <2>3
    <3> QED
      BY <1>4, <3>1, Zenon
  <2>7. Received(s, dl, pt, k, o)
    BY <1>1, <1>4, <2>1, <2>2, <2>4, <2>5, <2>6, Zenon DEF Received
  <2> QED
    BY <1>12, <2>1, <2>2, <2>7, Zenon
<1> QED
  BY <1>2, <1>4, <1>5, <1>9, <1>11, <1>13, Zenon DEF Stream

\* The packet under way is given back or taken up again, with another number of
\* segments.
LEMMA StreamResumes ==
  ASSUME NEW sub, NEW lk, NEW up, NEW dl, NEW pt, NEW m, Stream(sub, lk, up, dl, pt, m),
         up # <<>>, NEW p \in PacketType,
         p.data = up[1].data, p.flag = up[1].flag, p.l2cap_length = up[1].l2cap_length
  PROVE  Stream(sub, lk, <<p>>, dl, pt, m)
<1>1. <<p>> \in Seq(PacketType) /\ Len(<<p>>) = 1 /\ <<p>>[1] = p /\ <<p>> # <<>>
  BY Single, Zenon
<1>2. Len(<<p>>) <= 1
  BY <1>1
<1>3. HeaderRight(sub, p) <=> HeaderRight(sub, up[1])
  BY Zenon DEF HeaderRight
<1>4. UpRight(sub, <<p>>)
  BY <1>1, <1>2, <1>3, Zenon DEF Stream, UpRight
<1>5. UpFirst(sub, <<p>>) = UpFirst(sub, up) /\ UpOffset(<<p>>) = UpOffset(up)
  BY <1>1, Zenon DEF UpFirst, UpOffset
<1>6. LinkRight(sub, lk, <<p>>, m)
  BY <1>5, Zenon DEF Stream, LinkRight
<1>7. LinkFirst(sub, lk, <<p>>) = LinkFirst(sub, lk, up) /\ LinkOffset(lk, <<p>>) = LinkOffset(lk, up)
  BY <1>5, Zenon DEF LinkFirst, LinkOffset
<1> QED
  BY <1>4, <1>6, <1>7, Zenon DEF Stream

\* fragment_and_dispatch, one turn of the loop: a full fragment |f| goes, and |r|
\* is what is left.
SentFull(up, m, f, r) ==
  /\ m \in Nat /\ m >= L2CAP_HEADER_SIZE /\ up # <<>> /\ ~(Len(up[1].data) <= m)
  /\ f \in FragmentType /\ f.flag = up[1].flag /\ f.l2cap_length = up[1].l2cap_length
  /\ f.data = SubSeq(up[1].data, 1, m)
  /\ r \in PacketType /\ r.flag = "continuation"
  /\ r.data = SubSeq(up[1].data, m + 1, Len(up[1].data))

LEMMA StreamSendsFull ==
  ASSUME NEW sub, NEW lk, NEW up, NEW dl, NEW pt, NEW m, NEW f, NEW r,
         Stream(sub, lk, up, dl, pt, m), SentFull(up, m, f, r)
  PROVE  Stream(sub, Append(lk, f), <<r>>, dl, pt, m)
<1>0. /\ m \in Nat /\ m >= L2CAP_HEADER_SIZE /\ up # <<>> /\ ~(Len(up[1].data) <= m)
      /\ f \in FragmentType /\ f.flag = up[1].flag /\ f.l2cap_length = up[1].l2cap_length
      /\ f.data = SubSeq(up[1].data, 1, m)
      /\ r \in PacketType /\ r.flag = "continuation"
      /\ r.data = SubSeq(up[1].data, m + 1, Len(up[1].data))
  BY Zenon DEF SentFull
<1>1. /\ SubmittedRight(sub) /\ UpRight(sub, up) /\ LinkRight(sub, lk, up, m)
      /\ Received(sub, dl, pt, LinkFirst(sub, lk, up), LinkOffset(lk, up))
      /\ up \in Seq(PacketType) /\ Len(up) <= 1
  BY Zenon DEF Stream, UpRight
<1>2. PICK p \in PacketType : p = up[1]
  BY <1>0, <1>1, AtMostOne, Zenon
<1>3. PICK data \in Seq(Byte) : data = p.data
  BY <1>0 DEF PacketType
<1>4. PICK n \in Nat : n = Len(data)
  BY <1>0, LenProperties
<1>5. PICK o \in Nat : o = Offset(data)
  BY <1>0, <1>1, <1>2, <1>3, Zenon DEF UpRight, IsCut
<1>6. PICK k \in 1 .. Len(sub) : k = First(data)
  BY <1>0, <1>1, <1>2, <1>3, Zenon DEF UpRight, IsCut
<1>7. /\ IsCut(sub, data) /\ Ends(sub, data) /\ k = Len(sub) /\ HeaderRight(sub, p)
  BY <1>0, <1>1, <1>2, <1>3, <1>6, Zenon DEF UpRight
<1>8. o + n = Len(sub[k]) /\ \A j \in 1 .. n : data[j] = sub[k][o + j]
  BY <1>0, <1>4, <1>5, <1>6, <1>7, Zenon DEF IsCut, Ends
<1>9. m < n /\ m >= 1 /\ L2CAP_HEADER_SIZE \in Nat
  BY <1>0, <1>2, <1>3, <1>4, FragmentAssumption
<1>10. PICK a \in Seq(Byte) : a = f.data /\ Len(a) = m /\ \A j \in 1 .. m : a[j] = data[j]
  <2>1. /\ SubSeq(data, 0 + 1, m) \in Seq(Byte) /\ Len(SubSeq(data, 0 + 1, m)) = m - 0
        /\ \A j \in 1 .. m - 0 : SubSeq(data, 0 + 1, m)[j] = data[0 + j]
    BY <1>0, <1>4, <1>9, Part, SMTT(30)
  <2>2. 0 + 1 = 1 /\ m - 0 = m /\ \A j \in 1 .. m : 0 + j = j
    BY <1>0
  <2>3. /\ SubSeq(data, 1, m) \in Seq(Byte) /\ Len(SubSeq(data, 1, m)) = m
        /\ \A j \in 1 .. m : SubSeq(data, 1, m)[j] = data[j]
    BY <1>0, <2>1, <2>2, SMTT(30)
  <2> QED
    BY <1>0, <1>2, <1>3, <2>3, Zenon
<1>11. PICK b \in Seq(Byte) : b = r.data /\ Len(b) = n - m /\ \A j \in 1 .. n - m : b[j] = data[m + j]
  <2>1. /\ SubSeq(data, m + 1, n) \in Seq(Byte) /\ Len(SubSeq(data, m + 1, n)) = n - m
        /\ \A j \in 1 .. n - m : SubSeq(data, m + 1, n)[j] = data[m + j]
    BY <1>0, <1>4, <1>9, Part, SMTT(30)
  <2> QED
    BY <1>0, <1>2, <1>3, <1>4, <2>1, Zenon
<1>12. First(a) = k /\ Offset(a) = o /\ IsCut(sub, a)
  <2>1. Len(a) >= 1 /\ o + Len(a) <= Len(sub[k])
    BY <1>0, <1>8, <1>9, <1>10, SMTT(30)
  <2>2. \A j \in 1 .. Len(a) : j \in 1 .. n
    BY <1>0, <1>9, <1>10
  <2>3. \A j \in 1 .. Len(a) : a[j] = sub[k][o + j]
    BY <1>0, <1>8, <1>10, <2>2, Zenon
  <2> QED
    BY <1>0, <1>1, <2>1, <2>3, CutAt, Zenon
<1>13. First(b) = k /\ Offset(b) = o + m /\ IsCut(sub, b)
  <2>1. PICK q \in Nat : q = o + m
    BY <1>0
  <2>2. Len(b) >= 1 /\ q + Len(b) <= Len(sub[k])
    <3>1. (o + m) + (n - m) = o + n /\ n - m >= 1 /\ o + n <= o + n
      BY <1>0, <1>9
    <3> QED
      BY <1>0, <1>8, <1>11, <2>1, <3>1, Zenon
  <2>3. ASSUME NEW j \in 1 .. Len(b)
        PROVE  b[j] = sub[k][q + j]
    <3>1. j \in 1 .. n - m /\ m + j \in 1 .. n /\ o + (m + j) = q + j
      BY <1>0, <1>9, <1>11, <2>1
    <3> QED
      BY <1>0, <1>8, <1>11, <3>1, Zenon
  <2>4. First(b) = k /\ Offset(b) = q /\ IsCut(sub, b)
    BY <1>0, <1>1, <2>2, <2>3, CutAt, Zenon
  <2> QED
    BY <1>0, <2>1, <2>4, Zenon
<1>14. /\ NextFirst(sub, a) = k /\ NextOffset(sub, a) = o + m
  <2>1. ~Ends(sub, a)
    <3>1. Ends(sub, a) => o + m = Len(sub[k])
      BY <1>0, <1>10, <1>12, Zenon DEF Ends
    <3> QED
      BY <1>0, <1>8, <1>9, <3>1
  <2> QED
    BY <1>0, <1>10, <1>12, <2>1, Zenon DEF NextFirst, NextOffset
<1>15. Ends(sub, b) /\ HeaderRight(sub, r)
  <2>1. (o + m) + (n - m) = o + n /\ o + m # 0
    BY <1>0, <1>9
  <2>2. Ends(sub, b)
    BY <1>0, <1>8, <1>11, <1>13, <2>1, Zenon DEF Ends
  <2> QED
    BY <1>0, <1>11, <1>13, <2>1, <2>2, Zenon DEF HeaderRight
<1>16. <<r>> \in Seq(PacketType) /\ Len(<<r>>) = 1 /\ <<r>>[1] = r /\ <<r>> # <<>>
  BY <1>0, Single, Zenon
<1>17. UpRight(sub, <<r>>)
  <2>1. Len(<<r>>) <= 1
    BY <1>0, <1>16
  <2> QED
    BY <1>0, <1>7, <1>11, <1>13, <1>15, <1>16, <2>1, Zenon DEF UpRight
<1>18. UpFirst(sub, <<r>>) = NextFirst(sub, a) /\ UpOffset(<<r>>) = NextOffset(sub, a)
  BY <1>0, <1>11, <1>13, <1>14, <1>16, Zenon DEF UpFirst, UpOffset
<1>19. First(a) = UpFirst(sub, up) /\ Offset(a) = UpOffset(up)
  BY <1>0, <1>2, <1>3, <1>5, <1>6, <1>12, Zenon DEF UpFirst, UpOffset
<1>20. HeaderRight(sub, f)
  BY <1>0, <1>2, <1>3, <1>5, <1>6, <1>7, <1>10, <1>12, ZenonT(30) DEF HeaderRight
<1>21. Len(a) <= m /\ Len(a) >= L2CAP_HEADER_SIZE
  BY <1>0, <1>9, <1>10
<1>22. /\ LinkRight(sub, Append(lk, f), <<r>>, m)
       /\ LinkFirst(sub, Append(lk, f), <<r>>) = LinkFirst(sub, lk, up)
       /\ LinkOffset(Append(lk, f), <<r>>) = LinkOffset(lk, up)
  <2>1. PICK next : next = <<r>>
    BY <1>0, Zenon
  <2>2. IsNext(sub, lk, up, f, next, m)
    BY <1>0, <1>1, <1>10, <1>12, <1>18, <1>19, <1>20, <1>21, <2>1, Zenon DEF IsNext
  <2>3. /\ LinkRight(sub, Append(lk, f), next, m)
        /\ LinkFirst(sub, Append(lk, f), next) = LinkFirst(sub, lk, up)
        /\ LinkOffset(Append(lk, f), next) = LinkOffset(lk, up)
    BY <1>0, <2>2, LinkAppended, SMTT(30)
  <2> QED
    BY <1>0, <2>1, <2>3, Zenon
<1> QED
  BY <1>0, <1>1, <1>17, <1>22, Zenon DEF Stream

\* fragment_and_dispatch, after the loop: the last fragment goes.
SentLast(up, m, f) ==
  /\ up # <<>> /\ Len(up[1].data) <= m
  /\ f \in FragmentType /\ f.flag = up[1].flag /\ f.l2cap_length = up[1].l2cap_length
  /\ f.data = up[1].data

LEMMA StreamSendsLast ==
  ASSUME NEW sub, NEW lk, NEW up, NEW dl, NEW pt, NEW m, NEW f,
         Stream(sub, lk, up, dl, pt, m), SentLast(up, m, f)
  PROVE  Stream(sub, Append(lk, f), <<>>, dl, pt, m)
<1>0. /\ up # <<>> /\ Len(up[1].data) <= m
      /\ f \in FragmentType /\ f.flag = up[1].flag /\ f.l2cap_length = up[1].l2cap_length
      /\ f.data = up[1].data
  BY Zenon DEF SentLast
<1>1. /\ SubmittedRight(sub) /\ UpRight(sub, up) /\ LinkRight(sub, lk, up, m)
      /\ Received(sub, dl, pt, LinkFirst(sub, lk, up), LinkOffset(lk, up))
  BY Zenon DEF Stream
<1>2. PICK data \in Seq(Byte) : data = f.data
  BY <1>0 DEF FragmentType
<1>3. /\ IsCut(sub, data) /\ Ends(sub, data) /\ First(data) = Len(sub) /\ HeaderRight(sub, up[1])
  BY <1>0, <1>1, <1>2, Zenon DEF UpRight
<1>4. HeaderRight(sub, f)
  BY <1>0, <1>2, <1>3, Zenon DEF HeaderRight
<1>5. NextFirst(sub, data) = Len(sub) + 1 /\ NextOffset(sub, data) = 0
  BY <1>3, Zenon DEF NextFirst, NextOffset
<1>6. /\ UpFirst(sub, <<>>) = NextFirst(sub, data) /\ UpOffset(<<>>) = NextOffset(sub, data)
      /\ UpFirst(sub, up) = First(data) /\ UpOffset(up) = Offset(data)
  BY <1>0, <1>2, <1>5, Zenon DEF UpFirst, UpOffset
<1>7. Offset(data) = 0 => Len(data) >= L2CAP_HEADER_SIZE
  <2>1. Offset(data) + Len(data) = Len(sub[First(data)])
    BY <1>3, Zenon DEF Ends
  <2>2. Len(sub[First(data)]) \in L2CAP_HEADER_SIZE .. MaxLength
    BY <1>1, <1>3, Zenon DEF SubmittedRight, IsCut
  <2>3. Len(data) \in Nat
    BY LenProperties
  <2> QED
    BY <2>1, <2>2, <2>3
<1>8. /\ LinkRight(sub, Append(lk, f), <<>>, m)
      /\ LinkFirst(sub, Append(lk, f), <<>>) = LinkFirst(sub, lk, up)
      /\ LinkOffset(Append(lk, f), <<>>) = LinkOffset(lk, up)
  <2>1. PICK next : next = <<>>
    OBVIOUS
  <2>2. IsNext(sub, lk, up, f, next, m)
    BY <1>0, <1>1, <1>2, <1>3, <1>4, <1>6, <1>7, <2>1, Zenon DEF IsNext
  <2>3. /\ LinkRight(sub, Append(lk, f), next, m)
        /\ LinkFirst(sub, Append(lk, f), next) = LinkFirst(sub, lk, up)
        /\ LinkOffset(Append(lk, f), next) = LinkOffset(lk, up)
    BY <2>2, LinkAppended, SMTT(30)
  <2> QED
    BY <2>1, <2>3, Zenon
<1>9. <<>> \in Seq(PacketType) /\ Len(<<>>) <= 1
  OBVIOUS
<1>10. UpRight(sub, <<>>)
  BY <1>9, Zenon DEF UpRight
<1> QED
  BY <1>1, <1>8, <1>10, Zenon DEF Stream

\* reassemble_and_dispatch
Reassembled(lk, pt, out) ==
  /\ lk # <<>>
  /\ out = IF Head(lk).flag = "start" THEN reassemble_start(pt, Head(lk))
           ELSE reassemble_continuation(pt, Head(lk))

LEMMA StreamReceives ==
  ASSUME NEW sub, NEW lk, NEW up, NEW dl, NEW pt, NEW m, NEW out,
         Stream(sub, lk, up, dl, pt, m), Reassembled(lk, pt, out)
  PROVE  Stream(sub, Tail(lk), up, dl \o out.packets, out.partial, m)
<1>0. lk # <<>> /\ out = IF Head(lk).flag = "start" THEN reassemble_start(pt, Head(lk))
                         ELSE reassemble_continuation(pt, Head(lk))
  BY Zenon DEF Reassembled
<1>1. /\ SubmittedRight(sub) /\ UpRight(sub, up) /\ LinkRight(sub, lk, up, m)
      /\ Received(sub, dl, pt, LinkFirst(sub, lk, up), LinkOffset(lk, up))
  BY Zenon DEF Stream
<1>2. PICK f \in FragmentType : f = Head(lk) /\ f = lk[1]
  BY <1>0, <1>1, LinkTaken, Zenon
<1>3. /\ IsCut(sub, f.data) /\ HeaderRight(sub, f)
      /\ Offset(f.data) = 0 => Len(f.data) >= L2CAP_HEADER_SIZE
      /\ LinkRight(sub, Tail(lk), up, m)
      /\ LinkFirst(sub, Tail(lk), up) = NextFirst(sub, f.data)
      /\ LinkOffset(Tail(lk), up) = NextOffset(sub, f.data)
  BY <1>0, <1>1, <1>2, LinkTaken, Zenon
<1>4. Received(sub, dl, pt, First(f.data), Offset(f.data))
  BY <1>0, <1>1, <1>2, Zenon DEF LinkFirst, LinkOffset
<1>5. Received(sub, dl \o out.packets, out.partial, NextFirst(sub, f.data), NextOffset(sub, f.data))
  <2>1. CASE Offset(f.data) = 0
    <3>1. out = reassemble_start(pt, f)
      BY <1>0, <1>2, <1>3, <2>1, Zenon DEF HeaderRight
    <3>2. Received(sub, dl, pt, First(f.data), 0)
      BY <1>4, <2>1, Zenon
    <3> QED
      BY <1>1, <1>3, <2>1, <3>1, <3>2, StartReceived, Zenon
  <2>2. CASE Offset(f.data) # 0
    <3>1. "continuation" # "start"
      OBVIOUS
    <3>2. out = reassemble_continuation(pt, f)
      BY <1>0, <1>2, <1>3, <2>2, <3>1, Zenon DEF HeaderRight
    <3> QED
      BY <1>1, <1>3, <1>4, <2>2, <3>2, ContinuationReceived, Zenon
  <2> QED
    BY <2>1, <2>2, Zenon
<1> QED
  BY <1>1, <1>3, <1>5, Zenon DEF Stream

-------------------------------------------------------------------------------
(* The steps. Each one is about one handle.                                 *)

LEMMA Updated ==
  ASSUME NEW D, NEW R, NEW f \in [D -> R], NEW d \in D, NEW v \in R, NEW g,
         g = [f EXCEPT ![d] = v]
  PROVE  g \in [D -> R] /\ g[d] = v /\ \A e \in D : e # d => g[e] = f[e]
  OBVIOUS

LEMMA UnderWayIs ==
  ASSUME SendTypes, NEW h \in Handles
  PROVE  /\ tx = Idle => UnderWay(h) = held[h]
         /\ tx # Idle => /\ Len(tx) = 1 /\ tx[1] \in PacketType /\ tx[1].handle \in Handles
                         /\ UnderWay(h) = IF tx[1].handle = h THEN tx ELSE held[h]
<1>1. tx # Idle => Len(tx) = 1 /\ tx[1] \in PacketType
  BY AtMostOne, Zenon DEF SendTypes, Idle
<1>2. tx # Idle => tx[1].handle \in Handles
  BY <1>1 DEF PacketType
<1> QED
  BY <1>1, <1>2, Zenon DEF UnderWay

\* The other handles keep what they have.
Elsewhere(h) ==
  \A g \in Handles : g # h =>
    /\ g \notin disturbed' => g \notin disturbed
    /\ submitted'[g] = submitted[g] /\ link'[g] = link[g] /\ delivered'[g] = delivered[g]
    /\ partial_packets'[g] = partial_packets[g] /\ UnderWay(g)' = UnderWay(g)

LEMMA OneHandle ==
  ASSUME FragmentInv, NEW h \in Handles, SendTypes', LinkTypes', Elsewhere(h),
         h \notin disturbed' =>
           Stream(submitted'[h], link'[h], UnderWay(h)', delivered'[h], partial_packets'[h],
                  max_data_size[h])
  PROVE  FragmentInv'
<1>1. ASSUME NEW g \in Handles, g \notin disturbed'
      PROVE  StreamOf(g)'
  <2>1. CASE g = h
    BY <1>1, <2>1 DEF StreamOf
  <2>2. CASE g # h
    <3>1. Stream(submitted[g], link[g], UnderWay(g), delivered[g], partial_packets[g],
                 max_data_size[g])
      BY <1>1, <2>2, Zenon DEF FragmentInv, StreamOf, Elsewhere
    <3>2. Stream(submitted'[g], link'[g], UnderWay(g)', delivered'[g], partial_packets'[g],
                 max_data_size[g])
      BY <1>1, <2>2, <3>1, Zenon DEF Elsewhere
    <3> QED
      BY <3>2 DEF StreamOf
  <2> QED
    BY <2>1, <2>2
<1> QED
  BY <1>1 DEF FragmentInv

LEMMA FragmentInit ==
  Init => FragmentInv
<1> SUFFICES ASSUME Init PROVE FragmentInv
  OBVIOUS
<1>0. \A S : <<>> \in Seq(S) /\ Len(<<>>) = 0 /\ 0 <= 1
  OBVIOUS
<1>1. tx = <<>> /\ \A h \in Handles : held[h] = <<>>
  BY DEF Init, Idle, Empty
<1>2. SendTypes
  <2>1. held \in [Handles -> Seq(PacketType)] /\ tx \in Seq(PacketType)
    BY <1>0 DEF Init, Idle, Empty
  <2> QED
    BY <1>0, <1>1, <2>1, Zenon DEF SendTypes, Idle
<1>3. LinkTypes
  <2>1. /\ link \in [Handles -> Seq(FragmentType)] /\ partial_packets \in [Handles -> Seq(PartialType)]
        /\ submitted \in [Handles -> Seq(Seq(Byte))] /\ delivered \in [Handles -> Seq(Seq(Byte))]
        /\ connections \in 0 .. MaxConnections
    BY <1>0, FragmentAssumption DEF Init, Empty
  <2>2. \A h \in Handles : partial_packets[h] = <<>>
    BY DEF Init, Empty
  <2>3. \A h \in Handles : PartialRight(partial_packets[h])
    BY <1>0, <2>2, Zenon DEF PartialRight
  <2> QED
    BY <2>1, <2>3, Zenon DEF LinkTypes
<1>4. ASSUME NEW h \in Handles
      PROVE  StreamOf(h)
  <2>1. /\ submitted[h] = <<>> /\ link[h] = <<>> /\ delivered[h] = <<>>
        /\ partial_packets[h] = <<>> /\ UnderWay(h) = <<>>
    BY <1>1 DEF Init, Empty, UnderWay, Idle
  <2>2. <<>> \in Seq(PartialType)
    BY <1>0
  <2> QED
    BY <2>1, <2>2, NewStream, Zenon DEF StreamOf
<1> QED
  BY <1>2, <1>3, <1>4, Zenon DEF FragmentInv

\* The bytes of packet number |k|, |n| of them.
Numbered(data, n, k) ==
  /\ data \in Seq(Byte) /\ Len(data) = n
  /\ \A i \in 1 .. n : Number(data[i]) = k /\ Before(data[i]) = i - 1

LEMMA BytesNumbered ==
  ASSUME NEW c \in Nat, NEW k \in Nat, NEW n \in Nat
  PROVE  Numbered(Bytes(<<c, k>>, n), n, k)
<1>1. \A i \in 1 .. n : i \in Nat /\ <<<<c, k>>, i>> \in Byte
  BY DEF Byte
<1>2. PICK data : data = Bytes(<<c, k>>, n)
  OBVIOUS
<1>3. data = [i \in 1 .. n |-> <<<<c, k>>, i>>]
  BY <1>2, Zenon DEF Bytes
<1>4. data \in [1 .. n -> Byte]
  BY <1>1, <1>3
<1>5. data \in Seq(Byte)
  BY <1>4, SeqDef
<1>6. Len(data) = n
  BY <1>4, <1>5, LenProperties
<1>7. \A i \in 1 .. n : data[i] = <<<<c, k>>, i>>
  BY <1>3, Zenon
<1>8. \A i \in 1 .. n : <<<<c, k>>, i>>[1] = <<c, k>> /\ <<c, k>>[2] = k /\ <<<<c, k>>, i>>[2] = i
  OBVIOUS
<1>9. \A i \in 1 .. n : Number(data[i]) = k /\ Before(data[i]) = i - 1
  BY <1>7, <1>8, Zenon DEF Number, Before
<1> QED
  BY <1>2, <1>5, <1>6, <1>9, Zenon DEF Numbered

LEMMA send_packetStep ==
  ASSUME Usage, FragmentInv, NEW h \in Handles, NEW l \in L2capLengths, NEW s \in Segments,
         send_packet(h, l, s)
  PROVE  FragmentInv'
<1>1. SendTypes /\ LinkTypes /\ tx = <<>> /\ held[h] = <<>>
  BY Zenon DEF FragmentInv, send_packet, Idle
<1>2. PICK k \in Nat : k = Len(submitted[h])
  BY <1>1, LenProperties DEF LinkTypes
<1>3. l \in Nat /\ s \in Nat /\ L2CAP_HEADER_SIZE \in Nat /\ MaxLength \in Nat /\ connections \in Nat
  BY <1>1, FragmentAssumption DEF LinkTypes
<1>4. PICK n \in L2CAP_HEADER_SIZE .. MaxLength : n = l + L2CAP_HEADER_SIZE
  BY <1>3 DEF Usage
<1>5. n \in Nat /\ k + 1 \in Nat
  BY <1>3
<1>6. PICK data \in Seq(Byte) :
        /\ data = Bytes(<<connections, k + 1>>, n) /\ Len(data) = n
        /\ \A i \in 1 .. n : Number(data[i]) = k + 1 /\ Before(data[i]) = i - 1
  <2>1. Numbered(Bytes(<<connections, k + 1>>, n), n, k + 1)
    BY <1>3, <1>5, BytesNumbered
  <2> QED
    BY <2>1, Zenon DEF Numbered
<1>7. PICK p : p = Packet(h, "start", l, data, s)
  OBVIOUS
<1>8. /\ p \in PacketType /\ p.handle = h /\ p.data = data /\ p.flag = "start"
      /\ p.l2cap_length = l
  BY <1>3, <1>7, SMTT(30) DEF Packet, PacketType, Flags
<1>9. /\ tx' = <<p>> /\ submitted' = [submitted EXCEPT ![h] = Append(submitted[h], data)]
      /\ held' = held /\ link' = link /\ partial_packets' = partial_packets
      /\ connections' = connections /\ disturbed' = disturbed /\ delivered' = delivered
  BY <1>2, <1>4, <1>6, <1>7 DEF send_packet
<1>10. <<p>> \in Seq(PacketType) /\ Len(<<p>>) = 1 /\ <<p>>[1] = p /\ <<p>> # <<>> /\ 1 <= 1
  BY <1>8, Single
<1>11. SendTypes'
  <2>1. tx'[1] = p /\ tx'[1].handle = h
    BY <1>8, <1>9, <1>10, Zenon
  <2> QED
    BY <1>1, <1>9, <1>10, <2>1 DEF SendTypes
<1>12. Append(submitted[h], data) \in Seq(Seq(Byte))
  BY <1>1, AppendProperties, SMTT(30) DEF LinkTypes
<1>13. /\ submitted' \in [Handles -> Seq(Seq(Byte))] /\ submitted'[h] = Append(submitted[h], data)
       /\ \A g \in Handles : g # h => submitted'[g] = submitted[g]
  BY <1>1, <1>9, <1>12, Updated, SMTT(30) DEF LinkTypes
<1>14. LinkTypes'
  BY <1>1, <1>9, <1>13 DEF LinkTypes
<1>15. \A g \in Handles : UnderWay(g) = held[g] /\ UnderWay(g)' = IF h = g THEN <<p>> ELSE held[g]
  BY <1>1, <1>8, <1>9, <1>10 DEF UnderWay, Idle
<1>16. Elsewhere(h)
  BY <1>9, <1>13, <1>15, Zenon DEF Elsewhere
<1>17. ASSUME h \notin disturbed'
       PROVE  Stream(submitted'[h], link'[h], UnderWay(h)', delivered'[h], partial_packets'[h],
                     max_data_size[h])
  <2>1. Stream(submitted[h], link[h], <<>>, delivered[h], partial_packets[h], max_data_size[h])
    <3>1. StreamOf(h) /\ UnderWay(h) = <<>>
      BY <1>1, <1>9, <1>15, <1>17, Zenon DEF FragmentInv
    <3> QED
      BY <3>1, Zenon DEF StreamOf
  <2>2. /\ Len(p.data) \in L2CAP_HEADER_SIZE .. MaxLength
        /\ p.l2cap_length + L2CAP_HEADER_SIZE = Len(p.data)
        /\ \A i \in 1 .. Len(p.data) : /\ Number(p.data[i]) = Len(submitted[h]) + 1
                                       /\ Before(p.data[i]) = i - 1
    BY <1>2, <1>4, <1>6, <1>8, Zenon
  <2>3. Stream(Append(submitted[h], p.data), link[h], <<p>>, delivered[h], partial_packets[h],
               max_data_size[h])
    BY <1>8, <2>1, <2>2, StreamSubmits, Zenon
  <2> QED
    BY <1>8, <1>9, <1>13, <1>15, <2>3, Zenon
<1> QED
  BY <1>11, <1>14, <1>16, <1>17, OneHandle, Zenon

LEMMA send_segmentsStep ==
  ASSUME FragmentInv, NEW h \in Handles, NEW s \in Segments, send_segments(h, s)
  PROVE  FragmentInv'
<1>1. SendTypes /\ LinkTypes /\ tx = <<>> /\ held[h] # <<>>
  BY Zenon DEF FragmentInv, send_segments, Idle
<1>2. PICK q \in PacketType : q = held[h][1] /\ q.handle = h
  BY <1>1, AtMostOne DEF SendTypes
<1>3. s \in Nat
  BY FragmentAssumption
<1>4. PICK p : p = [q EXCEPT !.layer_specific = s]
  BY Zenon
<1>5. /\ p \in PacketType /\ p.handle = h /\ p.data = q.data /\ p.flag = q.flag
      /\ p.l2cap_length = q.l2cap_length
  BY <1>2, <1>3, <1>4 DEF PacketType
<1>6. /\ tx' = <<p>> /\ held' = [held EXCEPT ![h] = <<>>]
      /\ submitted' = submitted /\ link' = link /\ partial_packets' = partial_packets
      /\ connections' = connections /\ disturbed' = disturbed /\ delivered' = delivered
  BY <1>2, <1>4 DEF send_segments
<1>7. <<p>> \in Seq(PacketType) /\ Len(<<p>>) = 1 /\ <<p>>[1] = p /\ <<p>> # <<>> /\ 1 <= 1
  BY <1>5, Single
<1>8. <<>> \in Seq(PacketType) /\ Len(<<>>) <= 1
  OBVIOUS
<1>9. /\ held' \in [Handles -> Seq(PacketType)] /\ held'[h] = <<>>
      /\ \A g \in Handles : g # h => held'[g] = held[g]
  BY <1>1, <1>6, <1>8, Updated, SMTT(30) DEF SendTypes
<1>10. SendTypes'
  <2>1. tx'[1] = p /\ tx'[1].handle = h
    BY <1>5, <1>6, <1>7, Zenon
  <2>2. \A g \in Handles : Len(held'[g]) <= 1 /\ (held'[g] # <<>> => held'[g][1].handle = g)
    BY <1>1, <1>8, <1>9 DEF SendTypes
  <2> QED
    BY <1>6, <1>7, <1>9, <2>1, <2>2 DEF SendTypes
<1>11. LinkTypes'
  BY <1>1, <1>6 DEF LinkTypes
<1>12. \A g \in Handles : UnderWay(g) = held[g] /\ UnderWay(g)' = IF h = g THEN <<p>> ELSE held[g]
  BY <1>1, <1>5, <1>6, <1>7, <1>9 DEF UnderWay, Idle
<1>13. Elsewhere(h)
  BY <1>6, <1>12, Zenon DEF Elsewhere
<1>14. ASSUME h \notin disturbed'
       PROVE  Stream(submitted'[h], link'[h], UnderWay(h)', delivered'[h], partial_packets'[h],
                     max_data_size[h])
  <2>1. Stream(submitted[h], link[h], held[h], delivered[h], partial_packets[h], max_data_size[h])
    <3>1. StreamOf(h) /\ UnderWay(h) = held[h]
      BY <1>6, <1>12, <1>14, Zenon DEF FragmentInv
    <3> QED
      BY <3>1, Zenon DEF StreamOf
  <2>2. /\ p.data = held[h][1].data /\ p.flag = held[h][1].flag
        /\ p.l2cap_length = held[h][1].l2cap_length
    BY <1>2, <1>5, Zenon
  <2>3. Stream(submitted[h], link[h], <<p>>, delivered[h], partial_packets[h], max_data_size[h])
    BY <1>1, <1>5, <2>1, <2>2, StreamResumes, Zenon
  <2> QED
    BY <1>6, <1>12, <2>3, Zenon
<1> QED
  BY <1>10, <1>11, <1>13, <1>14, OneHandle, Zenon

\* What a packet under way at the fragmenter implies.
LEMMA Sending ==
  ASSUME FragmentInv, tx # Idle, NEW h, h = tx[1].handle
  PROVE  /\ SendTypes /\ LinkTypes /\ tx[1] \in PacketType /\ h \in Handles /\ held[h] = <<>>
         /\ tx # <<>> /\ max_data_size[h] \in Nat /\ max_data_size[h] >= L2CAP_HEADER_SIZE
         /\ \A g \in Handles : UnderWay(g) = IF g = h THEN tx ELSE held[g]
         /\ h \notin disturbed => Stream(submitted[h], link[h], tx, delivered[h],
                                         partial_packets[h], max_data_size[h])
<1>1. SendTypes /\ LinkTypes
  BY Zenon DEF FragmentInv
<1>2. tx \in Seq(PacketType) /\ Len(tx) <= 1 /\ tx # <<>>
  BY <1>1, Zenon DEF SendTypes, Idle
<1>3. tx[1] \in PacketType
  BY <1>2, AtMostOne, Zenon
<1>4. h \in Handles
  BY <1>3 DEF PacketType
<1>5. \A g \in Handles : UnderWay(g) = IF g = h THEN tx ELSE held[g]
  BY Zenon DEF UnderWay
<1>6. h \notin disturbed => Stream(submitted[h], link[h], tx, delivered[h],
                                   partial_packets[h], max_data_size[h])
  <2>1. h \notin disturbed => StreamOf(h)
    BY <1>4, Zenon DEF FragmentInv
  <2> QED
    BY <1>4, <1>5, <2>1, Zenon DEF StreamOf
<1>7. max_data_size[h] \in Nat /\ max_data_size[h] >= L2CAP_HEADER_SIZE
  BY <1>4, FragmentAssumption
<1> QED
  BY <1>1, <1>2, <1>3, <1>4, <1>5, <1>6, <1>7, Zenon DEF SendTypes

LEMMA fragment_and_dispatch_fullStep ==
  ASSUME FragmentInv, fragment_and_dispatch_full
  PROVE  FragmentInv'
<1>1. tx # Idle
  BY Zenon DEF fragment_and_dispatch_full
<1>2. PICK h : h = tx[1].handle
  OBVIOUS
<1>3. /\ SendTypes /\ LinkTypes /\ h \in Handles /\ held[h] = <<>> /\ tx # <<>>
      /\ max_data_size[h] >= L2CAP_HEADER_SIZE
      /\ \A g \in Handles : UnderWay(g) = IF g = h THEN tx ELSE held[g]
      /\ h \notin disturbed => Stream(submitted[h], link[h], tx, delivered[h],
                                      partial_packets[h], max_data_size[h])
  BY <1>1, <1>2, Sending, Zenon
<1>4. PICK m \in Nat : m = max_data_size[h]
  BY <1>1, <1>2, Sending, Zenon
<1>5. PICK p \in PacketType : p = tx[1]
  BY <1>1, <1>2, Sending, Zenon
<1>6. /\ p.handle = h /\ p.flag \in Flags /\ p.l2cap_length \in Nat /\ p.data \in Seq(Byte)
      /\ p.layer_specific \in Nat
  BY <1>2, <1>5 DEF PacketType
<1>7. PICK n \in Nat : n = Len(p.data)
  BY <1>6, LenProperties
<1>8. m <= n /\ 0 <= m /\ 0 \in Nat /\ n <= n
  <2>1. ~(n <= m)
    BY <1>4, <1>5, <1>6, <1>7 DEF fragment_and_dispatch_full, Fits
  <2> QED
    BY <2>1
<1>9. PICK f : f = Fragment(p.flag, p.l2cap_length, SubSeq(p.data, 1, m))
  OBVIOUS
<1>10. /\ f \in FragmentType /\ f.flag = p.flag /\ f.l2cap_length = p.l2cap_length
       /\ f.data = SubSeq(p.data, 1, m)
  <2>1. SubSeq(p.data, 0 + 1, m) \in Seq(Byte) /\ 0 + 1 = 1
    BY <1>6, <1>7, <1>8, Part
  <2>2. PICK d \in Seq(Byte) : d = SubSeq(p.data, 1, m)
    BY <2>1, Zenon
  <2>3. f = Fragment(p.flag, p.l2cap_length, d)
    BY <1>9, <2>2, Zenon
  <2>4. f \in FragmentType /\ f.flag = p.flag /\ f.l2cap_length = p.l2cap_length /\ f.data = d
    BY <1>6, <2>3 DEF Fragment, FragmentType
  <2> QED
    BY <2>2, <2>4, Zenon
<1>11. PICK r : r = Rest(p)
  OBVIOUS
<1>12. /\ r \in PacketType /\ r.handle = h /\ r.flag = "continuation"
       /\ r.data = SubSeq(p.data, m + 1, n)
  <2>1. SubSeq(p.data, m + 1, n) \in Seq(Byte)
    BY <1>6, <1>7, <1>8, Part
  <2>2. PICK d \in Seq(Byte) : d = SubSeq(p.data, m + 1, n)
    BY <2>1, Zenon
  <2>3. PICK s \in Nat : s = IF p.layer_specific = 0 THEN 0 ELSE p.layer_specific - 1
    BY <1>6
  <2>4. r = Packet(h, "continuation", 0, d, s)
    BY <1>4, <1>6, <1>7, <1>11, <2>2, <2>3, Zenon DEF Rest
  <2>5. r \in PacketType /\ r.handle = h /\ r.flag = "continuation" /\ r.data = d
    BY <1>3, <2>4, SMTT(30) DEF Packet, PacketType, Flags
  <2> QED
    BY <2>2, <2>5, Zenon
<1>13. /\ link' = [link EXCEPT ![h] = Append(link[h], f)]
       /\ \/ tx' = <<>> /\ held' = [held EXCEPT ![h] = <<r>>]
          \/ tx' = <<r>> /\ held' = held
       /\ submitted' = submitted /\ partial_packets' = partial_packets
       /\ connections' = connections /\ disturbed' = disturbed /\ delivered' = delivered
  BY <1>4, <1>5, <1>6, <1>9, <1>11 DEF fragment_and_dispatch_full, Idle
<1>14. <<r>> \in Seq(PacketType) /\ Len(<<r>>) = 1 /\ <<r>>[1] = r /\ <<r>> # <<>>
  BY <1>12, Single
<1>15. 0 <= 1 /\ 1 <= 1 /\ Len(<<>>) = 0 /\ <<>> \in Seq(PacketType)
  OBVIOUS
<1>16. SendTypes' /\ \A g \in Handles : UnderWay(g)' = IF g = h THEN <<r>> ELSE held[g]
  <2>1. CASE tx' = <<>> /\ held' = [held EXCEPT ![h] = <<r>>]
    <3>1. /\ held' \in [Handles -> Seq(PacketType)] /\ held'[h] = <<r>>
          /\ \A g \in Handles : g # h => held'[g] = held[g]
      BY <1>3, <1>14, <2>1, Updated, SMTT(30) DEF SendTypes
    <3>2. \A g \in Handles : Len(held'[g]) <= 1 /\ (held'[g] # <<>> => held'[g][1].handle = g)
      <4>1. TAKE g \in Handles
      <4>2. CASE g = h
        BY <1>12, <1>14, <1>15, <3>1, <4>2, Zenon
      <4>3. CASE g # h
        BY <1>3, <3>1, <4>3, Zenon DEF SendTypes
      <4> QED
        BY <4>2, <4>3
    <3>3. tx' = Idle
      BY <2>1, Zenon DEF Idle
    <3>4. tx' \in Seq(PacketType) /\ Len(tx') <= 1
      BY <1>15, <2>1, Zenon
    <3>5. SendTypes'
      BY <3>1, <3>2, <3>3, <3>4, Zenon DEF SendTypes
    <3>6. \A g \in Handles : UnderWay(g)' = held'[g]
      BY <3>3, Zenon DEF UnderWay
    <3> QED
      BY <3>1, <3>5, <3>6, Zenon
  <2>2. CASE tx' = <<r>> /\ held' = held
    <3>1. tx'[1].handle = h /\ tx' # Idle /\ tx' \in Seq(PacketType) /\ Len(tx') <= 1
      BY <1>12, <1>14, <1>15, <2>2, Zenon DEF Idle
    <3>2. SendTypes'
      BY <1>3, <2>2, <3>1, Zenon DEF SendTypes
    <3>3. \A g \in Handles : UnderWay(g)' = IF g = h THEN <<r>> ELSE held[g]
      BY <2>2, <3>1, Zenon DEF UnderWay
    <3> QED
      BY <3>2, <3>3, Zenon
  <2> QED
    BY <1>13, <2>1, <2>2, Zenon
<1>17. Append(link[h], f) \in Seq(FragmentType)
  BY <1>3, <1>10, AppendProperties, SMTT(30) DEF LinkTypes
<1>18. /\ link' \in [Handles -> Seq(FragmentType)] /\ link'[h] = Append(link[h], f)
       /\ \A g \in Handles : g # h => link'[g] = link[g]
  BY <1>3, <1>13, <1>17, Updated, SMTT(30) DEF LinkTypes
<1>19. LinkTypes'
  BY <1>3, <1>13, <1>18 DEF LinkTypes
<1>20. Elsewhere(h)
  BY <1>3, <1>13, <1>16, <1>18, Zenon DEF Elsewhere
<1>21. ASSUME h \notin disturbed'
       PROVE  Stream(submitted'[h], link'[h], UnderWay(h)', delivered'[h], partial_packets'[h],
                     max_data_size[h])
  <2>1. Stream(submitted[h], link[h], tx, delivered[h], partial_packets[h], m)
    BY <1>3, <1>4, <1>13, <1>21, Zenon
  <2>2. ~(Len(tx[1].data) <= m) /\ m >= L2CAP_HEADER_SIZE
    BY <1>3, <1>4, <1>5, <1>6 DEF fragment_and_dispatch_full, Fits
  <2>3. /\ f.flag = tx[1].flag /\ f.l2cap_length = tx[1].l2cap_length
        /\ f.data = SubSeq(tx[1].data, 1, m)
        /\ r.data = SubSeq(tx[1].data, m + 1, Len(tx[1].data))
    BY <1>5, <1>7, <1>10, <1>12, Zenon
  <2>4. Stream(submitted[h], Append(link[h], f), <<r>>, delivered[h], partial_packets[h], m)
    <3>1. SentFull(tx, m, f, r)
      BY <1>3, <1>10, <1>12, <2>2, <2>3, Zenon DEF SentFull
    <3> QED
      BY <2>1, <3>1, StreamSendsFull, SMTT(30)
  <2> QED
    BY <1>3, <1>4, <1>13, <1>16, <1>18, <2>4, Zenon
<1> QED
  BY <1>3, <1>16, <1>19, <1>20, <1>21, OneHandle, Zenon

LEMMA fragment_and_dispatch_lastStep ==
  ASSUME FragmentInv, fragment_and_dispatch_last
  PROVE  FragmentInv'
<1>1. tx # Idle
  BY Zenon DEF fragment_and_dispatch_last
<1>2. PICK h : h = tx[1].handle
  OBVIOUS
<1>3. /\ SendTypes /\ LinkTypes /\ h \in Handles /\ held[h] = <<>> /\ tx # <<>>
      /\ \A g \in Handles : UnderWay(g) = IF g = h THEN tx ELSE held[g]
      /\ h \notin disturbed => Stream(submitted[h], link[h], tx, delivered[h],
                                      partial_packets[h], max_data_size[h])
  BY <1>1, <1>2, Sending, Zenon
<1>4. PICK p \in PacketType : p = tx[1]
  BY <1>1, <1>2, Sending, Zenon
<1>5. p.handle = h /\ p.flag \in Flags /\ p.l2cap_length \in Nat /\ p.data \in Seq(Byte)
  BY <1>2, <1>4 DEF PacketType
<1>6. PICK f : f = Fragment(p.flag, p.l2cap_length, p.data)
  BY SMTT(30)
<1>7. /\ f \in FragmentType /\ f.flag = p.flag /\ f.l2cap_length = p.l2cap_length
      /\ f.data = p.data
  BY <1>5, <1>6 DEF Fragment, FragmentType
<1>8. /\ link' = [link EXCEPT ![h] = Append(link[h], f)] /\ tx' = <<>> /\ held' = held
      /\ submitted' = submitted /\ partial_packets' = partial_packets
      /\ connections' = connections /\ disturbed' = disturbed /\ delivered' = delivered
  BY <1>4, <1>5, <1>6 DEF fragment_and_dispatch_last, Idle
<1>9. <<>> \in Seq(PacketType) /\ Len(<<>>) <= 1
  OBVIOUS
<1>10. SendTypes'
  BY <1>3, <1>8, <1>9, Zenon DEF SendTypes, Idle
<1>11. \A g \in Handles : UnderWay(g)' = held[g]
  BY <1>8, Zenon DEF UnderWay, Idle
<1>12. Append(link[h], f) \in Seq(FragmentType)
  BY <1>3, <1>7, AppendProperties, SMTT(30) DEF LinkTypes
<1>13. /\ link' \in [Handles -> Seq(FragmentType)] /\ link'[h] = Append(link[h], f)
       /\ \A g \in Handles : g # h => link'[g] = link[g]
  BY <1>3, <1>8, <1>12, Updated, SMTT(30) DEF LinkTypes
<1>14. LinkTypes'
  BY <1>3, <1>8, <1>13 DEF LinkTypes
<1>15. Elsewhere(h)
  BY <1>3, <1>8, <1>11, <1>13, Zenon DEF Elsewhere
<1>16. ASSUME h \notin disturbed'
       PROVE  Stream(submitted'[h], link'[h], UnderWay(h)', delivered'[h], partial_packets'[h],
                     max_data_size[h])
  <2>1. Stream(submitted[h], link[h], tx, delivered[h], partial_packets[h], max_data_size[h])
    BY <1>3, <1>8, <1>16, Zenon
  <2>2. SentLast(tx, max_data_size[h], f)
    <3>1. Len(tx[1].data) <= max_data_size[h]
      BY <1>4, <1>5, Zenon DEF fragment_and_dispatch_last, Fits
    <3> QED
      BY <1>3, <1>4, <1>7, <3>1, Zenon DEF SentLast
  <2>3. Stream(submitted[h], Append(link[h], f), <<>>, delivered[h], partial_packets[h],
               max_data_size[h])
    BY <2>1, <2>2, StreamSendsLast, SMTT(30)
  <2> QED
    BY <1>3, <1>8, <1>11, <1>13, <2>3, Zenon
<1> QED
  BY <1>3, <1>10, <1>14, <1>15, <1>16, OneHandle, Zenon

\* Whatever fragment comes, the partial packet misses bytes and fits its buffer.
OutcomeRight(out) ==
  /\ out.partial \in Seq(PartialType) /\ PartialRight(out.partial)
  /\ out.packets \in Seq(Seq(Byte))

LEMMA OutcomeIs ==
  ASSUME NEW partial \in Seq(PartialType), PartialRight(partial), NEW packets \in Seq(Seq(Byte))
  PROVE  OutcomeRight(Outcome(partial, packets))
<1>1. /\ Outcome(partial, packets).partial = partial
      /\ Outcome(partial, packets).packets = packets
  BY DEF Outcome
<1> QED
  BY <1>1, Zenon DEF OutcomeRight

LEMMA StartOutcome ==
  ASSUME NEW f \in FragmentType, NEW pt \in Seq(PartialType), PartialRight(pt)
  PROVE  OutcomeRight(reassemble_start(pt, f))
<1>1. PICK data \in Seq(Byte), l \in Nat : data = f.data /\ l = full_length(f)
  BY FragmentAssumption DEF FragmentType, full_length
<1>2. PICK n \in Nat : n = Len(data)
  BY LenProperties
<1>3. <<>> \in Seq(PartialType) /\ PartialRight(<<>>) /\ <<>> \in Seq(Seq(Byte))
  BY DEF PartialRight
<1>5. OutcomeRight(Outcome(pt, <<>>)) /\ OutcomeRight(Outcome(<<>>, <<>>))
  BY <1>3, OutcomeIs, Zenon
<1>6. OutcomeRight(Outcome(<<>>, <<data>>))
  <2>1. <<data>> \in Seq(Seq(Byte))
    BY Single
  <2> QED
    BY <1>3, <2>1, OutcomeIs, Zenon
<1>7. ASSUME l <= MaxLength, ~(l <= n)
      PROVE  OutcomeRight(Outcome(<<[len |-> l, data |-> data]>>, <<>>))
  <2>0. PICK p : p = [len |-> l, data |-> data]
    BY Zenon
  <2>1. p \in PartialType /\ p.len = l /\ p.data = data
    BY <2>0 DEF PartialType
  <2>2. <<p>> \in Seq(PartialType) /\ Len(<<p>>) = 1 /\ <<p>>[1] = p /\ 1 <= 1
    BY <2>1, Single
  <2>3. n < l
    BY <1>7
  <2>4. PartialRight(<<p>>)
    BY <1>2, <1>7, <2>1, <2>2, <2>3, Zenon DEF PartialRight
  <2>5. OutcomeRight(Outcome(<<p>>, <<>>))
    BY <1>3, <2>2, <2>4, OutcomeIs, Zenon
  <2> QED
    BY <2>0, <2>5, Zenon
<1>8. CASE n < 2
  <2>1. reassemble_start(pt, f) = Outcome(pt, <<>>)
    BY <1>1, <1>2, <1>8, FragmentAssumption, SMTT(30) DEF reassemble_start
  <2> QED
    BY <1>5, <2>1, Zenon
<1>9. CASE n >= 2 /\ n < L2CAP_HEADER_SIZE
  <2>1. reassemble_start(pt, f) = Outcome(<<>>, <<>>)
    BY <1>1, <1>2, <1>9, FragmentAssumption DEF reassemble_start
  <2> QED
    BY <1>5, <2>1, Zenon
<1>10. CASE n >= L2CAP_HEADER_SIZE /\ l > MaxLength
  <2>1. reassemble_start(pt, f) = Outcome(<<>>, <<>>)
    BY <1>1, <1>2, <1>10, FragmentAssumption DEF reassemble_start
  <2> QED
    BY <1>5, <2>1, Zenon
<1>11. CASE n >= L2CAP_HEADER_SIZE /\ l <= MaxLength
  <2>1. reassemble_start(pt, f) = IF l <= n THEN Outcome(<<>>, <<data>>)
                                  ELSE Outcome(<<[len |-> l, data |-> data]>>, <<>>)
    BY <1>1, <1>2, <1>11, FragmentAssumption, SMTT(30) DEF reassemble_start
  <2> QED
    BY <1>6, <1>7, <1>11, <2>1, Zenon
<1>12. \/ n < 2
       \/ n >= 2 /\ n < L2CAP_HEADER_SIZE
       \/ n >= L2CAP_HEADER_SIZE /\ l > MaxLength
       \/ n >= L2CAP_HEADER_SIZE /\ l <= MaxLength
  BY FragmentAssumption
<1> QED
  BY <1>8, <1>9, <1>10, <1>11, <1>12, Zenon

LEMMA ContinuationOutcome ==
  ASSUME NEW f \in FragmentType, NEW pt \in Seq(PartialType), PartialRight(pt)
  PROVE  OutcomeRight(reassemble_continuation(pt, f))
<1>1. <<>> \in Seq(PartialType) /\ PartialRight(<<>>) /\ <<>> \in Seq(Seq(Byte))
  BY DEF PartialRight
<1>3. CASE pt = <<>>
  BY <1>1, <1>3, OutcomeIs, Zenon DEF reassemble_continuation
<1>4. CASE pt # <<>>
  <2>1. PICK p \in PartialType : p = pt[1] /\ Len(p.data) < p.len /\ p.len <= MaxLength
    BY <1>4, AtMostOne, Zenon DEF PartialRight
  <2>2. PICK had \in Seq(Byte), l \in Nat : had = p.data /\ l = p.len
    BY DEF PartialType
  <2>3. PICK new \in Seq(Byte) : new = f.data
    BY DEF FragmentType
  <2>4. PICK a \in Nat, b \in Nat : a = Len(had) /\ b = Len(new)
    BY LenProperties
  <2>5. a < l /\ l <= MaxLength
    BY <2>1, <2>2, <2>4, Zenon
  <2>6. PICK c \in Seq(Byte) : c = Copied(p, new) /\ Len(c) <= l - a
    <3>1. CASE b <= l - a
      BY <2>2, <2>4, <3>1, Zenon DEF Copied
    <3>2. CASE ~(b <= l - a)
      <4>1. PICK q \in Nat : q = l - a /\ 0 <= q /\ q <= b /\ 0 \in Nat
        BY <2>5, <3>2
      <4>2. SubSeq(new, 0 + 1, q) \in Seq(Byte) /\ Len(SubSeq(new, 0 + 1, q)) = q - 0
        BY <2>4, <4>1, Part, SMTT(30)
      <4>3. 0 + 1 = 1 /\ q - 0 = q /\ q <= q
        OBVIOUS
      <4>4. Copied(p, new) = SubSeq(new, 1, q)
        BY <2>2, <2>4, <3>2, <4>1, Zenon DEF Copied
      <4> QED
        BY <4>1, <4>2, <4>3, <4>4, Zenon
    <3> QED
      BY <3>1, <3>2
  <2>7. PICK data \in Seq(Byte) : data = had \o c /\ Len(data) = a + Len(c) /\ Len(c) \in Nat
    <3>1. had \o c \in Seq(Byte) /\ Len(had \o c) = Len(had) + Len(c) /\ Len(c) \in Nat
      BY ConcatProperties, LenProperties
    <3> QED
      BY <2>4, <3>1, Zenon
  <2>8. reassemble_continuation(pt, f) =
          IF Len(data) = l THEN Outcome(<<>>, <<data>>)
          ELSE Outcome(<<[p EXCEPT !.data = data]>>, <<>>)
    BY <1>4, <2>1, <2>2, <2>3, <2>6, <2>7, Zenon DEF reassemble_continuation
  <2>9. CASE Len(data) = l
    <3>1. <<data>> \in Seq(Seq(Byte))
      BY Single
    <3> QED
      <4>1. OutcomeRight(Outcome(<<>>, <<data>>))
        BY <1>1, <3>1, OutcomeIs, Zenon
      <4> QED
        BY <2>8, <2>9, <4>1, Zenon
  <2>10. CASE Len(data) # l
    <3>0. PICK q : q = [p EXCEPT !.data = data]
      BY Zenon
    <3>1. q \in PartialType /\ q.len = l /\ q.data = data
      BY <2>2, <3>0, Zenon DEF PartialType
    <3>2. <<q>> \in Seq(PartialType) /\ Len(<<q>>) = 1 /\ <<q>>[1] = q /\ 1 <= 1
      BY <3>1, Single
    <3>3. Len(data) < l
      BY <2>5, <2>6, <2>7, <2>10
    <3>4. PartialRight(<<q>>)
      BY <2>5, <3>1, <3>2, <3>3, Zenon DEF PartialRight
    <3> QED
      <4>1. OutcomeRight(Outcome(<<q>>, <<>>))
        BY <1>1, <3>2, <3>4, OutcomeIs, Zenon
      <4> QED
        BY <2>8, <2>10, <3>0, <4>1, Zenon
  <2> QED
    BY <2>9, <2>10
<1> QED
  BY <1>3, <1>4

LEMMA reassemble_and_dispatchStep ==
  ASSUME FragmentInv, NEW h \in Handles, reassemble_and_dispatch(h)
  PROVE  FragmentInv'
<1>1. SendTypes /\ LinkTypes /\ link[h] # <<>>
  BY Zenon DEF FragmentInv, reassemble_and_dispatch
<1>2. PICK lk \in Seq(FragmentType), pt \in Seq(PartialType), dl \in Seq(Seq(Byte)) :
        lk = link[h] /\ pt = partial_packets[h] /\ dl = delivered[h]
  BY <1>1 DEF LinkTypes
<1>3. /\ Tail(lk) \in Seq(FragmentType) /\ Head(lk) = lk[1] /\ lk[1] \in FragmentType
  BY <1>1, <1>2, TailAt
<1>4. PICK f \in FragmentType : f = Head(lk)
  BY <1>3, Zenon
<1>5. PICK out : out = IF f.flag = "start" THEN reassemble_start(pt, f)
                       ELSE reassemble_continuation(pt, f)
  OBVIOUS
<1>6. OutcomeRight(out)
  <2>1. PartialRight(pt)
    BY <1>1, <1>2, Zenon DEF LinkTypes
  <2> QED
    BY <1>5, <2>1, StartOutcome, ContinuationOutcome, Zenon
<1>7. /\ partial_packets' = [partial_packets EXCEPT ![h] = out.partial]
      /\ delivered' = [delivered EXCEPT ![h] = dl \o out.packets]
      /\ link' = [link EXCEPT ![h] = Tail(lk)]
      /\ tx' = tx /\ held' = held /\ connections' = connections /\ disturbed' = disturbed
      /\ submitted' = submitted
  BY <1>2, <1>4, <1>5, SMTT(30) DEF reassemble_and_dispatch
<1>8. /\ partial_packets' \in [Handles -> Seq(PartialType)] /\ partial_packets'[h] = out.partial
      /\ \A g \in Handles : g # h => partial_packets'[g] = partial_packets[g]
  <2>1. out.partial \in Seq(PartialType)
    BY <1>6, Zenon DEF OutcomeRight
  <2> QED
    BY <1>1, <1>7, <2>1, Updated, SMTT(30) DEF LinkTypes
<1>9. /\ delivered' \in [Handles -> Seq(Seq(Byte))] /\ delivered'[h] = dl \o out.packets
      /\ \A g \in Handles : g # h => delivered'[g] = delivered[g]
  <2>1. out.packets \in Seq(Seq(Byte))
    BY <1>6, Zenon DEF OutcomeRight
  <2>2. dl \o out.packets \in Seq(Seq(Byte))
    BY <2>1, ConcatProperties
  <2>3. PICK all \in Seq(Seq(Byte)) : all = dl \o out.packets
    BY <2>2, Zenon
  <2>4. delivered' = [delivered EXCEPT ![h] = all] /\ delivered \in [Handles -> Seq(Seq(Byte))]
    BY <1>1, <1>7, <2>3, Zenon DEF LinkTypes
  <2>5. /\ delivered' \in [Handles -> Seq(Seq(Byte))] /\ delivered'[h] = all
        /\ \A g \in Handles : g # h => delivered'[g] = delivered[g]
    BY <2>4, Updated, SMTT(30)
  <2> QED
    BY <2>3, <2>5, Zenon
<1>10. /\ link' \in [Handles -> Seq(FragmentType)] /\ link'[h] = Tail(lk)
       /\ \A g \in Handles : g # h => link'[g] = link[g]
  BY <1>1, <1>3, <1>7, Updated, SMTT(30) DEF LinkTypes
<1>11. \A g \in Handles : PartialRight(partial_packets'[g])
  BY <1>1, <1>6, <1>8, Zenon DEF LinkTypes, OutcomeRight
<1>12. LinkTypes'
  BY <1>1, <1>7, <1>8, <1>9, <1>10, <1>11, Zenon DEF LinkTypes
<1>13. SendTypes'
  BY <1>1, <1>7, Zenon DEF SendTypes
<1>14. \A g \in Handles : UnderWay(g)' = UnderWay(g)
  BY <1>7, Zenon DEF UnderWay
<1>15. Elsewhere(h)
  BY <1>7, <1>8, <1>9, <1>10, <1>14, Zenon DEF Elsewhere
<1>16. ASSUME h \notin disturbed'
       PROVE  Stream(submitted'[h], link'[h], UnderWay(h)', delivered'[h], partial_packets'[h],
                     max_data_size[h])
  <2>1. Stream(submitted[h], lk, UnderWay(h), dl, pt, max_data_size[h])
    BY <1>2, <1>7, <1>16, Zenon DEF FragmentInv, StreamOf
  <2>2. Reassembled(lk, pt, out)
    BY <1>1, <1>2, <1>4, <1>5, ZenonT(30) DEF Reassembled
  <2>3. Stream(submitted[h], Tail(lk), UnderWay(h), dl \o out.packets, out.partial,
               max_data_size[h])
    BY <2>1, <2>2, StreamReceives, SMTT(30)
  <2> QED
    BY <1>7, <1>8, <1>9, <1>10, <1>14, <2>3, Zenon
<1> QED
  BY <1>12, <1>13, <1>15, <1>16, OneHandle, Zenon

LEMMA stray_fragmentStep ==
  ASSUME FragmentInv, NEW h \in Handles, stray_fragment(h)
  PROVE  FragmentInv'
<1>1. SendTypes /\ LinkTypes /\ disturbed = {}
  BY Zenon DEF FragmentInv, stray_fragment
<1>2. PICK f \in StrayFragments : link' = [link EXCEPT ![h] = <<f>>]
  BY Zenon DEF stray_fragment
<1>3. f \in FragmentType
  BY FragmentAssumption, Zenon DEF FragmentType, Flags
<1>4. <<f>> \in Seq(FragmentType)
  BY <1>3, Single, SMTT(30)
<1>5. /\ link' \in [Handles -> Seq(FragmentType)]
      /\ \A g \in Handles : g # h => link'[g] = link[g]
  BY <1>1, <1>2, <1>4, Updated, SMTT(30) DEF LinkTypes
<1>6. /\ tx' = tx /\ held' = held /\ partial_packets' = partial_packets /\ disturbed' = {h}
      /\ connections' = connections /\ submitted' = submitted /\ delivered' = delivered
  BY DEF stray_fragment
<1>7. LinkTypes'
  BY <1>1, <1>5, <1>6, Zenon DEF LinkTypes
<1>8. SendTypes'
  BY <1>1, <1>6, Zenon DEF SendTypes
<1>9. \A g \in Handles : UnderWay(g)' = UnderWay(g)
  BY <1>6, Zenon DEF UnderWay
<1>10. Elsewhere(h)
  BY <1>1, <1>5, <1>6, <1>9, Zenon DEF Elsewhere
<1>11. h \in disturbed'
  BY <1>6
<1> QED
  BY <1>7, <1>8, <1>10, <1>11, OneHandle, Zenon

LEMMA reconnectStep ==
  ASSUME FragmentInv, NEW h \in Handles, reconnect(h)
  PROVE  FragmentInv'
<1>1. SendTypes /\ LinkTypes
  BY Zenon DEF FragmentInv
<1>2. /\ link' = [link EXCEPT ![h] = <<>>] /\ held' = [held EXCEPT ![h] = <<>>]
      /\ submitted' = [submitted EXCEPT ![h] = <<>>]
      /\ delivered' = [delivered EXCEPT ![h] = <<>>]
      /\ tx' = tx /\ partial_packets' = partial_packets /\ disturbed' = disturbed \ {h}
  BY DEF reconnect
<1>3. connections' \in 0 .. MaxConnections
  BY <1>1, FragmentAssumption DEF reconnect, LinkTypes
<1>4. /\ <<>> \in Seq(PacketType) /\ <<>> \in Seq(FragmentType) /\ <<>> \in Seq(Seq(Byte))
      /\ Len(<<>>) <= 1
  OBVIOUS
<1>5. /\ link' \in [Handles -> Seq(FragmentType)] /\ link'[h] = <<>>
      /\ \A g \in Handles : g # h => link'[g] = link[g]
  BY <1>1, <1>2, <1>4, Updated, SMTT(30) DEF LinkTypes
<1>6. /\ held' \in [Handles -> Seq(PacketType)] /\ held'[h] = <<>>
      /\ \A g \in Handles : g # h => held'[g] = held[g]
  BY <1>1, <1>2, <1>4, Updated, SMTT(30) DEF SendTypes
<1>7. /\ submitted' \in [Handles -> Seq(Seq(Byte))] /\ submitted'[h] = <<>>
      /\ \A g \in Handles : g # h => submitted'[g] = submitted[g]
  BY <1>1, <1>2, <1>4, Updated, SMTT(30) DEF LinkTypes
<1>8. /\ delivered' \in [Handles -> Seq(Seq(Byte))] /\ delivered'[h] = <<>>
      /\ \A g \in Handles : g # h => delivered'[g] = delivered[g]
  BY <1>1, <1>2, <1>4, Updated, SMTT(30) DEF LinkTypes
<1>9. LinkTypes'
  BY <1>1, <1>2, <1>3, <1>5, <1>7, <1>8, Zenon DEF LinkTypes
<1>10. tx # Idle => tx[1].handle \in Handles /\ tx[1].handle # h
  <2>1. tx # Idle => Len(tx) = 1 /\ tx[1].handle \in Handles
    BY <1>1, UnderWayIs, Zenon
  <2>2. Len(tx) = 1 => 1 \in DOMAIN tx
    BY <1>1, LenProperties DEF SendTypes
  <2> QED
    BY <2>1, <2>2, Zenon DEF reconnect
<1>11. SendTypes'
  <2>1. \A g \in Handles : Len(held'[g]) <= 1 /\ (held'[g] # <<>> => held'[g][1].handle = g)
    <3>1. TAKE g \in Handles
    <3>2. CASE g = h
      BY <1>4, <1>6, <3>2, Zenon
    <3>3. CASE g # h
      BY <1>1, <1>6, <3>3, Zenon DEF SendTypes
    <3> QED
      BY <3>2, <3>3, SMTT(30)
  <2>2. tx' # Idle => held'[tx'[1].handle] = <<>>
    BY <1>1, <1>2, <1>6, <1>10, Zenon DEF SendTypes
  <2> QED
    BY <1>1, <1>2, <1>6, <2>1, <2>2, Zenon DEF SendTypes
<1>12. \A g \in Handles : g # h => UnderWay(g)' = UnderWay(g)
  BY <1>2, <1>6, Zenon DEF UnderWay
<1>13. UnderWay(h)' = <<>>
  BY <1>2, <1>6, <1>10, Zenon DEF UnderWay
<1>14. Elsewhere(h)
  BY <1>2, <1>5, <1>7, <1>8, <1>12, Zenon DEF Elsewhere
<1>15. Stream(<<>>, <<>>, <<>>, <<>>, partial_packets[h], max_data_size[h])
  BY <1>1, NewStream DEF LinkTypes
<1>16. Stream(submitted'[h], link'[h], UnderWay(h)', delivered'[h], partial_packets'[h],
              max_data_size[h])
  BY <1>2, <1>5, <1>7, <1>8, <1>13, <1>15, Zenon
<1> QED
  BY <1>9, <1>11, <1>14, <1>16, OneHandle, Zenon

LEMMA FragmentStep ==
  ASSUME Usage, FragmentInv, [Next]_vars
  PROVE  FragmentInv'
<1>1. CASE UNCHANGED vars
  <2>1. /\ tx' = tx /\ held' = held /\ link' = link /\ partial_packets' = partial_packets
        /\ connections' = connections /\ disturbed' = disturbed /\ submitted' = submitted
        /\ delivered' = delivered
    BY <1>1 DEF vars
  <2>2. SendTypes' /\ LinkTypes'
    BY <2>1, Zenon DEF FragmentInv, SendTypes, LinkTypes
  <2>3. \A h \in Handles : UnderWay(h)' = UnderWay(h)
    BY <2>1, Zenon DEF UnderWay
  <2>4. \A h \in Handles : StreamOf(h)' <=> StreamOf(h)
    BY <2>1, <2>3 DEF StreamOf
  <2> QED
    BY <2>1, <2>2, <2>4, Zenon DEF FragmentInv
<1>2. CASE Next
  BY <1>2, send_packetStep, send_segmentsStep, fragment_and_dispatch_fullStep,
     fragment_and_dispatch_lastStep, reassemble_and_dispatchStep, stray_fragmentStep,
     reconnectStep, Zenon DEF Next
<1> QED
  BY <1>1, <1>2

LEMMA FragmentInvariance ==
  ASSUME Usage
  PROVE  Spec => []FragmentInv
<1>1. FragmentInv /\ [Next]_vars => FragmentInv'
  BY FragmentStep
<1> QED
  BY <1>1, FragmentInit, PTL DEF Spec

-------------------------------------------------------------------------------
(* The theorems.                                                            *)

\* At most one packet is being fragmented; one per handle is given back to
\* L2CAP or in partial_packets.
THEOREM TypeCorrect ==
  ASSUME Usage
  PROVE  Spec => []TypeOK
<1>1. ASSUME FragmentInv
      PROVE  TypeOK
  <2>1. SendTypes /\ LinkTypes
    BY <1>1, Zenon DEF FragmentInv
  <2>2. \A p \in Range(tx) : p \in PacketType
    BY <2>1, LenProperties DEF SendTypes, Range
  <2>3. \A p \in PacketType : p.handle \in Handles /\ p.flag \in {"start", "continuation"}
    BY DEF PacketType, Flags
  <2> QED
    BY <2>1, <2>2, <2>3, Zenon DEF TypeOK, SendTypes, LinkTypes, PartialRight
<1> QED
  BY <1>1, FragmentInvariance, PTL

\* The receiving side is never ahead of what was submitted.
LEMMA StreamDelivered ==
  ASSUME NEW sub, NEW lk, NEW up, NEW dl, NEW pt, NEW m, Stream(sub, lk, up, dl, pt, m)
  PROVE  /\ sub \in Seq(Seq(Byte)) /\ dl \in Seq(Seq(Byte)) /\ Len(dl) <= Len(sub)
         /\ \A i \in 1 .. Len(dl) : dl[i] = sub[i]
         /\ lk = <<>> /\ up = <<>> => Len(dl) = Len(sub)
<1>1. /\ SubmittedRight(sub) /\ UpRight(sub, up) /\ LinkRight(sub, lk, up, m)
      /\ Received(sub, dl, pt, LinkFirst(sub, lk, up), LinkOffset(lk, up))
  BY Zenon DEF Stream
<1>2. sub \in Seq(Seq(Byte)) /\ dl \in Seq(Seq(Byte)) /\ \A i \in 1 .. Len(dl) : dl[i] = sub[i]
  BY <1>1, Zenon DEF SubmittedRight, Received
<1>3. PICK n \in Nat : n = Len(sub)
  BY <1>2, LenProperties
<1>4. PICK k : k = LinkFirst(sub, lk, up)
  OBVIOUS
<1>5. Len(dl) = k - 1
  BY <1>1, <1>4, Zenon DEF Received
<1>6. lk # <<>> => k \in 1 .. n
  <2>1. lk # <<>> => 1 \in 1 .. Len(lk)
    BY <1>1, EmptySeq DEF LinkRight
  <2> QED
    BY <1>1, <1>3, <1>4, <2>1, Zenon DEF LinkFirst, LinkRight, IsCut
<1>7. lk = <<>> /\ up # <<>> => k \in 1 .. n
  BY <1>1, <1>3, <1>4, Zenon DEF LinkFirst, UpFirst, UpRight, IsCut
<1>8. lk = <<>> /\ up = <<>> => k = n + 1
  BY <1>3, <1>4, Zenon DEF LinkFirst, UpFirst
<1>9. k - 1 <= n /\ (lk = <<>> /\ up = <<>> => k - 1 = n)
  BY <1>6, <1>7, <1>8, SMTT(30)
<1> QED
  BY <1>2, <1>3, <1>5, <1>9, Zenon

\* What callbacks->reassembled gets on a connection is what L2CAP submitted on
\* it, packet for packet, byte for byte and in order: whatever the data sizes,
\* lengths and numbers of segments, however the fragments of several handles
\* interleave, and whatever partial packet an earlier connection left.
THEOREM DeliveredAsSubmitted ==
  ASSUME Usage
  PROVE  Spec => []DeliveredInOrder
<1>1. ASSUME FragmentInv
      PROVE  DeliveredInOrder
  <2>1. ASSUME NEW h \in Handles \ disturbed
        PROVE  /\ Len(delivered[h]) <= Len(submitted[h])
               /\ \A i \in DOMAIN delivered[h] : delivered[h][i] = submitted[h][i]
    <3>1. Stream(submitted[h], link[h], UnderWay(h), delivered[h], partial_packets[h],
                 max_data_size[h])
      BY <1>1, <2>1, ZenonT(30) DEF FragmentInv, StreamOf
    <3>2. /\ delivered[h] \in Seq(Seq(Byte)) /\ Len(delivered[h]) <= Len(submitted[h])
          /\ \A i \in 1 .. Len(delivered[h]) : delivered[h][i] = submitted[h][i]
      BY <3>1, StreamDelivered, SMTT(30)
    <3>3. DOMAIN delivered[h] = 1 .. Len(delivered[h])
      BY <3>2, LenProperties, Zenon
    <3> QED
      BY <3>2, <3>3, Zenon
  <2> QED
    BY <2>1, Zenon DEF DeliveredInOrder
<1> QED
  BY <1>1, FragmentInvariance, PTL

\* No byte gets stuck: with no packet at the fragmenter, given back to L2CAP or
\* on its way, all that was submitted has been reassembled and delivered.
THEOREM NothingStuck ==
  ASSUME Usage
  PROVE  Spec => []AllDelivered
<1>1. ASSUME FragmentInv
      PROVE  AllDelivered
  <2>1. ASSUME tx = Idle, NEW h \in Handles \ disturbed, link[h] = <<>>, held[h] = <<>>
        PROVE  delivered[h] = submitted[h]
    <3>1. UnderWay(h) = <<>>
      BY <2>1, Zenon DEF UnderWay
    <3>2. Stream(submitted[h], link[h], UnderWay(h), delivered[h], partial_packets[h],
                 max_data_size[h])
      BY <1>1, <2>1, Zenon DEF FragmentInv, StreamOf
    <3>3. /\ submitted[h] \in Seq(Seq(Byte)) /\ delivered[h] \in Seq(Seq(Byte))
          /\ Len(delivered[h]) = Len(submitted[h])
          /\ \A i \in 1 .. Len(delivered[h]) : delivered[h][i] = submitted[h][i]
      BY <2>1, <3>1, <3>2, StreamDelivered, SMTT(30)
    <3> QED
      BY <3>3, SeqEqual, Zenon
  <2> QED
    BY <2>1, Zenon DEF AllDelivered
<1> QED
  BY <1>1, FragmentInvariance, PTL

\* Every fragment fits the controller's buffer and carries a byte; a packet in
\* partial_packets misses bytes and stays within the buffer allocated for it,
\* whatever fragments the peer sends.
THEOREM BuffersRespected ==
  ASSUME Usage
  PROVE  Spec => []WithinBuffers
<1>1. ASSUME FragmentInv
      PROVE  WithinBuffers
  <2>1. SendTypes /\ LinkTypes
    BY <1>1, Zenon DEF FragmentInv
  <2>2. ASSUME NEW h \in Handles, h \notin disturbed, NEW f \in Range(link[h])
        PROVE  Len(f.data) \in 1 .. max_data_size[h]
    <3>1. Stream(submitted[h], link[h], UnderWay(h), delivered[h], partial_packets[h],
                 max_data_size[h])
      BY <1>1, <2>2, Zenon DEF FragmentInv, StreamOf
    <3>2. LinkRight(submitted[h], link[h], UnderWay(h), max_data_size[h])
      BY <3>1, Zenon DEF Stream
    <3>3. link[h] \in Seq(FragmentType) /\ DOMAIN link[h] = 1 .. Len(link[h])
      BY <3>2, LenProperties, Zenon DEF LinkRight
    <3>4. PICK i \in 1 .. Len(link[h]) : f = link[h][i]
      BY <2>2, <3>3, Zenon DEF Range
    <3>5. Len(f.data) >= 1 /\ Len(f.data) <= max_data_size[h]
      BY <3>2, <3>4, Zenon DEF LinkRight, IsCut
    <3>6. f \in FragmentType
      BY <3>3, <3>4, ElementOfSeq, Zenon
    <3>7. Len(f.data) \in Nat
      BY <3>6, LenProperties DEF FragmentType
    <3>8. max_data_size[h] \in Nat
      BY FragmentAssumption
    <3> QED
      BY <3>5, <3>7, <3>8
  <2>3. ASSUME NEW h \in Handles, NEW p \in Range(partial_packets[h])
        PROVE  Len(p.data) < p.len /\ p.len <= MaxLength
    <3>1. PICK pt \in Seq(PartialType) : pt = partial_packets[h] /\ PartialRight(pt)
      BY <2>1 DEF LinkTypes
    <3>2. Len(pt) \in Nat /\ Len(pt) <= 1 /\ DOMAIN pt = 1 .. Len(pt)
      BY <3>1, LenProperties DEF PartialRight
    <3>3. \A i \in 1 .. Len(pt) : i = 1 /\ pt # <<>>
      BY <3>2
    <3>4. p = pt[1] /\ pt # <<>>
      BY <2>3, <3>1, <3>2, <3>3, Zenon DEF Range
    <3> QED
      BY <3>1, <3>4, Zenon DEF PartialRight
  <2> QED
    BY <2>2, <2>3, Zenon DEF WithinBuffers
<1> QED
  BY <1>1, FragmentInvariance, PTL
===============================================================================
