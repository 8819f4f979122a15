--------------------------- MODULE HlsSourceProofs ---------------------------
(***************************************************************************)
(* Proofs about hls.Source, for every segment length, size of the cache    *)
(* and of the playlist, and every sequence of packets: the six properties  *)
(* the run hls checks.                                                     *)
(*                                                                         *)
(* None of them is inductive.  What makes them so is that the segment that *)
(* is being written and the audio held back are together one run of        *)
(* packets, from a key frame to the last packet taken (WritingOK); that    *)
(* the segments in the cache are such runs, numbered without a gap, each   *)
(* beginning where the one before ended (Chain); and what a playlist that  *)
(* was fetched some segments ago still has to do with the cache            *)
(* (PlaylistOK).                                                           *)
(***************************************************************************)
EXTENDS HlsSource, SequenceTheorems, WellFoundedInduction, TLAPS

Frames == [kind : {"key", "inter", "audio"}, no : Nat]
AudioFrames == [kind : {"audio"}, no : Nat]

\* What the muxer writes to a segment.
Items == Frames \cup {PSI}

Segments == [name : Nat \X Nat, seq : Nat, duration : Int, data : Seq(Items)]

\* data is a segment of its own: the packets from first to last.
Run(data, first, last) ==
    /\ first \in Nat \ {0} /\ last \in Nat
    /\ Len(data) = last - first + 2
    /\ Len(data) >= 2
    /\ data[1] = PSI
    /\ data[2] = [kind |-> "key", no |-> first]
    /\ \A i \in 2..Len(data) : data[i] \in Frames /\ data[i].no \in first..last
    /\ \A n \in first..last : \E i \in 2..Len(data) : data[i].no = n
    /\ Ordered(data)

\* The numbers of its first and its last packet.
FirstNo(data) == data[2].no
LastNo(data) == data[2].no + Len(data) - 2

-----------------------------------------------------------------------------
(* Segments *)

\* A packet that goes to the segment, before audio that is held back.
LEMMA InsertRun ==
    ASSUME NEW b \in Seq(Items), NEW a \in Seq(AudioFrames), NEW x \in Frames,
           NEW first, NEW last,
           Len(b) >= 2, Run(b \o a, first, last), x.no = last + 1,
           IsVideo(x) \/ a = <<>>
    PROVE  Run(Append(b, x) \o a, first, last + 1)
<1> DEFINE old == b \o a
           s == Append(b, x)
           new == s \o a
           m == Len(b) + 1
<1>0. x \in Items /\ a \in Seq(Items)
  <2>1. AudioFrames \subseteq Items /\ Frames \subseteq Items
    BY DEF Items, Frames, AudioFrames
  <2> QED
    BY <2>1, SeqMonotonic
<1>1. Len(b) \in Nat /\ Len(a) \in Nat
  BY LenProperties
<1>2. /\ s \in Seq(Items) /\ Len(s) = m /\ s[m] = x
      /\ \A i \in 1..Len(b) : s[i] = b[i]
  BY <1>0, AppendProperties
<1>3. /\ Len(old) = Len(b) + Len(a)
      /\ \A i \in 1..Len(old) : old[i] = IF i <= Len(b) THEN b[i] ELSE a[i - Len(b)]
  BY <1>0, ConcatProperties
<1> HIDE DEF s
<1>4. /\ Len(new) = m + Len(a)
      /\ \A i \in 1..Len(new) : new[i] = IF i <= m THEN s[i] ELSE a[i - m]
  <2>1. /\ Len(new) = Len(s) + Len(a)
        /\ \A i \in 1..(Len(s) + Len(a)) :
             new[i] = IF i <= Len(s) THEN s[i] ELSE a[i - Len(s)]
    <3>1. s \in Seq(Items) /\ a \in Seq(Items)
      BY <1>0, <1>2
    <3> QED
      BY <3>1, ConcatProperties
  <2> HIDE DEF new, m
  <2> QED
    BY <1>2, <2>1
<1>r. /\ first \in Nat \ {0} /\ last \in Nat
      /\ Len(old) = last - first + 2
      /\ Len(old) >= 2
      /\ old[1] = PSI
      /\ old[2] = [kind |-> "key", no |-> first]
  BY DEF Run
<1>i. \A i \in 2..Len(old) : old[i] \in Frames /\ old[i].no \in first..last
  BY DEF Run
<1>n. \A n \in first..last : \E i \in 2..Len(old) : old[i].no = n
  BY DEF Run
<1>o. \A p, q \in 2..Len(old) :
        p < q /\ (IsVideo(old[p]) <=> IsVideo(old[q])) => old[p].no < old[q].no
  BY DEF Run, Ordered
<1> HIDE DEF old, new
<1>l. /\ Len(old) \in Nat /\ Len(new) \in Nat /\ m \in Nat
      /\ Len(new) = Len(old) + 1 /\ m >= 3 /\ m <= Len(new) /\ new[m] = x
  BY <1>1, <1>2, <1>3, <1>4
<1>v. ASSUME NEW i \in 1..Len(new), i < m
      PROVE  new[i] = old[i] /\ i \in 1..Len(old)
  <2>1. i \in 1..Len(b) /\ i \in 1..Len(old)
    BY <1>1, <1>3, <1>4, <1>v
  <2>2. new[i] = s[i] /\ old[i] = b[i]
    BY <1>1, <1>3, <1>4, <1>v, <2>1
  <2> QED
    BY <1>2, <2>1, <2>2
<1>w. ASSUME NEW i \in 1..Len(new), i > m
      PROVE  /\ new[i] = old[i - 1] /\ i - 1 \in 2..Len(old)
             /\ old[i - 1].kind = "audio"
  <2>1. /\ i - 1 \in 2..Len(old) /\ i - 1 \in 1..Len(old) /\ ~(i - 1 <= Len(b))
        /\ (i - 1) - Len(b) = i - m /\ i - m \in 1..Len(a)
    BY <1>1, <1>3, <1>4, <1>l, <1>w
  <2>2. new[i] = a[i - m]
    BY <1>4, <1>l, <1>w
  <2>3. old[i - 1] = a[i - m]
    BY <1>3, <2>1
  <2>4. a[i - m] \in AudioFrames
    BY <2>1, ElementOfSeq
  <2> QED
    BY <2>1, <2>2, <2>3, <2>4 DEF AudioFrames
<1> HIDE DEF m
<1>5. /\ first \in Nat \ {0} /\ last + 1 \in Nat /\ last \in Nat
      /\ Len(new) = (last + 1) - first + 2
      /\ Len(new) >= 2
      /\ new[1] = PSI
      /\ new[2] = [kind |-> "key", no |-> first]
  <2>1. new[1] = old[1] /\ new[2] = old[2]
    BY <1>l, <1>v
  <2>2. new[1] = PSI /\ new[2] = [kind |-> "key", no |-> first]
    BY <1>r, <2>1
  <2>3. Len(new) = (last - first + 2) + 1 /\ Len(new) >= 2
    BY <1>r, <1>l
  <2>4. first \in Nat \ {0} /\ last \in Nat /\ last + 1 \in Nat
    BY <1>r
  <2>5. Len(new) = (last + 1) - first + 2
    BY <2>3, <2>4
  <2> QED
    BY <2>2, <2>3, <2>4, <2>5
<1>a. \A n \in first..last : n \in first..(last + 1)
  BY <1>r
<1>6. ASSUME NEW i \in 2..Len(new)
      PROVE  new[i] \in Frames /\ new[i].no \in first..(last + 1)
  <2>1. CASE i < m
    <3>1. new[i] = old[i] /\ i \in 2..Len(old)
      BY <1>l, <1>v, <2>1
    <3>2. old[i] \in Frames /\ old[i].no \in first..last
      BY <1>i, <3>1
    <3> QED
      BY <1>a, <3>1, <3>2
  <2>2. CASE i = m
    BY <1>r, <1>l, <2>2
  <2>3. CASE i > m
    <3>1. i - 1 \in 2..Len(old) /\ new[i] = old[i - 1]
      BY <1>l, <1>w, <2>3
    <3>2. old[i - 1] \in Frames /\ old[i - 1].no \in first..last
      BY <1>i, <3>1
    <3> QED
      BY <1>a, <3>1, <3>2
  <2> QED
    BY <1>l, <2>1, <2>2, <2>3
<1>7. ASSUME NEW n \in first..(last + 1)
      PROVE  \E i \in 2..Len(new) : new[i].no = n
  <2>1. CASE n = last + 1
    BY <1>l, <2>1
  <2>2. CASE n # last + 1
    <3>0. n \in first..last
      BY <1>r, <2>2
    <3>1. PICK i \in 2..Len(old) : old[i].no = n
      BY <1>n, <3>0
    <3>2. CASE i < m
      <4>1. i \in 2..Len(new) /\ new[i] = old[i]
        BY <1>l, <1>v, <3>2
      <4> QED
        BY <3>1, <4>1
    <3>3. CASE i >= m
      <4>1. i + 1 \in 2..Len(new) /\ i + 1 \in 1..Len(new) /\ i + 1 > m /\ (i + 1) - 1 = i
        BY <1>l, <3>3
      <4>2. new[i + 1] = old[i]
        BY <1>w, <4>1
      <4> QED
        BY <3>1, <4>1, <4>2
    <3> QED
      BY <1>l, <3>2, <3>3
  <2> QED
    BY <2>1, <2>2
<1>8. Ordered(new)
  <2> SUFFICES ASSUME NEW i \in 2..Len(new), NEW j \in 2..Len(new), i < j,
                      IsVideo(new[i]) <=> IsVideo(new[j])
               PROVE  new[i].no < new[j].no
    BY DEF Ordered
  <2>1. CASE j < m
    <3>1. /\ new[i] = old[i] /\ i \in 2..Len(old)
          /\ new[j] = old[j] /\ j \in 2..Len(old)
      BY <1>l, <1>v, <2>1
    <3> QED
      BY <1>o, <3>1
  <2>2. CASE j = m
    <3>1. new[i] = old[i] /\ i \in 2..Len(old)
      BY <1>l, <1>v, <2>2
    <3>2. old[i].no \in first..last
      BY <1>i, <3>1
    <3>3. new[j].no = last + 1
      BY <1>l, <2>2
    <3>4. old[i].no < last + 1
      BY <1>r, <3>2
    <3> QED
      BY <3>1, <3>3, <3>4
  <2>3. CASE j > m /\ i # m
    <3>1. new[j] = old[j - 1] /\ j - 1 \in 2..Len(old)
      BY <1>l, <1>w, <2>3
    <3>2. CASE i < m
      <4>1. new[i] = old[i] /\ i \in 2..Len(old) /\ i < j - 1
        BY <1>l, <1>v, <2>3, <3>2
      <4> QED
        BY <1>o, <3>1, <4>1
    <3>3. CASE i > m
      <4>1. new[i] = old[i - 1] /\ i - 1 \in 2..Len(old) /\ i - 1 < j - 1
        BY <1>l, <1>w, <2>3, <3>3
      <4> QED
        BY <1>o, <3>1, <4>1
    <3> QED
      BY <1>l, <2>3, <3>2, <3>3
  <2>4. CASE j > m /\ i = m
    <3>1. new[j].kind = "audio" /\ j - m \in 1..Len(a)
      <4>1. new[j].kind = "audio"
        BY <1>l, <1>w, <2>4
      <4>2. j <= m + Len(a) /\ j > m /\ j \in Nat
        BY <1>4, <1>l, <2>4
      <4> QED
        BY <1>1, <1>l, <4>1, <4>2
    <3>2. ~IsVideo(new[j]) /\ a # <<>>
      BY <1>1, <3>1 DEF IsVideo
    <3>3. IsVideo(new[i])
      BY <1>l, <2>4, <3>2
    <3> QED
      BY <3>2, <3>3
  <2> QED
    BY <1>l, <2>1, <2>2, <2>3, <2>4
<1>9. Run(new, first, last + 1)
  BY <1>5, <1>6, <1>7, <1>8 DEF Run
<1> QED
  BY <1>9 DEF new, s

\* A segment with its first packet.
LEMMA FirstRun ==
    ASSUME NEW n \in Nat \ {0}
    PROVE  Run(Append(Tables, [kind |-> "key", no |-> n]), n, n)
<1> DEFINE key == [kind |-> "key", no |-> n]
           d == Append(Tables, key)
<1>1. Tables \in Seq(Items) /\ Len(Tables) = 1 /\ Tables[1] = PSI
  BY DEF Tables, Items
<1>2. key \in Frames /\ key \in Items
  BY DEF Frames, Items
<1> HIDE DEF key
<1>3. Len(d) = 2 /\ d[1] = PSI /\ d[2] = key
  <2>0. Tables \in Seq(Items) /\ key \in Items
    BY <1>1, <1>2
  <2>1. /\ Len(Append(Tables, key)) = Len(Tables) + 1
        /\ \A i \in 1..Len(Tables) : Append(Tables, key)[i] = Tables[i]
        /\ Append(Tables, key)[Len(Tables) + 1] = key
    BY <2>0, AppendProperties
  <2> QED
    BY <1>1, <2>1
<1> HIDE DEF d
<1>4. Run(d, n, n)
  BY <1>2, <1>3 DEF Run, Ordered, key
<1> QED
  BY <1>4 DEF d, key
-----------------------------------------------------------------------------
(* The cache of segments *)

Least(a, b) == IF a <= b THEN a ELSE b

\* An item of the cache holds a whole segment and says how long it is; ts are
\* the timestamps of all packets.
Sealed(item, src, ts) ==
    /\ Run(item.data, FirstNo(item.data), LastNo(item.data))
    /\ LastNo(item.data) <= Len(ts)
    /\ item.duration = ts[LastNo(item.data)] - ts[FirstNo(item.data)]
    /\ item.duration >= Duration
    /\ item.name = <<src, item.seq>>

\* The items of the cache c are numbered up to n, and each begins where the one
\* before it ends; next is where the segment after them begins.
Chain(c, src, n, ts, next) ==
    /\ Len(c) <= MaxTSCacheNum /\ Len(c) <= n
    /\ \A i \in 1..Len(c) :
         /\ Sealed(c[i], src, ts)
         /\ c[i].seq = n - Len(c) + i
    /\ \A i \in 1..Len(c) :
         LastNo(c[i].data) + 1 = IF i = Len(c) THEN next ELSE FirstNo(c[i + 1].data)

\* The item goes to the end of the cache; the oldest goes when it was full.
LEMMA PushItemIs ==
    ASSUME NEW c \in Seq(Segments), NEW item \in Segments, Len(c) <= MaxTSCacheNum
    PROVE  LET d == PushItem(c, item)
           IN  /\ d \in Seq(Segments)
               /\ Len(d) = Least(Len(c) + 1, MaxTSCacheNum)
               /\ d[Len(d)] = item
               /\ \A i \in 1..(Len(d) - 1) :
                    /\ i + Len(c) + 1 - Len(d) \in 1..Len(c)
                    /\ d[i] = c[i + Len(c) + 1 - Len(d)]
<1> DEFINE kept == IF Len(c) = MaxTSCacheNum THEN Tail(c) ELSE c
           d == PushItem(c, item)
<1>1. MaxTSCacheNum \in Nat /\ MaxTSCacheNum >= 1 /\ Len(c) \in Nat
  BY SourceAssumption
<1>2. /\ kept \in Seq(Segments)
      /\ Len(kept) = Least(Len(c), MaxTSCacheNum - 1)
      /\ \A i \in 1..Len(kept) : kept[i] = c[i + Len(c) - Len(kept)]
  <2>1. CASE Len(c) = MaxTSCacheNum
    <3>1. c # <<>>
      BY <1>1, <2>1
    <3>2. /\ kept \in Seq(Segments)
          /\ Len(kept) = Len(c) - 1
          /\ \A i \in 1..Len(kept) : kept[i] = c[i + 1]
      BY <2>1, <3>1, HeadTailProperties
    <3> QED
      BY <1>1, <2>1, <3>2 DEF Least
  <2>2. CASE Len(c) # MaxTSCacheNum
    <3>1. kept = c
      BY <2>2
    <3> HIDE DEF kept
    <3>2. \A i \in 1..Len(kept) : i + Len(c) - Len(kept) = i
      BY <1>1, <3>1
    <3> QED
      BY <1>1, <2>2, <3>1, <3>2 DEF Least
  <2> QED
    BY <2>1, <2>2
<1>3. d = Append(kept, item)
  BY DEF PushItem
<1> HIDE DEF kept, d
<1>4. /\ d \in Seq(Segments)
      /\ Len(d) = Len(kept) + 1
      /\ d[Len(kept) + 1] = item
      /\ \A i \in 1..Len(kept) : d[i] = kept[i]
  BY <1>2, <1>3, AppendProperties
<1>5. Len(kept) \in Nat /\ Len(d) = Least(Len(c) + 1, MaxTSCacheNum)
  BY <1>1, <1>2, <1>4 DEF Least
<1>6. ASSUME NEW i \in 1..(Len(d) - 1)
      PROVE  /\ i + Len(c) + 1 - Len(d) \in 1..Len(c)
             /\ d[i] = c[i + Len(c) + 1 - Len(d)]
  <2>1. i \in 1..Len(kept) /\ i + Len(c) + 1 - Len(d) = i + Len(c) - Len(kept)
    BY <1>1, <1>4, <1>5
  <2>2. d[i] = c[i + Len(c) - Len(kept)]
    BY <1>2, <1>4, <2>1
  <2>3. Len(kept) <= Len(c)
    BY <1>1, <1>2 DEF Least
  <2> QED
    BY <1>1, <1>5, <2>1, <2>2, <2>3
<1> QED
  BY <1>4, <1>5, <1>6 DEF d

\* A packet more leaves what is in the cache true.
LEMMA ChainFeeds ==
    ASSUME NEW c \in Seq(Segments), NEW src, NEW n \in Nat, NEW next,
           NEW ts \in Seq(Nat), NEW t \in Nat, Chain(c, src, n, ts, next)
    PROVE  Chain(c, src, n, Append(ts, t), next)
<1>1. /\ Len(Append(ts, t)) = Len(ts) + 1 /\ Len(ts) \in Nat
      /\ \A i \in 1..Len(ts) : Append(ts, t)[i] = ts[i]
  BY AppendProperties
<1>2. ASSUME NEW item \in Segments, Sealed(item, src, ts)
      PROVE  Sealed(item, src, Append(ts, t))
  <2>1. /\ FirstNo(item.data) \in 1..Len(ts)
        /\ LastNo(item.data) \in 1..Len(ts)
    <3> DEFINE first == FirstNo(item.data)
               last == LastNo(item.data)
    <3>1. Run(item.data, first, last) /\ last <= Len(ts)
      BY <1>2 DEF Sealed
    <3> HIDE DEF first, last
    <3>2. /\ first \in Nat \ {0} /\ last \in Nat
          /\ Len(item.data) = last - first + 2 /\ Len(item.data) >= 2
      BY <3>1 DEF Run
    <3>3. first \in 1..Len(ts) /\ last \in 1..Len(ts)
      BY <1>1, <3>1, <3>2
    <3> QED
      BY <3>3 DEF first, last
  <2> QED
    BY <1>1, <1>2, <2>1 DEF Sealed
<1>3. \A i \in 1..Len(c) : c[i] \in Segments
  OBVIOUS
<1> QED
  BY <1>2, <1>3 DEF Chain

\* The segment that was being written goes to the cache.
LEMMA ChainPush ==
    ASSUME NEW c \in Seq(Segments), NEW src, NEW n \in Nat, NEW ts \in Seq(Nat), NEW next,
           Chain(c, src, n, ts, next),
           NEW item \in Segments, Sealed(item, src, ts), item.seq = n + 1,
           FirstNo(item.data) = next, LastNo(item.data) = Len(ts)
    PROVE  Chain(PushItem(c, item), src, n + 1, ts, Len(ts) + 1)
<1> DEFINE d == PushItem(c, item)
<1>1. /\ d \in Seq(Segments)
      /\ Len(d) = Least(Len(c) + 1, MaxTSCacheNum)
      /\ d[Len(d)] = item
      /\ \A i \in 1..(Len(d) - 1) :
           /\ i + Len(c) + 1 - Len(d) \in 1..Len(c)
           /\ d[i] = c[i + Len(c) + 1 - Len(d)]
  BY PushItemIs DEF Chain
<1> HIDE DEF d
<1>2. /\ MaxTSCacheNum \in Nat /\ MaxTSCacheNum >= 1
      /\ Len(c) \in Nat /\ Len(c) <= n /\ Len(c) <= MaxTSCacheNum
  BY SourceAssumption DEF Chain
<1>3. Len(d) \in Nat /\ Len(d) >= 1 /\ Len(d) <= MaxTSCacheNum /\ Len(d) <= n + 1
  BY <1>1, <1>2 DEF Least
<1>4. ASSUME NEW i \in 1..Len(d)
      PROVE  /\ Sealed(d[i], src, ts)
             /\ d[i].seq = n + 1 - Len(d) + i
             /\ LastNo(d[i].data) + 1 = IF i = Len(d) THEN Len(ts) + 1
                                        ELSE FirstNo(d[i + 1].data)
  <2>1. CASE i = Len(d)
    BY <1>1, <1>2, <1>3, <2>1
  <2>2. CASE i # Len(d)
    <3> DEFINE k == i + Len(c) + 1 - Len(d)
    <3>1. i \in 1..(Len(d) - 1) /\ k \in 1..Len(c) /\ d[i] = c[k]
      BY <1>1, <1>3, <2>2
    <3>2. Sealed(c[k], src, ts) /\ c[k].seq = n - Len(c) + k
      BY <3>1 DEF Chain
    <3>3. n - Len(c) + k = n + 1 - Len(d) + i
      BY <1>2, <1>3
    <3>4. LastNo(c[k].data) + 1 = IF k = Len(c) THEN next ELSE FirstNo(c[k + 1].data)
      BY <3>1 DEF Chain
    <3>5. CASE i + 1 = Len(d)
      <4>1. k = Len(c)
        <5>1. Len(c) \in Nat /\ Len(d) \in Nat /\ i \in Nat
          BY <1>2, <1>3
        <5> QED
          BY <3>5, <5>1
      <4> QED
        BY <1>1, <2>2, <3>1, <3>2, <3>3, <3>4, <3>5, <4>1
    <3>6. CASE i + 1 # Len(d)
      <4>1. k # Len(c) /\ i + 1 \in 1..(Len(d) - 1) /\ k + 1 = (i + 1) + Len(c) + 1 - Len(d)
        BY <1>2, <1>3, <2>2, <3>6
      <4>2. d[i + 1] = c[k + 1]
        BY <1>1, <4>1
      <4> QED
        BY <2>2, <3>1, <3>2, <3>3, <3>4, <4>1, <4>2
    <3> QED
      BY <3>5, <3>6
  <2> QED
    BY <2>1, <2>2
<1>5. \A i \in 1..Len(d) : Sealed(d[i], src, ts) /\ d[i].seq = n + 1 - Len(d) + i
  BY <1>4
<1>6. \A i \in 1..Len(d) :
        LastNo(d[i].data) + 1 = IF i = Len(d) THEN Len(ts) + 1 ELSE FirstNo(d[i + 1].data)
  BY <1>4
<1>7. Chain(d, src, n + 1, ts, Len(ts) + 1)
  BY <1>3, <1>5, <1>6 DEF Chain
<1> QED
  BY <1>7 DEF d
-----------------------------------------------------------------------------
(* The playlist *)

\* The last segments of the cache.
LEMMA LastOfIs ==
    ASSUME NEW c \in Seq(Segments)
    PROVE  LET all == LastOf(c, PlaylistLen)
           IN  /\ all \in Seq(Segments)
               /\ Len(all) = Least(Len(c), PlaylistLen)
               /\ \A i \in 1..Len(all) :
                    /\ i + Len(c) - Len(all) \in 1..Len(c)
                    /\ all[i] = c[i + Len(c) - Len(all)]
<1> DEFINE all == LastOf(c, PlaylistLen)
<1>1. PlaylistLen \in Nat \ {0} /\ Len(c) \in Nat
  BY SourceAssumption
<1>2. CASE Len(c) > PlaylistLen
  <2>1. all = SubSeq(c, Len(c) - PlaylistLen + 1, Len(c))
    BY <1>2 DEF LastOf
  <2>2. /\ Len(c) - PlaylistLen + 1 \in 1..(Len(c) + 1)
        /\ Len(c) \in (Len(c) - PlaylistLen)..Len(c)
    BY <1>1, <1>2
  <2> HIDE DEF all
  <2>3. /\ all \in Seq(Segments)
        /\ Len(all) = PlaylistLen
        /\ \A i \in 1..PlaylistLen : all[i] = c[i + Len(c) - PlaylistLen]
    <3>1. /\ all \in Seq(Segments)
          /\ Len(all) = Len(c) - (Len(c) - PlaylistLen + 1) + 1
          /\ \A i \in 1..(Len(c) - (Len(c) - PlaylistLen + 1) + 1) :
               all[i] = c[(Len(c) - PlaylistLen + 1) + i - 1]
      BY <1>1, <1>2, <2>1, <2>2, SubSeqProperties
    <3>2. Len(c) - (Len(c) - PlaylistLen + 1) + 1 = PlaylistLen
      BY <1>1
    <3>3. \A i \in 1..PlaylistLen :
            (Len(c) - PlaylistLen + 1) + i - 1 = i + Len(c) - PlaylistLen
      BY <1>1
    <3> QED
      BY <3>1, <3>2, <3>3
  <2> QED
    BY <1>1, <1>2, <2>3 DEF Least, all
<1>3. CASE ~(Len(c) > PlaylistLen)
  <2>1. all = c
    BY <1>3 DEF LastOf
  <2> HIDE DEF all
  <2>2. \A i \in 1..Len(c) : i + Len(c) - Len(c) = i
    BY <1>1
  <2> QED
    BY <1>1, <1>3, <2>1, <2>2 DEF Least, all
<1> QED
  BY <1>2, <1>3

-----------------------------------------------------------------------------
(* The invariant *)

TypeOK ==
    /\ source \in Nat \ {0}
    /\ seq \in Nat
    /\ btswriter \in Seq(Items)
    /\ stat \in [hasSetFirstTs : BOOLEAN, firstTimestamp : Nat, lastTimestamp : Nat]
    /\ audio \in Seq(AudioFrames)
    /\ specific \in BOOLEAN
    /\ tsCache \in Seq(Segments)
    /\ now \in Nat
    /\ taken \in Nat
    /\ fed \in Nat
    /\ times \in Seq(Nat) /\ Len(times) = fed
    /\ age \in Nat

\* The segment that is written and the audio held back are one run of packets,
\* and stat has the times of the first and the last of them.
WritingOK ==
    /\ btswriter # <<>> =>
         /\ Len(btswriter) >= 2
         /\ Run(btswriter \o audio, FirstNo(btswriter), fed)
         /\ stat.hasSetFirstTs = TRUE
         /\ stat.firstTimestamp = times[FirstNo(btswriter)]
         /\ stat.lastTimestamp = times[fed]
    /\ btswriter = <<>> =>
         audio = <<>> /\ tsCache = <<>> /\ seq = 0 /\ fed = 0 /\ stat.hasSetFirstTs = FALSE

CacheOK == Chain(tsCache, source, seq, times, FirstNo(btswriter))

\* A playlist of this source lists segments numbered without a gap up to the one
\* that was the last when it was fetched, and the cache still has them unless it
\* is full.
PlaylistOK ==
    /\ playlist.source \in 0..source
    /\ playlist.source = source =>
         LET m == Len(playlist.names)
         IN  /\ m \in 0..PlaylistLen
             /\ m + age <= seq
             /\ playlist.seq = IF m = 0 THEN 0 ELSE seq - age - m + 1
             /\ \A i \in 1..m : playlist.names[i] = <<source, playlist.seq + i - 1>>
             /\ m + age >= Least(Len(tsCache), PlaylistLen)
             /\ Len(tsCache) >= Least(MaxTSCacheNum, m + age)

IInv == TypeOK /\ WritingOK /\ CacheOK /\ PlaylistOK

\* A new source, and no playlist fetched.
LEMMA InitIInv == Init => IInv
<1> SUFFICES ASSUME Init PROVE IInv
  OBVIOUS
<1>1. TypeOK
  <2>1. /\ btswriter \in Seq(Items) /\ audio \in Seq(AudioFrames)
        /\ tsCache \in Seq(Segments) /\ times \in Seq(Nat)
    BY DEF Init
  <2>2. stat \in [hasSetFirstTs : BOOLEAN, firstTimestamp : Nat, lastTimestamp : Nat]
    BY DEF Init, NewStatus
  <2>3. /\ source \in Nat \ {0} /\ seq \in Nat /\ now \in Nat /\ taken \in Nat
        /\ fed \in Nat /\ Len(times) = fed /\ age \in Nat
    BY DEF Init
  <2>4. specific \in BOOLEAN
    BY DEF Init
  <2> QED
    BY <2>1, <2>2, <2>3, <2>4 DEF TypeOK
<1>2. WritingOK
  BY DEF Init, WritingOK, NewStatus
<1>3. CacheOK
  BY SourceAssumption DEF Init, CacheOK, Chain
<1>4. PlaylistOK
  BY DEF Init, PlaylistOK, NoPlaylist
<1> QED
  BY <1>1, <1>2, <1>3, <1>4 DEF IInv

\* A packet that is written to the segment, or held back for it.
LEMMA WriteKeeps ==
    ASSUME IInv, now' \in Nat, Feed, stat' = Update(stat, now'),
           UNCHANGED <<source, seq, tsCache, playlist, age>>,
           btswriter # <<>>,
           btswriter' \in Seq(Items), audio' \in Seq(AudioFrames),
           specific' \in BOOLEAN, taken' \in Nat,
           Len(btswriter') >= 2, FirstNo(btswriter') = FirstNo(btswriter),
           Run(btswriter' \o audio', FirstNo(btswriter), fed + 1)
    PROVE  IInv'
<1> USE DEF Feed
<1>1. TypeOK
  BY DEF IInv
<1>2. /\ times' \in Seq(Nat) /\ Len(times') = fed + 1
      /\ times'[fed + 1] = now'
      /\ \A i \in 1..fed : times'[i] = times[i]
  BY <1>1, AppendProperties DEF TypeOK
<1>3. TypeOK'
  BY <1>1, <1>2 DEF TypeOK, Update
<1>4. WritingOK'
  <2>1. /\ stat.hasSetFirstTs = TRUE
        /\ stat.firstTimestamp = times[FirstNo(btswriter)]
        /\ FirstNo(btswriter) \in 1..fed
    <3>1. Run(btswriter \o audio, FirstNo(btswriter), fed)
      BY DEF IInv, WritingOK
    <3> DEFINE first == FirstNo(btswriter)
               data == btswriter \o audio
    <3> HIDE DEF first, data
    <3>2. first \in Nat \ {0} /\ fed \in Nat /\ Len(data) = fed - first + 2 /\ Len(data) >= 2
      BY <3>1 DEF Run, first, data
    <3>3. first \in 1..fed
      BY <3>2
    <3>4. FirstNo(btswriter) \in 1..fed
      BY <3>3 DEF first
    <3> QED
      BY <3>4 DEF IInv, WritingOK
  <2>2. /\ stat'.hasSetFirstTs = TRUE
        /\ stat'.firstTimestamp = times'[FirstNo(btswriter)]
        /\ stat'.lastTimestamp = times'[fed']
    BY <1>2, <2>1 DEF Update
  <2>3. btswriter' # <<>>
    OBVIOUS
  <2> QED
    BY <2>2, <2>3 DEF WritingOK
<1>5. CacheOK'
  BY <1>1, ChainFeeds DEF IInv, CacheOK, TypeOK
<1>6. PlaylistOK'
  BY DEF IInv, PlaylistOK
<1> QED
  BY <1>3, <1>4, <1>5, <1>6 DEF IInv

\* A step that leaves the source, the player and the history alone.
LEMMA IdleKeeps ==
    ASSUME IInv, now' \in Nat, specific' \in BOOLEAN, taken' \in Nat,
           UNCHANGED <<source, seq, btswriter, stat, audio, tsCache, fed, times,
                       playlist, age>>
    PROVE  IInv'
<1>1. TypeOK'
  BY DEF IInv, TypeOK
<1>2. WritingOK'
  BY DEF IInv, WritingOK
<1>3. CacheOK'
  BY DEF IInv, CacheOK
<1>4. PlaylistOK'
  BY DEF IInv, PlaylistOK
<1> QED
  BY <1>1, <1>2, <1>3, <1>4 DEF IInv

\* A packet that does not reach the muxer.
LEMMA SkipKeeps ==
    ASSUME IInv, NEW k, NEW dt \in Int, Skip(k, dt)
    PROVE  IInv'
<1>1. now' \in Nat /\ specific' \in BOOLEAN /\ taken' \in Nat
  BY DEF IInv, TypeOK, Skip, Take
<1> QED
  BY <1>1, IdleKeeps DEF Skip

\* A frame between two key frames.
LEMMA InterKeeps ==
    ASSUME IInv, NEW dt \in Int, Inter(dt)
    PROVE  IInv'
<1>t. TypeOK
  BY DEF IInv
<1>1. CASE btswriter # <<>>
  <2> DEFINE x == [kind |-> "inter", no |-> fed + 1]
  <2>1. x \in Frames /\ x \in Items /\ IsVideo(x) /\ x.no = fed + 1
    BY <1>t DEF TypeOK, Frames, Items, IsVideo
  <2>2. /\ btswriter' = Append(btswriter, x) /\ audio' = audio /\ Feed
        /\ stat' = Update(stat, now') /\ now' \in Nat /\ taken' \in Nat
        /\ UNCHANGED <<source, seq, specific, tsCache, playlist, age>>
    BY <1>1, <1>t DEF Inter, Take, TypeOK
  <2> HIDE DEF x
  <2>3. /\ Len(btswriter) >= 2
        /\ Run(btswriter \o audio, FirstNo(btswriter), fed)
    BY <1>1 DEF IInv, WritingOK
  <2>4. Run(btswriter' \o audio', FirstNo(btswriter), fed + 1)
    BY <1>t, <2>1, <2>2, <2>3, InsertRun DEF TypeOK
  <2>5. /\ btswriter' \in Seq(Items)
        /\ Len(btswriter') >= 2
        /\ FirstNo(btswriter') = FirstNo(btswriter)
    BY <1>t, <2>1, <2>2, <2>3, AppendProperties DEF TypeOK, FirstNo
  <2> QED
    BY <1>1, <1>t, <2>2, <2>4, <2>5, WriteKeeps DEF TypeOK
<1>2. CASE btswriter = <<>>
  <2>1. now' \in Nat /\ specific' \in BOOLEAN /\ taken' \in Nat
    BY <1>t DEF TypeOK, Inter, Take
  <2> QED
    BY <1>2, <2>1, IdleKeeps DEF Inter
<1> QED
  BY <1>1, <1>2

\* A frame of audio goes to the audio cache, and all of the cache to the segment
\* when it is full: the packets of the segment are the same either way.
LEMMA AudioKeeps ==
    ASSUME IInv, NEW dt \in Int, Audio(dt)
    PROVE  IInv'
<1>t. TypeOK
  BY DEF IInv
<1>1. CASE specific /\ btswriter # <<>>
  <2> DEFINE x == [kind |-> "audio", no |-> fed + 1]
             frames == Append(audio, x)
  <2>1. x \in AudioFrames /\ x \in Frames /\ x \in Items /\ x.no = fed + 1
    BY <1>t DEF TypeOK, Frames, AudioFrames, Items
  <2>2. /\ btswriter' = btswriter \o MuxAudio(frames).writes
        /\ audio' = MuxAudio(frames).left /\ Feed
        /\ stat' = Update(stat, now')
        /\ UNCHANGED <<source, seq, specific, tsCache, playlist, age>>
    BY <1>1 DEF Audio
  <2>m. now' \in Nat /\ taken' \in Nat /\ specific' \in BOOLEAN
    BY <1>t DEF Audio, Take, TypeOK
  <2> HIDE DEF x
  <2>3. /\ Len(btswriter) >= 2
        /\ Run(btswriter \o audio, FirstNo(btswriter), fed)
    BY <1>1 DEF IInv, WritingOK
  <2>4. /\ btswriter \in Seq(Items) /\ audio \in Seq(Items)
        /\ frames \in Seq(AudioFrames) /\ frames \in Seq(Items)
    <3>1. AudioFrames \subseteq Items
      BY DEF AudioFrames, Frames, Items
    <3> QED
      BY <1>t, <2>1, <3>1, SeqMonotonic, AppendProperties DEF TypeOK
  <2>5. /\ btswriter \o audio \in Seq(Items)
        /\ Len(btswriter \o audio) >= 2
    BY <2>3, <2>4, ConcatProperties DEF Run
  <2>6. Run(Append(btswriter \o audio, x), FirstNo(btswriter), fed + 1)
    <3>1. (btswriter \o audio) \o <<>> = btswriter \o audio
      BY <2>5, ConcatEmptySeq
    <3>2. Append(btswriter \o audio, x) \o <<>> = Append(btswriter \o audio, x)
      BY <2>1, <2>5, AppendProperties, ConcatEmptySeq
    <3>3. <<>> \in Seq(AudioFrames)
      OBVIOUS
    <3> QED
      BY <2>1, <2>3, <2>5, <3>1, <3>2, <3>3, InsertRun
  <2>7. btswriter' \o audio' = Append(btswriter \o audio, x)
    <3>1. btswriter \o frames = Append(btswriter \o audio, x)
      BY <2>1, <2>4, AppendIsConcat, ConcatAssociative
    <3>2. btswriter' \o audio' = btswriter \o frames
      <4>1. CASE Len(frames) >= MaxFrames
        <5>1. btswriter' = btswriter \o frames /\ audio' = <<>>
          BY <2>2, <4>1 DEF MuxAudio
        <5>2. (btswriter \o frames) \o <<>> = btswriter \o frames
          BY <2>4, ConcatProperties, ConcatEmptySeq
        <5> QED
          BY <5>1, <5>2
      <4>2. CASE ~(Len(frames) >= MaxFrames)
        <5>1. btswriter' = btswriter \o <<>> /\ audio' = frames
          BY <2>2, <4>2 DEF MuxAudio
        <5>2. btswriter \o <<>> = btswriter
          BY <2>4, ConcatEmptySeq
        <5> QED
          BY <5>1, <5>2
      <4> QED
        BY <4>1, <4>2
    <3> QED
      BY <3>1, <3>2
  <2>8. /\ btswriter' \in Seq(Items)
        /\ Len(btswriter') >= 2
        /\ FirstNo(btswriter') = FirstNo(btswriter)
        /\ audio' \in Seq(AudioFrames)
    <3>1. MuxAudio(frames).writes \in Seq(Items)
      BY <2>4 DEF MuxAudio
    <3>2. /\ btswriter' \in Seq(Items)
          /\ Len(btswriter') >= Len(btswriter)
          /\ btswriter'[2] = btswriter[2]
      BY <2>2, <2>3, <2>4, <3>1, ConcatProperties
    <3>3. audio' \in Seq(AudioFrames)
      BY <2>2, <2>4 DEF MuxAudio
    <3> QED
      BY <2>3, <2>4, <3>2, <3>3 DEF FirstNo
  <2> QED
    BY <1>1, <2>2, <2>m, <2>6, <2>7, <2>8, WriteKeeps
<1>2. CASE ~(specific /\ btswriter # <<>>)
  <2>1. now' \in Nat /\ specific' \in BOOLEAN /\ taken' \in Nat
    BY <1>t DEF TypeOK, Audio, Take
  <2> QED
    BY <1>2, <2>1, IdleKeeps DEF Audio
<1> QED
  BY <1>1, <1>2

\* The item that cut puts into the cache.
CutItem ==
    [name |-> <<source, seq + 1>>, seq |-> seq + 1, duration |-> DurationMs(stat),
     data |-> btswriter \o audio]

\* The segment that is cut is whole, long enough and as long as it says.
LEMMA CutItemSealed ==
    ASSUME IInv, Cuts
    PROVE  /\ CutItem \in Segments
           /\ Sealed(CutItem, source, times)
           /\ FirstNo(CutItem.data) = FirstNo(btswriter)
           /\ LastNo(CutItem.data) = fed
<1> DEFINE data == btswriter \o audio
           first == FirstNo(btswriter)
<1>t. TypeOK
  BY DEF IInv
<1>1. /\ Len(btswriter) >= 2
      /\ Run(data, first, fed)
      /\ stat.firstTimestamp = times[first]
      /\ stat.lastTimestamp = times[fed]
      /\ DurationMs(stat) >= Duration
  BY DEF IInv, WritingOK, Cuts
<1>2. btswriter \in Seq(Items) /\ audio \in Seq(Items) /\ data \in Seq(Items)
  <2>1. AudioFrames \subseteq Items
    BY DEF AudioFrames, Frames, Items
  <2> QED
    BY <1>t, <2>1, SeqMonotonic, ConcatProperties DEF TypeOK
<1>3. FirstNo(data) = first
  BY <1>1, <1>2, ConcatProperties DEF FirstNo
<1> HIDE DEF data, first
<1>4. /\ first \in Nat \ {0} /\ fed \in Nat /\ Len(data) = fed - first + 2
      /\ Len(data) >= 2
  BY <1>1 DEF Run
<1>5. LastNo(data) = fed /\ first \in 1..fed
  BY <1>3, <1>4 DEF LastNo, FirstNo
<1>6. /\ CutItem.name = <<source, seq + 1>> /\ CutItem.seq = seq + 1
      /\ CutItem.duration = DurationMs(stat) /\ CutItem.data = data
  BY DEF CutItem, data
<1>7. CutItem \in Segments
  <2>1. /\ seq + 1 \in Nat /\ <<source, seq + 1>> \in Nat \X Nat
        /\ DurationMs(stat) \in Int
    BY <1>t DEF TypeOK, DurationMs
  <2> QED
    BY <1>2, <2>1 DEF CutItem, Segments, data
<1>8. Sealed(CutItem, source, times)
  <2>1. fed = Len(times)
    BY <1>t DEF TypeOK
  <2> QED
    BY <1>1, <1>3, <1>4, <1>5, <1>6, <2>1 DEF Sealed, DurationMs
<1> QED
  BY <1>3, <1>5, <1>6, <1>7, <1>8 DEF first

\* A key frame cuts the segment when it is long enough, and begins one or goes
\* to the one that is there.
LEMMA KeyKeeps ==
    ASSUME IInv, NEW dt \in Int, Key(dt)
    PROVE  IInv'
<1> DEFINE x == [kind |-> "key", no |-> fed + 1]
<1>t. TypeOK
  BY DEF IInv
<1>x. x \in Frames /\ x \in Items /\ IsVideo(x) /\ x.no = fed + 1
  BY <1>t DEF TypeOK, Frames, Items, IsVideo
<1>f. /\ now' \in Nat /\ taken' \in Nat /\ specific' \in BOOLEAN /\ Feed
      /\ UNCHANGED <<source, specific, playlist>>
  BY <1>t DEF Key, Take, TypeOK
<1>s. /\ times' \in Seq(Nat) /\ Len(times') = fed + 1 /\ fed' = fed + 1
      /\ times'[fed + 1] = now' /\ times' = Append(times, now')
  BY <1>t, <1>f, AppendProperties DEF TypeOK, Feed
<1>n. /\ Append(Tables, x) \in Seq(Items)
      /\ Len(Append(Tables, x)) = 2
      /\ FirstNo(Append(Tables, x)) = fed + 1
      /\ Run(Append(Tables, x) \o <<>>, fed + 1, fed + 1)
  <2>1. Tables \in Seq(Items) /\ Len(Tables) = 1
    BY DEF Tables, Items
  <2>2. /\ Append(Tables, x) \in Seq(Items)
        /\ Len(Append(Tables, x)) = Len(Tables) + 1
        /\ Append(Tables, x)[Len(Tables) + 1] = x
    <3>1. Tables \in Seq(Items) /\ x \in Items
      BY <1>x, <2>1
    <3> HIDE DEF x
    <3> QED
      BY <3>1, AppendProperties
  <2>3. Append(Tables, x) \o <<>> = Append(Tables, x)
    BY <2>2, ConcatEmptySeq
  <2>4. Run(Append(Tables, x), fed + 1, fed + 1)
    BY <1>t, FirstRun DEF TypeOK
  <2> QED
    BY <1>x, <2>1, <2>2, <2>3, <2>4 DEF FirstNo
\* The first key frame of a source.
<1>1. CASE btswriter = <<>>
  <2>1. /\ btswriter' = Append(Tables, x)
        /\ stat' = Update(stat, now')
        /\ UNCHANGED <<seq, tsCache, audio, age>>
    BY <1>1 DEF Key, Cuts
  <2>2. audio = <<>> /\ tsCache = <<>> /\ seq = 0 /\ fed = 0 /\ stat.hasSetFirstTs = FALSE
    BY <1>1 DEF IInv, WritingOK
  <2> HIDE DEF x
  <2>3. TypeOK'
    BY <1>t, <1>f, <1>s, <1>n, <2>1 DEF TypeOK, Update
  <2>4. WritingOK'
    <3>1. stat' = [hasSetFirstTs |-> TRUE, firstTimestamp |-> now', lastTimestamp |-> now']
      BY <2>1, <2>2 DEF Update
    <3>2. btswriter' # <<>> /\ audio' = <<>>
      BY <1>n, <2>1, <2>2
    <3> QED
      BY <1>s, <1>n, <2>1, <3>1, <3>2 DEF WritingOK
  <2>5. CacheOK'
    BY <1>t, <2>1, <2>2, SourceAssumption DEF CacheOK, Chain, TypeOK
  <2>6. PlaylistOK'
    BY <1>f, <2>1 DEF IInv, PlaylistOK
  <2> QED
    BY <2>3, <2>4, <2>5, <2>6 DEF IInv
\* The segment is too short.
<1>2. CASE btswriter # <<>> /\ ~Cuts
  <2>1. /\ btswriter' = Append(btswriter, x) /\ audio' = audio
        /\ stat' = Update(stat, now')
        /\ UNCHANGED <<source, seq, specific, tsCache, playlist, age>>
    BY <1>2 DEF Key
  <2> HIDE DEF x
  <2>2. /\ Len(btswriter) >= 2
        /\ Run(btswriter \o audio, FirstNo(btswriter), fed)
    BY <1>2 DEF IInv, WritingOK
  <2>3. Run(btswriter' \o audio', FirstNo(btswriter), fed + 1)
    BY <1>t, <1>x, <2>1, <2>2, InsertRun DEF TypeOK
  <2>4. /\ btswriter' \in Seq(Items)
        /\ Len(btswriter') >= 2
        /\ FirstNo(btswriter') = FirstNo(btswriter)
    BY <1>t, <1>x, <2>1, <2>2, AppendProperties DEF TypeOK, FirstNo
  <2> QED
    BY <1>2, <1>t, <1>f, <2>1, <2>3, <2>4, WriteKeeps DEF TypeOK
\* The segment is cut.
<1>3. CASE Cuts
  <2>1. /\ seq' = seq + 1
        /\ tsCache' = PushItem(tsCache, CutItem)
        /\ audio' = <<>>
        /\ btswriter' = Append(Tables, x)
        /\ stat' = Update(ResetAndNew(stat), now')
        /\ age' = age + 1
    BY <1>3 DEF Key, CutItem, FlushAudio
  <2> HIDE DEF x
  <2>2. /\ CutItem \in Segments /\ CutItem.seq = seq + 1
        /\ Sealed(CutItem, source, times)
        /\ FirstNo(CutItem.data) = FirstNo(btswriter)
        /\ LastNo(CutItem.data) = fed
    BY <1>3, CutItemSealed DEF CutItem
  <2>3. /\ tsCache \in Seq(Segments) /\ Len(tsCache) <= MaxTSCacheNum
        /\ Chain(tsCache, source, seq, times, FirstNo(btswriter))
        /\ times \in Seq(Nat) /\ Len(times) = fed /\ seq \in Nat
    BY <1>t DEF IInv, CacheOK, Chain, TypeOK
  <2>4. /\ tsCache' \in Seq(Segments)
        /\ Len(tsCache') = Least(Len(tsCache) + 1, MaxTSCacheNum)
    BY <2>1, <2>2, <2>3, PushItemIs
  <2>5. /\ stat'.hasSetFirstTs = TRUE /\ stat'.firstTimestamp = now'
        /\ stat'.lastTimestamp = now'
        /\ stat' \in [hasSetFirstTs : BOOLEAN, firstTimestamp : Nat, lastTimestamp : Nat]
    BY <1>t, <1>f, <2>1 DEF Update, ResetAndNew, TypeOK
  <2>6. TypeOK'
    <3>1. /\ source' \in Nat \ {0} /\ seq' \in Nat /\ fed' \in Nat /\ age' \in Nat
          /\ Len(times') = fed' /\ audio' \in Seq(AudioFrames)
      BY <1>t, <1>f, <1>s, <2>1 DEF TypeOK
    <3> QED
      BY <1>f, <1>s, <1>n, <2>1, <2>4, <2>5, <3>1 DEF TypeOK
  <2>7. WritingOK'
    <3>1. btswriter' # <<>>
      BY <1>n, <2>1
    <3> QED
      BY <1>s, <1>n, <2>1, <2>5, <3>1 DEF WritingOK
  <2>8. CacheOK'
    <3>1. Chain(tsCache', source, seq + 1, times, fed + 1)
      BY <2>1, <2>2, <2>3, ChainPush
    <3>2. Chain(tsCache', source, seq + 1, times', fed + 1)
      BY <1>f, <1>s, <2>3, <2>4, <3>1, ChainFeeds
    <3>3. FirstNo(btswriter') = fed + 1
      BY <1>n, <2>1
    <3> QED
      BY <1>f, <2>1, <3>2, <3>3 DEF CacheOK
  <2>9. PlaylistOK'
    <3>1. /\ playlist' = playlist /\ source' = source /\ seq' = seq + 1 /\ age' = age + 1
          /\ Len(tsCache') = Least(Len(tsCache) + 1, MaxTSCacheNum)
      BY <1>f, <2>1, <2>4
    <3>2. /\ age \in Nat /\ seq \in Nat /\ Len(tsCache) \in Nat
          /\ MaxTSCacheNum \in Nat /\ PlaylistLen \in Nat /\ MaxTSCacheNum >= PlaylistLen
      BY <1>t, SourceAssumption DEF TypeOK
    <3>3. ASSUME playlist.source = source
          PROVE  LET m == Len(playlist.names)
                 IN  /\ m \in 0..PlaylistLen
                     /\ m + age' <= seq'
                     /\ playlist.seq = IF m = 0 THEN 0 ELSE seq' - age' - m + 1
                     /\ \A i \in 1..m : playlist.names[i] = <<source, playlist.seq + i - 1>>
                     /\ m + age' >= Least(Len(tsCache'), PlaylistLen)
                     /\ Len(tsCache') >= Least(MaxTSCacheNum, m + age')
      <4> DEFINE m == Len(playlist.names)
      <4>1. /\ m \in 0..PlaylistLen
            /\ m + age <= seq
            /\ playlist.seq = IF m = 0 THEN 0 ELSE seq - age - m + 1
            /\ m + age >= Least(Len(tsCache), PlaylistLen)
            /\ Len(tsCache) >= Least(MaxTSCacheNum, m + age)
        BY <3>3 DEF IInv, PlaylistOK
      <4>2. \A i \in 1..m : playlist.names[i] = <<source, playlist.seq + i - 1>>
        BY <3>3 DEF IInv, PlaylistOK
      <4> HIDE DEF m
      <4>3. /\ m + age' <= seq'
            /\ playlist.seq = IF m = 0 THEN 0 ELSE seq' - age' - m + 1
            /\ m + age' >= Least(Len(tsCache'), PlaylistLen)
            /\ Len(tsCache') >= Least(MaxTSCacheNum, m + age')
        BY <2>3, <3>1, <3>2, <4>1 DEF Least
      <4> QED
        BY <4>1, <4>2, <4>3 DEF m
    <3> QED
      BY <3>1, <3>3 DEF IInv, PlaylistOK
  <2> QED
    BY <2>6, <2>7, <2>8, <2>9 DEF IInv
<1> QED
  BY <1>1, <1>2, <1>3

\* What is in the cache, of segments and of the segment being written.
LEMMA InvariantChain ==
    ASSUME IInv
    PROVE  /\ source \in Nat \ {0} /\ seq \in Nat /\ fed \in Nat
           /\ tsCache \in Seq(Segments) /\ Len(tsCache) \in Nat
           /\ Len(tsCache) <= seq /\ Len(tsCache) <= MaxTSCacheNum
           /\ Chain(tsCache, source, seq, times, FirstNo(btswriter))
           /\ \A i \in 1..Len(tsCache) :
                /\ Sealed(tsCache[i], source, times)
                /\ tsCache[i] \in Segments
                /\ tsCache[i].seq = seq - Len(tsCache) + i
                /\ tsCache[i].name = <<source, seq - Len(tsCache) + i>>
                /\ LastNo(tsCache[i].data) + 1 =
                     IF i = Len(tsCache) THEN FirstNo(btswriter)
                     ELSE FirstNo(tsCache[i + 1].data)
<1>1. /\ tsCache \in Seq(Segments) /\ seq \in Nat /\ source \in Nat \ {0} /\ fed \in Nat
  BY DEF IInv, TypeOK
<1>2. Chain(tsCache, source, seq, times, FirstNo(btswriter))
  BY DEF IInv, CacheOK
<1>3. ASSUME NEW i \in 1..Len(tsCache)
      PROVE  /\ Sealed(tsCache[i], source, times)
             /\ tsCache[i] \in Segments
             /\ tsCache[i].seq = seq - Len(tsCache) + i
             /\ tsCache[i].name = <<source, seq - Len(tsCache) + i>>
             /\ LastNo(tsCache[i].data) + 1 =
                  IF i = Len(tsCache) THEN FirstNo(btswriter)
                  ELSE FirstNo(tsCache[i + 1].data)
  <2>1. Sealed(tsCache[i], source, times) /\ tsCache[i].seq = seq - Len(tsCache) + i
    BY <1>2 DEF Chain
  <2>2. tsCache[i].name = <<source, tsCache[i].seq>>
    BY <2>1 DEF Sealed
  <2>3. LastNo(tsCache[i].data) + 1 =
          IF i = Len(tsCache) THEN FirstNo(btswriter) ELSE FirstNo(tsCache[i + 1].data)
    BY <1>2 DEF Chain
  <2> QED
    BY <1>1, <2>1, <2>2, <2>3
<1>4. Len(tsCache) <= seq /\ Len(tsCache) <= MaxTSCacheNum
  BY <1>2 DEF Chain
<1> QED
  BY <1>1, <1>2, <1>3, <1>4

\* What a playlist of the cache says.
LEMMA PlaylistIs ==
    ASSUME IInv,
           NEW p, p = GenM3U8File(tsCache), NEW m, m = Least(Len(tsCache), PlaylistLen)
    PROVE  /\ p.source = source
           /\ Len(p.names) = m
           /\ m \in Nat
           /\ p.seq = IF m = 0 THEN 0 ELSE seq - m + 1
           /\ \A i \in 1..m : p.names[i] = <<source, seq - m + i>>
<1> DEFINE all == LastOf(tsCache, PlaylistLen)
           n == Len(tsCache)
<1>1. /\ all \in Seq(Segments)
      /\ Len(all) = m
      /\ \A i \in 1..Len(all) :
           /\ i + n - Len(all) \in 1..n
           /\ all[i] = tsCache[i + n - Len(all)]
  BY InvariantChain, LastOfIs
<1>2. m \in Nat /\ n \in Nat /\ seq \in Nat
  BY InvariantChain, SourceAssumption DEF Least
<1>3. ASSUME NEW i \in 1..m
      PROVE  all[i].seq = seq - m + i /\ all[i].name = <<source, seq - m + i>>
  <2> DEFINE k == i + n - m
  <2>1. k \in 1..n /\ all[i] = tsCache[k]
    BY <1>1
  <2>2. tsCache[k].seq = seq - n + k /\ tsCache[k].name = <<source, seq - n + k>>
    BY <2>1, InvariantChain
  <2>3. seq - n + k = seq - m + i
    BY <1>2
  <2> QED
    BY <2>1, <2>2, <2>3
<1>4. /\ p.source = source
      /\ p.seq = IF all = <<>> THEN 0 ELSE all[1].seq
      /\ p.names = [i \in 1..Len(all) |-> all[i].name]
  BY DEF GenM3U8File
<1> HIDE DEF all
<1>5. Len(p.names) = m /\ \A i \in 1..m : p.names[i] = all[i].name
  BY <1>1, <1>2, <1>4
<1>6. p.seq = IF m = 0 THEN 0 ELSE seq - m + 1
  <2>1. all = <<>> <=> m = 0
    BY <1>1
  <2>2. m # 0 => 1 \in 1..m
    BY <1>2
  <2> QED
    BY <1>3, <1>4, <2>1, <2>2
<1>7. \A i \in 1..m : p.names[i] = <<source, seq - m + i>>
  BY <1>3, <1>5
<1> QED
  BY <1>2, <1>4, <1>5, <1>6, <1>7

\* A new source has no segment, and the playlist is not of it.
LEMMA RenewKeeps ==
    ASSUME IInv, Renew
    PROVE  IInv'
<1>t. TypeOK
  BY DEF IInv
<1>1. /\ source' = source + 1 /\ seq' = 0 /\ btswriter' = <<>> /\ stat' = NewStatus
      /\ audio' = <<>> /\ specific' = FALSE /\ tsCache' = <<>> /\ fed' = 0
      /\ times' = <<>> /\ now' = 0 /\ age' = 0 /\ taken' = taken /\ playlist' = playlist
  BY DEF Renew
<1>2. TypeOK'
  <2>1. /\ btswriter' \in Seq(Items) /\ audio' \in Seq(AudioFrames)
        /\ tsCache' \in Seq(Segments) /\ times' \in Seq(Nat) /\ Len(times') = 0
    BY <1>1
  <2>2. stat' \in [hasSetFirstTs : BOOLEAN, firstTimestamp : Nat, lastTimestamp : Nat]
    BY <1>1 DEF NewStatus
  <2>3. /\ source' \in Nat \ {0} /\ seq' \in Nat /\ now' \in Nat /\ taken' \in Nat
        /\ fed' \in Nat /\ Len(times') = fed' /\ age' \in Nat
    BY <1>t, <1>1, <2>1 DEF TypeOK
  <2>4. specific' \in BOOLEAN
    BY <1>1
  <2> QED
    BY <2>1, <2>2, <2>3, <2>4 DEF TypeOK
<1>3. WritingOK'
  BY <1>1 DEF WritingOK, NewStatus
<1>4. CacheOK'
  BY <1>1, SourceAssumption DEF CacheOK, Chain
<1>5. PlaylistOK'
  BY <1>t, <1>1 DEF IInv, PlaylistOK, TypeOK
<1> QED
  BY <1>2, <1>3, <1>4, <1>5 DEF IInv

\* A player fetches the playlist.
LEMMA FetchKeeps ==
    ASSUME IInv, Fetch
    PROVE  IInv'
<1>t. TypeOK
  BY DEF IInv
<1>1. /\ playlist' = GenM3U8File(tsCache) /\ age' = 0
      /\ UNCHANGED <<source, seq, btswriter, stat, audio, specific, tsCache, fed, times,
                     now, taken>>
  BY DEF Fetch, sourceVars
<1>2. TypeOK'
  BY <1>t, <1>1 DEF TypeOK
<1>3. WritingOK'
  BY <1>1 DEF IInv, WritingOK
<1>4. CacheOK'
  BY <1>1 DEF IInv, CacheOK
<1>5. PlaylistOK'
  <2> DEFINE m == Least(Len(tsCache), PlaylistLen)
  <2>1. Len(tsCache) \in Nat /\ Len(tsCache) <= seq /\ Len(tsCache) <= MaxTSCacheNum
    BY <1>t DEF IInv, CacheOK, Chain, TypeOK
  <2>2. /\ playlist'.source = source
        /\ Len(playlist'.names) = m
        /\ m \in Nat
        /\ playlist'.seq = IF m = 0 THEN 0 ELSE seq - m + 1
        /\ \A i \in 1..m : playlist'.names[i] = <<source, seq - m + i>>
    <3> DEFINE p == GenM3U8File(tsCache)
    <3>2. /\ p.source = source
          /\ Len(p.names) = m
          /\ m \in Nat
          /\ p.seq = IF m = 0 THEN 0 ELSE seq - m + 1
          /\ \A i \in 1..m : p.names[i] = <<source, seq - m + i>>
      <4>1. p = GenM3U8File(tsCache) /\ m = Least(Len(tsCache), PlaylistLen)
        OBVIOUS
      <4> HIDE DEF p, m
      <4> QED
        BY <4>1, PlaylistIs
    <3>3. playlist' = p
      BY <1>1
    <3> HIDE DEF p, m
    <3> QED
      BY <3>2, <3>3
  <2>3. /\ source \in Nat /\ seq \in Nat
        /\ PlaylistLen \in Nat /\ MaxTSCacheNum \in Nat
    BY <1>t, SourceAssumption DEF TypeOK
  <2>4. m <= Len(tsCache) /\ m <= PlaylistLen
    BY <2>1, <2>3 DEF Least
  <2>5. /\ Least(MaxTSCacheNum, m) <= Len(tsCache)
        /\ m >= Least(Len(tsCache), PlaylistLen)
    BY <2>1, <2>3 DEF Least
  <2> HIDE DEF m
  <2>6. \A i \in 1..m : playlist'.names[i] = <<source, playlist'.seq + i - 1>>
    <3> SUFFICES ASSUME NEW i \in 1..m
                 PROVE  playlist'.names[i] = <<source, playlist'.seq + i - 1>>
      OBVIOUS
    <3>1. playlist'.seq + i - 1 = seq - m + i
      BY <2>2, <2>3
    <3> QED
      BY <2>2, <3>1
  <2>7. /\ m \in 0..PlaylistLen /\ m + 0 = m /\ m <= seq
        /\ playlist'.seq = IF m = 0 THEN 0 ELSE seq - 0 - m + 1
    BY <2>1, <2>2, <2>3, <2>4
  <2> QED
    BY <1>1, <2>2, <2>3, <2>5, <2>6, <2>7 DEF PlaylistOK
<1> QED
  BY <1>2, <1>3, <1>4, <1>5 DEF IInv

\* The invariant holds in every state: whatever packets come and whenever the
\* source is replaced or a playlist is fetched (SendPacket, InitHlsPlayer).
THEOREM SourceInvariant == Spec => []IInv
<1>1. IInv /\ [Next]_vars => IInv'
  <2> SUFFICES ASSUME IInv, [Next]_vars PROVE IInv'
    OBVIOUS
  <2>1. ASSUME NEW k \in StreamKinds, NEW dt \in TimeSteps, Packet(k, dt)
        PROVE  IInv'
    <3>1. dt \in Int
      BY SourceAssumption
    <3> QED
      BY <2>1, <3>1, SkipKeeps, KeyKeeps, InterKeeps, AudioKeeps DEF Packet
  <2>2. CASE Renew
    BY <2>2, RenewKeeps
  <2>3. CASE Fetch
    BY <2>3, FetchKeeps
  <2>4. CASE UNCHANGED vars
    <3>1. now' \in Nat /\ specific' \in BOOLEAN /\ taken' \in Nat
      BY <2>4 DEF IInv, TypeOK, vars, sourceVars
    <3> QED
      BY <2>4, <3>1, IdleKeeps DEF vars, sourceVars
  <2> QED
    BY <2>1, <2>2, <2>3, <2>4 DEF Next
<1> QED
  BY <1>1, InitIInv, PTL DEF Spec

-----------------------------------------------------------------------------
(* The properties *)

\* A run of packets can be played.
LEMMA RunPlayable ==
    ASSUME NEW data, NEW first, NEW last, Run(data, first, last)
    PROVE  Playable(data) /\ Ordered(data)
<1>1. \A i \in 2..Len(data) : data[i].kind # "psi"
  BY DEF Run, Frames
<1> QED
  BY <1>1 DEF Run, Playable, PSI

\* The numbers of its packets.
LEMMA RunNumbers ==
    ASSUME NEW data, NEW first, NEW last, Len(data) \in Nat, Run(data, first, last)
    PROVE  Numbers(data) = first..last /\ FirstNo(data) = first /\ LastNo(data) = last
<1>1. {j \in 1..Len(data) : data[j].kind # "psi"} = 2..Len(data)
  <2>1. \A j \in 2..Len(data) : data[j].kind # "psi"
    BY DEF Run, Frames
  <2>2. data[1].kind = "psi" /\ Len(data) >= 2
    BY DEF Run, PSI
  <2> QED
    BY <2>1, <2>2
<1>2. Numbers(data) = {data[i].no : i \in 2..Len(data)}
  BY <1>1 DEF Numbers
<1>3. \A i \in 2..Len(data) : data[i].no \in first..last
  BY DEF Run
<1>4. \A n \in first..last : \E i \in 2..Len(data) : data[i].no = n
  BY DEF Run
<1>5. FirstNo(data) = first /\ LastNo(data) = last
  BY DEF Run, FirstNo, LastNo
<1> QED
  BY <1>2, <1>3, <1>4, <1>5

\* Every segment cut makes begins with the tables and a key frame, and neither
\* flushAudio nor muxAudio puts a frame before an earlier one of its stream.
THEOREM SegmentsArePlayable == Spec => []SegmentsPlayable
<1>1. IInv => SegmentsPlayable
  <2> SUFFICES ASSUME IInv PROVE SegmentsPlayable
    OBVIOUS
  <2>1. ASSUME NEW i \in 1..Len(tsCache)
        PROVE  Playable(tsCache[i].data) /\ Ordered(tsCache[i].data)
    BY InvariantChain, RunPlayable DEF Sealed
  <2>2. ASSUME btswriter # <<>>
        PROVE  Playable(btswriter) /\ Ordered(btswriter \o audio)
    <3> DEFINE data == btswriter \o audio
    <3>1. Len(btswriter) >= 2 /\ Run(data, FirstNo(btswriter), fed)
      BY <2>2 DEF IInv, WritingOK
    <3>2. /\ Len(btswriter) \in Nat /\ Len(btswriter) <= Len(data)
          /\ \A i \in 1..Len(btswriter) : data[i] = btswriter[i]
      <4>1. AudioFrames \subseteq Items
        BY DEF AudioFrames, Frames, Items
      <4>2. btswriter \in Seq(Items) /\ audio \in Seq(Items)
        BY <4>1, SeqMonotonic DEF IInv, TypeOK
      <4> QED
        BY <4>2, ConcatProperties, LenProperties
    <3>3. Playable(data) /\ Ordered(data)
      BY <3>1, RunPlayable
    <3> HIDE DEF data
    <3>4. Playable(btswriter)
      BY <3>1, <3>2, <3>3 DEF Playable
    <3> QED
      BY <3>3, <3>4 DEF data
  <2> QED
    BY <2>1, <2>2 DEF SegmentsPlayable
<1> QED
  BY <1>1, SourceInvariant, PTL

\* cut and muxAudio divide the stream: no packet is lost between two segments or
\* written to both, although audio is held back.
THEOREM SegmentsDivideTheStream == Spec => []SegmentsDivideStream
<1>1. IInv => SegmentsDivideStream
  <2> DEFINE cur == btswriter \o audio
             n == Len(tsCache)
             all == Append([i \in 1..n |-> tsCache[i].data], cur)
  <2> SUFFICES ASSUME IInv, btswriter # <<>>, NEW i \in 1..Len(all)
               PROVE  Numbers(all[i]) =
                        all[i][2].no..(IF i = Len(all) THEN fed ELSE all[i + 1][2].no - 1)
    BY DEF SegmentsDivideStream
  <2>1. cur \in Seq(Items) /\ Len(cur) \in Nat
    <3>1. AudioFrames \subseteq Items
      BY DEF AudioFrames, Frames, Items
    <3> QED
      BY <3>1, SeqMonotonic, ConcatProperties, LenProperties DEF IInv, TypeOK
  <2>2. Run(cur, FirstNo(btswriter), fed)
    BY DEF IInv, WritingOK
  <2>3. /\ Len(all) = n + 1 /\ n \in Nat
        /\ \A j \in 1..n : all[j] = tsCache[j].data
        /\ all[n + 1] = cur
    <3>1. n \in Nat /\ \A j \in 1..n : tsCache[j].data \in Seq(Items)
      BY InvariantChain DEF Segments
    <3> DEFINE s == [j \in 1..n |-> tsCache[j].data]
    <3>2. s \in Seq(Seq(Items)) /\ Len(s) = n /\ \A j \in 1..n : s[j] = tsCache[j].data
      BY <3>1, IsASeq, LenProperties
    <3> HIDE DEF s, n, cur
    <3>3. /\ Len(Append(s, cur)) = n + 1
          /\ Append(s, cur)[n + 1] = cur
          /\ \A j \in 1..n : Append(s, cur)[j] = s[j]
      BY <2>1, <3>1, <3>2, AppendProperties
    <3> QED
      BY <3>1, <3>2, <3>3 DEF s
  <2> HIDE DEF all, cur
  <2>4. CASE i = n + 1
    BY <2>1, <2>2, <2>3, <2>4, RunNumbers DEF FirstNo
  <2>5. CASE i # n + 1
    <3>1. i \in 1..n
      BY <2>3, <2>5
    <3>2. /\ Sealed(tsCache[i], source, times)
          /\ tsCache[i] \in Segments
          /\ LastNo(tsCache[i].data) + 1 =
               IF i = n THEN FirstNo(btswriter) ELSE FirstNo(tsCache[i + 1].data)
      BY <3>1, InvariantChain
    <3>3. Numbers(tsCache[i].data) = FirstNo(tsCache[i].data)..LastNo(tsCache[i].data)
      BY <3>2, RunNumbers, LenProperties DEF Sealed, Segments
    <3>4. LastNo(tsCache[i].data) + 1 = FirstNo(all[i + 1])
      <4>1. CASE i = n
        BY <2>1, <2>2, <2>3, <3>2, <4>1, RunNumbers
      <4>2. CASE i # n
        <5>1. i + 1 \in 1..n
          BY <2>3, <3>1, <4>2
        <5> QED
          BY <2>3, <3>2, <4>2, <5>1
      <4> QED
        BY <4>1, <4>2
    <3>5. LastNo(tsCache[i].data) \in Nat
      BY <3>2 DEF Sealed, Run
    <3>6. FirstNo(all[i + 1]) - 1 = LastNo(tsCache[i].data)
      BY <3>4, <3>5
    <3> QED
      BY <2>3, <2>5, <3>1, <3>3, <3>6 DEF FirstNo
  <2> QED
    BY <2>4, <2>5
<1> QED
  BY <1>1, SourceInvariant, PTL

\* The duration cut gives a segment is that of its packets (status), and none is
\* shorter than Duration.
THEOREM DurationsAreTrue == Spec => []DurationsTrue
<1>1. IInv => DurationsTrue
  <2> SUFFICES ASSUME IInv, NEW i \in 1..Len(tsCache)
               PROVE  LET first == tsCache[i].data[2].no
                          last == first + Len(tsCache[i].data) - 2
                      IN  /\ tsCache[i].duration = times[last] - times[first]
                          /\ tsCache[i].duration >= Duration
    BY DEF DurationsTrue
  <2>1. Sealed(tsCache[i], source, times)
    BY InvariantChain
  <2> QED
    BY <2>1 DEF Sealed, FirstNo, LastNo
<1> QED
  BY <1>1, SourceInvariant, PTL

\* The numbers of a playlist are those of the cache for as long as the source is
\* there (GenM3U8File, PushItem).
THEOREM PlaylistsHold == Spec => []PlaylistHolds
<1>1. IInv => PlaylistHolds
  <2> DEFINE m == Len(playlist.names)
             n == Len(tsCache)
  <2> SUFFICES ASSUME IInv, playlist.source = source
               PROVE  /\ playlist.seq <= GenM3U8File(tsCache).seq
                      /\ \A i \in 1..m, k \in 1..n :
                           tsCache[k].name = playlist.names[i] <=>
                             tsCache[k].seq = playlist.seq + i - 1
    BY DEF PlaylistHolds
  <2>1. /\ m \in 0..PlaylistLen
        /\ m + age <= seq
        /\ playlist.seq = IF m = 0 THEN 0 ELSE seq - age - m + 1
        /\ m + age >= Least(n, PlaylistLen)
        /\ n >= Least(MaxTSCacheNum, m + age)
    BY DEF IInv, PlaylistOK
  <2>2. \A i \in 1..m : playlist.names[i] = <<source, playlist.seq + i - 1>>
    BY DEF IInv, PlaylistOK
  <2>3. /\ n \in Nat /\ n <= seq /\ seq \in Nat /\ age \in Nat
        /\ \A k \in 1..n : /\ tsCache[k].seq = seq - n + k
                           /\ tsCache[k].name = <<source, seq - n + k>>
    BY InvariantChain DEF IInv, TypeOK
  <2>4. GenM3U8File(tsCache).seq =
          IF Least(n, PlaylistLen) = 0 THEN 0 ELSE seq - Least(n, PlaylistLen) + 1
    BY PlaylistIs
  <2>5. PlaylistLen \in Nat \ {0} /\ MaxTSCacheNum \in Nat \ {0}
    BY SourceAssumption
  <2> HIDE DEF m, n
  <2>6. playlist.seq <= GenM3U8File(tsCache).seq
    BY <2>1, <2>3, <2>4, <2>5 DEF Least
  <2>7. ASSUME NEW i \in 1..m, NEW k \in 1..n
        PROVE  tsCache[k].name = playlist.names[i] <=>
                 tsCache[k].seq = playlist.seq + i - 1
    BY <2>2, <2>3
  <2> QED
    BY <2>6, <2>7 DEF m, n
<1> QED
  BY <1>1, SourceInvariant, PTL

\* GetItem finds a listed segment, and no other by its name, until
\* MaxTSCacheNum - PlaylistLen more were pushed (PushItem).
THEOREM ListedAreServed == Spec => []ListedIsServed
<1>1. IInv => ListedIsServed
  <2> DEFINE m == Len(playlist.names)
             n == Len(tsCache)
  <2> SUFFICES ASSUME IInv, playlist.source = source, age <= MaxTSCacheNum - PlaylistLen,
                      NEW i \in 1..m
               PROVE  \E k \in 1..n : GetItem(tsCache, playlist.names[i]) = {k}
    BY DEF ListedIsServed
  <2>1. /\ m \in 0..PlaylistLen
        /\ m + age <= seq
        /\ playlist.seq = IF m = 0 THEN 0 ELSE seq - age - m + 1
        /\ n >= Least(MaxTSCacheNum, m + age)
    BY DEF IInv, PlaylistOK
  <2>2. playlist.names[i] = <<source, playlist.seq + i - 1>>
    BY DEF IInv, PlaylistOK
  <2>3. /\ n \in Nat /\ n <= seq /\ seq \in Nat /\ age \in Nat
        /\ \A k \in 1..n : tsCache[k].name = <<source, seq - n + k>>
    BY InvariantChain DEF IInv, TypeOK
  <2>5. PlaylistLen \in Nat \ {0} /\ MaxTSCacheNum \in Nat \ {0}
    BY SourceAssumption
  <2> HIDE DEF m, n
  <2>6. n >= m + age /\ playlist.seq = seq - age - m + 1
    BY <2>1, <2>3, <2>5 DEF Least
  <2> DEFINE k == playlist.seq + i - 1 - seq + n
  <2>7. k \in 1..n /\ seq - n + k = playlist.seq + i - 1
    BY <2>1, <2>3, <2>6
  <2>8. ASSUME NEW j \in 1..n
        PROVE  tsCache[j].name = playlist.names[i] <=> j = k
    BY <2>1, <2>2, <2>3, <2>6
  <2> HIDE DEF k
  <2>9. GetItem(tsCache, playlist.names[i]) = {k}
    BY <2>7, <2>8 DEF GetItem, n
  <2> QED
    BY <2>7, <2>9
<1> QED
  BY <1>1, SourceInvariant, PTL

\* A set of natural numbers that is not empty has a least one: the well-founded
\* order of the library, for induction over the length of a sequence.
LEMMA LeastNumber ==
    ASSUME NEW S \in SUBSET Nat, S # {}
    PROVE  \E m \in S : \A k \in S : m <= k
<1> DEFINE less == {ss \in Nat \X Nat : ss[1] < ss[2]}
<1>1. IsWellFoundedOn(less, Nat)
  BY NatLessThanWellFounded DEF OpToRel
<1>2. ASSUME NEW m \in Nat, NEW k \in Nat, ~(m <= k)
      PROVE  <<k, m>> \in less
  BY <1>2
<1> HIDE DEF less
<1>3. PICK m \in S : \A k \in S : ~(<<k, m>> \in less)
  BY <1>1, WFMin
<1> QED
  BY <1>2, <1>3

\* Of some integers one is the greatest.
LEMMA GreatestNumber ==
    ASSUME NEW n \in Nat \ {0}, NEW d \in [1..n -> Int]
    PROVE  \E j \in 1..n : \A k \in 1..n : d[k] <= d[j]
<1> DEFINE S == {m \in 1..n : \A j \in 1..m : \E k \in 1..m : ~(d[k] <= d[j])}
<1>1. S = {}
  <2> SUFFICES ASSUME S # {} PROVE FALSE
    OBVIOUS
  <2>1. S \in SUBSET Nat
    OBVIOUS
  <2>2. PICK m \in S : \A k \in S : m <= k
    <3> HIDE DEF S
    <3> QED
      BY <2>1, LeastNumber
  <2>3. m \in 1..n /\ \A j \in 1..m : \E k \in 1..m : ~(d[k] <= d[j])
    OBVIOUS
  <2>4. m # 1
    <3> SUFFICES ASSUME m = 1 PROVE FALSE
      OBVIOUS
    <3>1. PICK k \in 1..1 : ~(d[k] <= d[1])
      BY <2>3
    <3>2. k = 1 /\ d[1] \in Int
      OBVIOUS
    <3> QED
      BY <3>1, <3>2
  <2>5. m - 1 \in 1..n /\ ~(m <= m - 1)
    BY <2>3, <2>4
  <2>6. m - 1 \notin S
    <3> HIDE DEF S
    <3> QED
      BY <2>2, <2>5
  <2>7. PICK j \in 1..(m - 1) : \A k \in 1..(m - 1) : d[k] <= d[j]
    BY <2>5, <2>6
  <2>8. PICK a \in 1..m : ~(d[a] <= d[j])
    <3>1. j \in 1..m
      BY <2>3, <2>7
    <3> QED
      BY <2>3, <3>1
  <2>9. a = m /\ d[m] \in Int /\ d[j] \in Int /\ d[j] <= d[m]
    <3>1. d[a] \in Int /\ d[j] \in Int
      BY <2>3, <2>7, <2>8
    <3>2. a \notin 1..(m - 1)
      BY <2>7, <2>8
    <3>3. a = m
      BY <2>3, <2>8, <3>2
    <3> QED
      BY <2>8, <3>1, <3>3
  <2>10. PICK b \in 1..m : ~(d[b] <= d[m])
    <3>1. m \in 1..m
      BY <2>3
    <3> QED
      BY <2>3, <3>1
  <2>11. b # m /\ b \in 1..(m - 1) /\ d[b] \in Int
    <3>1. b \in 1..n
      BY <2>3, <2>10
    <3>2. b # m
      BY <2>9, <2>10
    <3> QED
      BY <2>3, <2>10, <3>1, <3>2
  <2>12. d[b] <= d[j]
    BY <2>7, <2>11
  <2> HIDE DEF S
  <2> QED
    BY <2>9, <2>10, <2>11, <2>12
<1> QED
  <2>1. n \notin S
    BY <1>1
  <2> QED
    BY <2>1

\* Of some segments one is the longest, so that MaxDuration finds it.
LEMMA MaxDurationIs ==
    ASSUME NEW all \in Seq(Segments), NEW i \in 1..Len(all)
    PROVE  MaxDuration(all) \in Int /\ all[i].duration <= MaxDuration(all)
<1> DEFINE n == Len(all)
           d == [k \in 1..n |-> all[k].duration]
<1>1. n \in Nat \ {0} /\ all # <<>>
  OBVIOUS
<1>2. d \in [1..n -> Int]
  <2>1. ASSUME NEW k \in 1..n PROVE all[k].duration \in Int
    <3>1. all[k] \in Segments
      OBVIOUS
    <3> QED
      BY <3>1 DEF Segments
  <2> QED
    BY <2>1
<1>3. \A k \in 1..n : d[k] = all[k].duration
  OBVIOUS
<1> HIDE DEF d
<1>4. PICK j \in 1..n : \A k \in 1..n : d[k] <= d[j]
  BY <1>1, <1>2, GreatestNumber
<1>5. /\ MaxDuration(all) \in {all[k].duration : k \in 1..n}
      /\ \A k \in 1..n : all[k].duration <= MaxDuration(all)
  <2>1. \E x \in {all[k].duration : k \in 1..n} : \A k \in 1..n : all[k].duration <= x
    BY <1>3, <1>4
  <2> QED
    BY <1>1, <2>1 DEF MaxDuration
<1> QED
  BY <1>2, <1>3, <1>5

\* The target duration of GenM3U8File covers every segment that is listed.
THEOREM TargetCoversListed == Spec => []TargetCovers
<1>1. IInv => TargetCovers
  <2> DEFINE p == GenM3U8File(tsCache)
             all == LastOf(tsCache, PlaylistLen)
             n == Len(tsCache)
             m == Least(n, PlaylistLen)
  <2> SUFFICES ASSUME IInv, NEW i \in 1..Len(p.names),
                      NEW k \in GetItem(tsCache, p.names[i])
               PROVE  (tsCache[k].duration + 500) \div 1000 <= p.target
    BY DEF TargetCovers
  <2>1. /\ tsCache \in Seq(Segments) /\ n \in Nat /\ seq \in Nat
        /\ Chain(tsCache, source, seq, times, FirstNo(btswriter))
        /\ \A j \in 1..n : tsCache[j].name = <<source, seq - n + j>>
    BY InvariantChain
  <2>2. /\ Len(p.names) = m /\ m \in Nat
        /\ \A j \in 1..m : p.names[j] = <<source, seq - m + j>>
    <3>1. p = GenM3U8File(tsCache) /\ m = Least(Len(tsCache), PlaylistLen)
      OBVIOUS
    <3> HIDE DEF p, m
    <3> QED
      BY <3>1, PlaylistIs
  <2>3. /\ all \in Seq(Segments) /\ Len(all) = m
        /\ \A j \in 1..Len(all) : all[j] = tsCache[j + n - Len(all)]
    BY <2>1, LastOfIs
  <2>4. p.target = MaxDuration(all) \div 1000 + 1
    BY DEF GenM3U8File
  <2>5. k \in 1..n /\ tsCache[k].name = p.names[i]
    BY DEF GetItem
  <2> HIDE DEF p, all, n, m
  <2>6. i \in 1..m /\ k = i + n - m
    <3>1. i \in 1..m
      BY <2>2
    <3>2. <<source, seq - n + k>> = <<source, seq - m + i>>
      BY <2>1, <2>2, <2>5, <3>1
    <3>3. seq - n + k = seq - m + i
      BY <3>2
    <3>4. k \in Int /\ i \in Int /\ n \in Int /\ m \in Int /\ seq \in Int
      BY <2>1, <2>2, <2>5, <3>1
    <3>5. k = i + n - m
      BY <3>3, <3>4
    <3> QED
      BY <3>1, <3>5
  <2>7. tsCache[k] = all[i]
    BY <2>3, <2>6
  <2>8. MaxDuration(all) \in Int /\ all[i].duration <= MaxDuration(all)
    BY <2>3, <2>6, MaxDurationIs
  <2>9. all[i].duration \in Int
    <3>1. all[i] \in Segments
      BY <2>3, <2>6
    <3> QED
      BY <3>1 DEF Segments
  <2> QED
    BY <2>4, <2>7, <2>8, <2>9
<1> QED
  BY <1>1, SourceInvariant, PTL
=============================================================================
