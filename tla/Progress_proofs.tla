---------------------------- MODULE Progress_proofs ----------------------------
(***************************************************************************)
(* Theorems about live progress, for any number of viewers, any size of the  *)
(* ring and of the channels, and a run id that lives any number of times.    *)
(***************************************************************************)
EXTENDS Progress, SequenceTheorems, TLAPS

--------------------------------------------------------------------------------
(***************************************************************************)
(* Streams of events.                                                      *)
(***************************************************************************)

\* Consecutive numbers, the last of them n.
UpTo(s, n) == \A i \in 1 .. Len(s) : s[i].seq + Len(s) = n + i

\* Rising numbers.
Rising(s) == \A i, j \in 1 .. Len(s) : i < j => s[i].seq < s[j].seq

\* A terminal status comes last, if at all.
EndsOnce(s) == \A i \in 1 .. Len(s) : s[i].status \in Terminal => i = Len(s)

Ended(s) == \E i \in 1 .. Len(s) : s[i].status \in Terminal

\* The newest n events of s are its last ones.
LEMMA NewestIsSuffix ==
    ASSUME NEW n \in Nat \ {0}, NEW s \in Seq(Events)
    PROVE  \E d \in Nat :
              /\ Newest(n, s) \in Seq(Events) /\ Len(Newest(n, s)) <= n
              /\ Len(s) = d + Len(Newest(n, s))
              /\ \A i \in 1 .. Len(Newest(n, s)) : Newest(n, s)[i] = s[d + i]
              /\ s # <<>> => Newest(n, s) # <<>>
<1>1. PICK l \in Nat : l = Len(s)
    BY LenProperties
<1>2. CASE l > n
    <2>1. \A i \in l - n + 1 .. l : s[i] \in Events
        BY <1>1, <1>2, ElementOfSeq
    <2>2. Newest(n, s) = SubSeq(s, l - n + 1, l)
        BY <1>1, <1>2 DEF Newest
    <2>3. PICK a \in Int : a = l - n + 1
        BY <1>1, <1>2
    <2>4. PICK t : t = SubSeq(s, a, l)
        OBVIOUS
    <2>5. /\ t \in Seq(Events) /\ Len(t) = IF a <= l THEN l - a + 1 ELSE 0
          /\ \A i \in 1 .. l - a + 1 : t[i] = s[a + i - 1]
        BY <2>1, <2>3, <2>4, SubSeqProperties
    <2>6. Len(t) = n /\ \A i \in 1 .. n : t[i] = s[(l - n) + i]
        <3>1. l - a + 1 = n /\ a <= l
            BY <2>3, <1>2
        <3>2. \A i \in 1 .. n : a + i - 1 = (l - n) + i
            BY <2>3
        <3> QED
            BY <2>5, <3>1, <3>2
    <2>7. PICK e \in Nat : e = l - n
        <3>1. l - n \in Nat
            BY <1>2
        <3> QED
            BY <3>1
    <2>8. \A i \in 1 .. n : t[i] = s[e + i]
        BY <2>6, <2>7
    <2>9. t # <<>>
        BY <2>6, EmptySeq
    <2>10. Newest(n, s) = t
        BY <2>2, <2>3, <2>4
    <2>11. l = e + n
        BY <2>7
    <2> WITNESS e \in Nat
    <2> QED
        BY <1>1, <2>5, <2>6, <2>8, <2>9, <2>10, <2>11
<1>3. CASE ~(l > n)
    <2>1. Newest(n, s) = s
        BY <1>1, <1>3 DEF Newest
    <2>2. \A i \in 1 .. l : s[0 + i] = s[i]
        OBVIOUS
    <2> WITNESS 0 \in Nat
    <2> QED
        BY <1>1, <1>3, <2>1, <2>2
<1> QED
    BY <1>1, <1>2, <1>3

\* The newest events of an ordered stream are ordered, and end where it ends.
LEMMA NewestInOrder ==
    ASSUME NEW n \in Nat \ {0}, NEW s \in Seq(Events), NEW m \in Nat
    PROVE  /\ Rising(s) => Rising(Newest(n, s))
           /\ UpTo(s, m) => UpTo(Newest(n, s), m)
           /\ EndsOnce(s) => EndsOnce(Newest(n, s))
           /\ EndsOnce(s) /\ Ended(s) => Ended(Newest(n, s))
           /\ Ended(Newest(n, s)) => Ended(s)
<1>1. PICK t \in Seq(Events), d \in Nat :
          /\ t = Newest(n, s) /\ Len(s) = d + Len(t)
          /\ \A i \in 1 .. Len(t) : t[i] = s[d + i]
          /\ s # <<>> => t # <<>>
    BY NewestIsSuffix
<1>2. PICK l \in Nat : l = Len(t) /\ (s # <<>> => l > 0)
    BY <1>1, EmptySeq
<1>3. Rising(s) => Rising(t)
    <2> SUFFICES ASSUME Rising(s), NEW i \in 1 .. l, NEW j \in 1 .. l, i < j
                 PROVE  t[i].seq < t[j].seq
        BY <1>2 DEF Rising
    <2>1. d + i \in 1 .. Len(s) /\ d + j \in 1 .. Len(s) /\ d + i < d + j
        BY <1>1, <1>2
    <2>2. t[i] = s[d + i] /\ t[j] = s[d + j]
        BY <1>1, <1>2
    <2> QED
        BY <2>1, <2>2 DEF Rising
<1>4. UpTo(s, m) => UpTo(t, m)
    <2> SUFFICES ASSUME UpTo(s, m), NEW i \in 1 .. l
                 PROVE  t[i].seq + l = m + i
        BY <1>2 DEF UpTo
    <2>1. PICK j \in Nat : j = d + i /\ j \in 1 .. Len(s)
        BY <1>1, <1>2
    <2>2. PICK k \in Nat : k = s[j].seq
        <3>1. s[j] \in Events
            BY <2>1, ElementOfSeq
        <3> QED
            BY <3>1 DEF Events
    <2>3. t[i] = s[j] /\ Len(s) = d + l
        BY <1>1, <1>2, <2>1
    <2>4. k + (d + l) = m + j
        BY <2>1, <2>2, <2>3 DEF UpTo
    <2>5. k + l = m + i
        BY <2>1, <2>4
    <2> QED
        BY <2>2, <2>3, <2>5
<1>5. EndsOnce(s) => EndsOnce(t)
    <2> SUFFICES ASSUME EndsOnce(s), NEW i \in 1 .. l, t[i].status \in Terminal
                 PROVE  i = l
        BY <1>2 DEF EndsOnce
    <2>1. d + i \in 1 .. Len(s) /\ t[i] = s[d + i] /\ Len(s) = d + l
        BY <1>1, <1>2
    <2>2. d + i = Len(s)
        BY <2>1 DEF EndsOnce
    <2> QED
        BY <2>1, <2>2
<1>6. EndsOnce(s) /\ Ended(s) => Ended(t)
    <2> SUFFICES ASSUME EndsOnce(s), NEW i \in 1 .. Len(s), s[i].status \in Terminal
                 PROVE  Ended(t)
        BY DEF Ended
    <2>1. i = d + l
        BY <1>1, <1>2 DEF EndsOnce
    <2>2. s # <<>>
        BY EmptySeq
    <2>3. l \in 1 .. Len(t)
        BY <1>2, <2>2
    <2>4. t[l] = s[i]
        BY <1>1, <2>1, <2>3
    <2> QED
        BY <2>3, <2>4 DEF Ended
<1>7. Ended(t) => Ended(s)
    BY <1>1, <1>2 DEF Ended
<1> QED
    BY <1>1, <1>3, <1>4, <1>5, <1>6, <1>7

\* One more event at the end of a stream.
LEMMA OneMore ==
    ASSUME NEW s \in Seq(Events), NEW e \in Events, NEW n \in Nat
    PROVE  /\ Append(s, e) \in Seq(Events) /\ Len(Append(s, e)) = Len(s) + 1
           /\ Append(s, e) # <<>>
           /\ Rising(s) /\ (\A i \in 1 .. Len(s) : s[i].seq < e.seq) => Rising(Append(s, e))
           /\ UpTo(s, n) /\ e.seq = n + 1 => UpTo(Append(s, e), n + 1)
           /\ ~Ended(s) => EndsOnce(Append(s, e))
           /\ Ended(Append(s, e)) <=> Ended(s) \/ e.status \in Terminal
           /\ \A i \in 1 .. Len(Append(s, e)) :
                 Append(s, e)[i] = e \/ \E j \in 1 .. Len(s) : Append(s, e)[i] = s[j]
<1>1. PICK l \in Nat : l = Len(s)
    BY LenProperties
<1>2. PICK t \in Seq(Events) : t = Append(s, e)
    <2>1. Append(s, e) \in Seq(Events)
        OBVIOUS
    <2> QED
        BY <2>1
<1>3. /\ Len(t) = l + 1 /\ t[l + 1] = e /\ l + 1 \in 1 .. Len(t)
      /\ \A i \in 1 .. l : t[i] = s[i]
    <2>1. Len(t) = l + 1
        BY <1>1, <1>2
    <2>2. t[l + 1] = e
        BY <1>1, <1>2
    <2>3. \A i \in 1 .. l : t[i] = s[i]
        BY <1>1, <1>2
    <2> QED
        BY <2>1, <2>2, <2>3
<1>4. t # <<>>
    BY <1>3, EmptySeq
<1>5. ASSUME Rising(s), \A i \in 1 .. Len(s) : s[i].seq < e.seq
      PROVE  Rising(t)
    <2> SUFFICES ASSUME NEW i \in 1 .. l + 1, NEW j \in 1 .. l + 1, i < j
                 PROVE  t[i].seq < t[j].seq
        BY <1>3 DEF Rising
    <2>1. CASE j = l + 1
        BY <1>1, <1>3, <1>5, <2>1
    <2>2. CASE j # l + 1
        BY <1>1, <1>3, <1>5, <2>2 DEF Rising
    <2> QED
        BY <2>1, <2>2
<1>6. ASSUME UpTo(s, n), e.seq = n + 1
      PROVE  UpTo(t, n + 1)
    <2> SUFFICES ASSUME NEW i \in 1 .. l + 1
                 PROVE  t[i].seq + (l + 1) = (n + 1) + i
        BY <1>3 DEF UpTo
    <2>1. CASE i = l + 1
        BY <1>3, <1>6, <2>1
    <2>2. CASE i # l + 1
        <3>1. i \in 1 .. l /\ t[i] = s[i]
            BY <1>3, <2>2
        <3>2. PICK k \in Nat : k = s[i].seq
            <4>1. s[i] \in Events
                BY <1>1, <3>1, ElementOfSeq
            <4> QED
                BY <4>1 DEF Events
        <3>3. k + l = n + i
            BY <1>1, <1>6, <3>1, <3>2 DEF UpTo
        <3>4. k + (l + 1) = (n + 1) + i
            BY <3>3
        <3> QED
            BY <3>1, <3>2, <3>4
    <2> QED
        BY <2>1, <2>2
<1>7. ASSUME ~Ended(s)
      PROVE  EndsOnce(t)
    <2> SUFFICES ASSUME NEW i \in 1 .. l + 1, t[i].status \in Terminal, i # l + 1
                 PROVE  FALSE
        BY <1>3 DEF EndsOnce
    <2> QED
        BY <1>1, <1>3, <1>7 DEF Ended
<1>8. Ended(t) => Ended(s) \/ e.status \in Terminal
    <2> SUFFICES ASSUME NEW i \in 1 .. l + 1, t[i].status \in Terminal, e.status \notin Terminal
                 PROVE  Ended(s)
        BY <1>3 DEF Ended
    <2> QED
        BY <1>1, <1>3 DEF Ended
<1>9. Ended(s) \/ e.status \in Terminal => Ended(t)
    <2>1. Ended(s) => Ended(t)
        <3> SUFFICES ASSUME NEW i \in 1 .. l, s[i].status \in Terminal
                     PROVE  Ended(t)
            BY <1>1 DEF Ended
        <3> QED
            BY <1>3 DEF Ended
    <2>2. e.status \in Terminal => Ended(t)
        BY <1>3 DEF Ended
    <2> QED
        BY <2>1, <2>2
<1>10. \A i \in 1 .. Len(t) : t[i] = e \/ \E j \in 1 .. Len(s) : t[i] = s[j]
    BY <1>1, <1>3
<1> QED
    BY <1>1, <1>2, <1>3, <1>4, <1>5, <1>6, <1>7, <1>8, <1>9, <1>10

\* A stream without its first event.
LEMMA OneLess ==
    ASSUME NEW s \in Seq(Events), s # <<>>, NEW n \in Nat
    PROVE  /\ Tail(s) \in Seq(Events) /\ Len(s) = Len(Tail(s)) + 1 /\ Head(s) \in Events
           /\ Rising(s) => Rising(Tail(s)) /\ \A i \in 1 .. Len(Tail(s)) : Head(s).seq < Tail(s)[i].seq
           /\ UpTo(s, n + Len(s)) => Head(s).seq = n + 1 /\ UpTo(Tail(s), n + Len(s))
           /\ EndsOnce(s) => EndsOnce(Tail(s)) /\ (Head(s).status \in Terminal => Tail(s) = <<>>)
           /\ Ended(s) <=> Head(s).status \in Terminal \/ Ended(Tail(s))
           /\ \A i \in 1 .. Len(Tail(s)) : \E j \in 1 .. Len(s) : Tail(s)[i] = s[j]
           /\ \E j \in 1 .. Len(s) : Head(s) = s[j]
<1>1. PICK t \in Seq(Events) : t = Tail(s)
    BY HeadTailProperties
<1>2. PICK l \in Nat : l = Len(t)
    BY LenProperties
<1>3. /\ Len(s) = l + 1 /\ \A i \in 1 .. l : t[i] = s[i + 1] /\ i + 1 \in 1 .. Len(s)
      /\ Head(s) = s[1] /\ 1 \in 1 .. Len(s)
    BY <1>1, <1>2, HeadTailProperties, LenProperties
<1>4. Head(s) \in Events
    BY HeadTailProperties
<1>5. ASSUME Rising(s)
      PROVE  Rising(t) /\ \A i \in 1 .. l : Head(s).seq < t[i].seq
    <2>1. ASSUME NEW i \in 1 .. l, NEW j \in 1 .. l, i < j
          PROVE  t[i].seq < t[j].seq
        <3>1. i + 1 \in 1 .. Len(s) /\ j + 1 \in 1 .. Len(s) /\ i + 1 < j + 1
            BY <1>3, <2>1
        <3> QED
            BY <1>3, <1>5, <3>1 DEF Rising
    <2>2. ASSUME NEW i \in 1 .. l
          PROVE  Head(s).seq < t[i].seq
        <3>1. 1 \in 1 .. Len(s) /\ i + 1 \in 1 .. Len(s) /\ 1 < i + 1
            BY <1>3
        <3> QED
            BY <1>3, <1>5, <3>1 DEF Rising
    <2> QED
        BY <1>2, <2>1, <2>2 DEF Rising
<1>6. ASSUME UpTo(s, n + Len(s))
      PROVE  Head(s).seq = n + 1 /\ UpTo(t, n + Len(s))
    <2>1. PICK h \in Nat : h = Head(s).seq
        BY <1>4 DEF Events
    <2>2. h + (l + 1) = (n + (l + 1)) + 1
        BY <1>3, <1>6, <2>1 DEF UpTo
    <2>3. ASSUME NEW i \in 1 .. l
          PROVE  t[i].seq + l = (n + (l + 1)) + i
        <3>1. PICK j \in 1 .. Len(s) : j = i + 1 /\ t[i] = s[j]
            BY <1>3
        <3>2. PICK k \in Nat : k = s[j].seq
            <4>1. s[j] \in Events
                BY <3>1, ElementOfSeq
            <4> QED
                BY <4>1 DEF Events
        <3>3. k + (l + 1) = (n + (l + 1)) + j
            BY <1>3, <1>6, <3>1, <3>2 DEF UpTo
        <3> QED
            BY SMTT(30), <3>1, <3>2, <3>3
    <2> QED
        BY <1>2, <1>3, <2>1, <2>2, <2>3 DEF UpTo
<1>7. EndsOnce(s) => EndsOnce(t)
    <2> SUFFICES ASSUME EndsOnce(s), NEW i \in 1 .. l, t[i].status \in Terminal
                 PROVE  i = l
        BY <1>2 DEF EndsOnce
    <2> QED
        BY <1>3 DEF EndsOnce
<1>8. EndsOnce(s) /\ Head(s).status \in Terminal => t = <<>>
    <2>1. EndsOnce(s) /\ Head(s).status \in Terminal => l = 0
        BY <1>3 DEF EndsOnce
    <2> QED
        BY <1>2, <2>1, EmptySeq
<1>9. Ended(s) => Head(s).status \in Terminal \/ Ended(t)
    <2> SUFFICES ASSUME NEW i \in 1 .. l + 1, s[i].status \in Terminal, i # 1
                 PROVE  Ended(t)
        BY <1>3 DEF Ended
    <2>1. i - 1 \in 1 .. l /\ (i - 1) + 1 = i
        OBVIOUS
    <2>2. t[i - 1] = s[i]
        BY <1>3, <2>1
    <2> QED
        BY <1>2, <2>1, <2>2 DEF Ended
<1>10. Head(s).status \in Terminal \/ Ended(t) => Ended(s)
    BY <1>2, <1>3 DEF Ended
<1> QED
    BY <1>1, <1>2, <1>3, <1>4, <1>5, <1>6, <1>7, <1>8, <1>9, <1>10

\* Consecutive numbers rise.
LEMMA UpToRises ==
    ASSUME NEW s \in Seq(Events), NEW n \in Nat, UpTo(s, n)
    PROVE  /\ Rising(s)
           /\ \A i \in 1 .. Len(s) : s[i].seq <= n
<1>1. PICK l \in Nat : l = Len(s)
    BY LenProperties
<1>2. ASSUME NEW i \in 1 .. l
      PROVE  s[i].seq \in Nat /\ s[i].seq + l = n + i
    <2>1. s[i] \in Events
        BY <1>1, ElementOfSeq
    <2> QED
        BY <1>1, <2>1 DEF UpTo, Events
<1>3. ASSUME NEW i \in 1 .. l, NEW j \in 1 .. l, i < j
      PROVE  s[i].seq < s[j].seq
    <2>1. PICK a \in Nat : a = s[i].seq /\ a + l = n + i
        BY <1>2
    <2>2. PICK b \in Nat : b = s[j].seq /\ b + l = n + j
        BY <1>2
    <2>3. i \in Nat /\ j \in Nat
        OBVIOUS
    <2>4. a < b
        BY <1>1, <1>3, <2>1, <2>2, <2>3
    <2> QED
        BY <2>1, <2>2, <2>4
<1>4. ASSUME NEW i \in 1 .. l
      PROVE  s[i].seq <= n
    <2>1. PICK a \in Nat : a = s[i].seq /\ a + l = n + i
        BY <1>2
    <2>2. i \in Nat /\ i <= l
        BY <1>1
    <2>3. a <= n
        BY <1>1, <2>1, <2>2
    <2> QED
        BY <2>1, <2>3
<1> QED
    BY <1>1, <1>3, <1>4 DEF Rising

\* Terminal statuses of a stream are among those told.
Says(s, told) == \A i \in 1 .. Len(s) : s[i].status \in Terminal => s[i].status \in told

\* What a viewer was sent and what waits in its channel are in order, while its channel
\* is open or not, the hub having published seq events into its entry.
Order(got, chan, lagged, open, seq) ==
    /\ got # <<>>
    /\ Rising(got) /\ Rising(chan)
    /\ \A i \in 1 .. Len(got), j \in 1 .. Len(chan) : got[i].seq < chan[j].seq
    /\ ~lagged => \E m \in Nat : /\ UpTo(got, m) /\ UpTo(chan, m + Len(chan))
                                 /\ open => m + Len(chan) = seq
    /\ open => /\ \A i \in 1 .. Len(got) : got[i].seq <= seq
               /\ \A j \in 1 .. Len(chan) : chan[j].seq <= seq

\* When over is true, the one run the viewer hears of has announced its end.
Ends(got, chan, lagged, open, over, told) ==
    /\ EndsOnce(got) /\ EndsOnce(chan)
    /\ Ended(got) => chan = <<>>
    /\ open /\ ~over => ~Ended(got) /\ ~Ended(chan)
    /\ over \/ ~open => lagged \/ Ended(got) \/ Ended(chan)
    /\ Says(got, told) /\ Says(chan, told)

\* A subscriber starts with the newest events of the ring.
LEMMA OrderStarts ==
    ASSUME NEW tail \in Seq(Events), tail # <<>>, NEW seq \in Nat, UpTo(tail, seq)
    PROVE  Order(Newest(2, tail), <<>>, FALSE, TRUE, seq)
<1>1. PICK t \in Seq(Events), d \in Nat :
          /\ t = Newest(2, tail) /\ Len(tail) = d + Len(t)
          /\ \A i \in 1 .. Len(t) : t[i] = tail[d + i]
          /\ t # <<>>
    BY 2 \in Nat \ {0}, NewestIsSuffix
<1>2. UpTo(t, seq)
    BY <1>1, 2 \in Nat \ {0}, NewestInOrder
<1>3. Rising(t) /\ \A i \in 1 .. Len(t) : t[i].seq <= seq
    BY <1>2, UpToRises
<1>4. PICK none \in Seq(Events) : none = <<>> /\ Len(none) = 0
    BY EmptySeq
<1>5. Rising(none) /\ UpTo(none, seq)
    BY <1>4 DEF Rising, UpTo
<1>6. \E m \in Nat : UpTo(t, m) /\ UpTo(none, m + Len(none)) /\ m + Len(none) = seq
    BY <1>2, <1>4, <1>5
<1>7. Order(t, none, FALSE, TRUE, seq)
    BY <1>1, <1>2, <1>3, <1>4, <1>5, <1>6 DEF Order
<1> QED
    BY <1>1, <1>4, <1>7

\* It has told the end if the ring has.
LEMMA EndsStart ==
    ASSUME NEW tail \in Seq(Events), EndsOnce(tail),
           NEW over \in BOOLEAN, Ended(tail) <=> over, NEW told, Says(tail, told)
    PROVE  Ends(Newest(2, tail), <<>>, FALSE, TRUE, over, told)
<1>1. PICK t \in Seq(Events), d \in Nat :
          /\ t = Newest(2, tail) /\ Len(tail) = d + Len(t)
          /\ \A i \in 1 .. Len(t) : t[i] = tail[d + i]
    BY 2 \in Nat \ {0}, NewestIsSuffix
<1>2. EndsOnce(t) /\ (Ended(t) <=> over)
    BY <1>1, 0 \in Nat, NewestInOrder
<1>3. Says(t, told)
    <2>1. \A i \in 1 .. Len(t) : d + i \in 1 .. Len(tail)
        BY <1>1, LenProperties
    <2> QED
        BY <1>1, <2>1 DEF Says
<1>4. PICK none \in Seq(Events) : none = <<>> /\ Len(none) = 0
    BY EmptySeq
<1>5. EndsOnce(none) /\ ~Ended(none) /\ Says(none, told)
    BY <1>4 DEF EndsOnce, Ended, Says
<1>6. Ends(t, none, FALSE, TRUE, over, told)
    BY <1>2, <1>3, <1>4, <1>5 DEF Ends
<1> QED
    BY <1>1, <1>4, <1>6

\* A new event either goes into the channel or is dropped.
LEMMA OrderGrows ==
    ASSUME NEW got \in Seq(Events), NEW chan \in Seq(Events), NEW lagged \in BOOLEAN,
           NEW seq \in Nat, NEW ev \in Events, ev.seq = seq + 1,
           Order(got, chan, lagged, TRUE, seq)
    PROVE  /\ Order(got, Append(chan, ev), lagged, TRUE, seq + 1)
           /\ Order(got, chan, TRUE, TRUE, seq + 1)
<1>1. /\ got # <<>> /\ Rising(got) /\ Rising(chan)
      /\ \A i \in 1 .. Len(got), j \in 1 .. Len(chan) : got[i].seq < chan[j].seq
      /\ \A i \in 1 .. Len(got) : got[i].seq <= seq
      /\ \A j \in 1 .. Len(chan) : chan[j].seq <= seq
    BY DEF Order
<1>2. PICK c \in Seq(Events) : c = Append(chan, ev)
    BY 0 \in Nat, OneMore
<1>3. /\ \A i \in 1 .. Len(got) : got[i].seq \in Nat
      /\ \A j \in 1 .. Len(chan) : chan[j].seq \in Nat
    <2>1. /\ \A i \in 1 .. Len(got) : got[i] \in Events
          /\ \A j \in 1 .. Len(chan) : chan[j] \in Events
        BY ElementOfSeq
    <2> QED
        BY <2>1 DEF Events
<1>4. /\ \A i \in 1 .. Len(got) : got[i].seq < ev.seq /\ got[i].seq <= seq + 1
      /\ \A j \in 1 .. Len(chan) : chan[j].seq < ev.seq /\ chan[j].seq <= seq + 1
    BY <1>1, <1>3
<1>5. Order(got, chan, TRUE, TRUE, seq + 1)
    BY <1>1, <1>4 DEF Order
<1>6. /\ Len(c) = Len(chan) + 1 /\ Rising(c)
      /\ \A j \in 1 .. Len(c) : c[j] = ev \/ \E k \in 1 .. Len(chan) : c[j] = chan[k]
    BY <1>1, <1>2, <1>4, 0 \in Nat, OneMore
<1>7. /\ \A i \in 1 .. Len(got), j \in 1 .. Len(c) : got[i].seq < c[j].seq
      /\ \A j \in 1 .. Len(c) : c[j].seq <= seq + 1
    <2>1. ASSUME NEW j \in 1 .. Len(c)
          PROVE  c[j].seq <= seq + 1 /\ \A i \in 1 .. Len(got) : got[i].seq < c[j].seq
        <3>1. CASE c[j] = ev
            BY <1>4, <3>1
        <3>2. ASSUME NEW k \in 1 .. Len(chan), c[j] = chan[k]
              PROVE  c[j].seq <= seq + 1 /\ \A i \in 1 .. Len(got) : got[i].seq < c[j].seq
            BY <1>1, <1>4, <3>2
        <3> QED
            BY <1>6, <3>1, <3>2
    <2> QED
        BY <2>1
<1>8. ~lagged => \E m \in Nat : UpTo(got, m) /\ UpTo(c, m + Len(c)) /\ m + Len(c) = seq + 1
    <2> SUFFICES ASSUME ~lagged
                 PROVE  \E m \in Nat : UpTo(got, m) /\ UpTo(c, m + Len(c)) /\ m + Len(c) = seq + 1
        OBVIOUS
    <2>1. PICK m \in Nat : UpTo(got, m) /\ UpTo(chan, m + Len(chan)) /\ m + Len(chan) = seq
        BY DEF Order
    <2>2. UpTo(c, seq + 1)
        BY <1>2, <2>1, OneMore
    <2>3. m + Len(c) = seq + 1
        <3>1. PICK l \in Nat : l = Len(chan)
            BY LenProperties
        <3>2. m + l = seq /\ Len(c) = l + 1
            BY <1>6, <2>1, <3>1
        <3> QED
            BY <3>2
    <2> QED
        BY <2>1, <2>2, <2>3
<1>9. Order(got, c, lagged, TRUE, seq + 1)
    BY <1>1, <1>4, <1>6, <1>7, <1>8 DEF Order
<1> QED
    BY <1>2, <1>5, <1>9

\* The terminal event, if it is one, is the first and the last of its kind.
LEMMA EndsGrow ==
    ASSUME NEW got \in Seq(Events), NEW chan \in Seq(Events), NEW lagged \in BOOLEAN,
           NEW ev \in Events, NEW told,
           Ends(got, chan, lagged, TRUE, FALSE, told),
           ev.status \in Terminal => ev.status \in told,
           NEW over \in BOOLEAN, over <=> ev.status \in Terminal
    PROVE  /\ Ends(got, Append(chan, ev), lagged, TRUE, over, told)
           /\ Ends(got, chan, TRUE, TRUE, over, told)
<1>1. /\ EndsOnce(got) /\ EndsOnce(chan) /\ ~Ended(got) /\ ~Ended(chan)
      /\ Says(got, told) /\ Says(chan, told)
    BY DEF Ends
<1>2. PICK c \in Seq(Events) : c = Append(chan, ev)
    BY 0 \in Nat, OneMore
<1>3. /\ EndsOnce(c) /\ (Ended(c) <=> over)
      /\ \A j \in 1 .. Len(c) : c[j] = ev \/ \E k \in 1 .. Len(chan) : c[j] = chan[k]
    BY <1>1, <1>2, 0 \in Nat, OneMore
<1>4. Says(c, told)
    BY <1>1, <1>3 DEF Says
<1>5. Ends(got, chan, TRUE, TRUE, over, told)
    BY <1>1 DEF Ends
<1>6. Ends(got, c, lagged, TRUE, over, told)
    BY <1>1, <1>3, <1>4 DEF Ends
<1> QED
    BY <1>2, <1>5, <1>6

\* Receiving h leaves c in the channel, and t of all that was sent, g.
Taken(got, chan, t, c, g, h) ==
    /\ t = Newest(2, Append(got, Head(chan))) /\ c = Tail(chan)
    /\ h = Head(chan) /\ g = Append(got, h) /\ t = Newest(2, g) /\ t # <<>>
    /\ Len(chan) = Len(c) + 1
    /\ \A i \in 1 .. Len(t) : t[i] = h \/ \E j \in 1 .. Len(got) : t[i] = got[j]
    /\ \A i \in 1 .. Len(c) : \E j \in 1 .. Len(chan) : c[i] = chan[j]
    /\ \E j \in 1 .. Len(chan) : h = chan[j]

\* What the handler sends on is the event it found first in its channel.
LEMMA Received ==
    ASSUME NEW got \in Seq(Events), NEW chan \in Seq(Events), chan # <<>>
    PROVE  \E t \in Seq(Events), c \in Seq(Events), g \in Seq(Events), h \in Events :
              Taken(got, chan, t, c, g, h)
<1>1. PICK h \in Events, c \in Seq(Events) :
          /\ h = Head(chan) /\ c = Tail(chan) /\ Len(chan) = Len(c) + 1
          /\ \A i \in 1 .. Len(c) : \E j \in 1 .. Len(chan) : c[i] = chan[j]
          /\ \E j \in 1 .. Len(chan) : h = chan[j]
    BY 0 \in Nat, OneLess
<1>2. PICK g \in Seq(Events) :
          /\ g = Append(got, h) /\ g # <<>>
          /\ \A i \in 1 .. Len(g) : g[i] = h \/ \E j \in 1 .. Len(got) : g[i] = got[j]
    BY 0 \in Nat, OneMore
<1>3. PICK t \in Seq(Events), d \in Nat :
          /\ t = Newest(2, g) /\ Len(g) = d + Len(t)
          /\ \A i \in 1 .. Len(t) : t[i] = g[d + i]
          /\ g # <<>> => t # <<>>
    BY 2 \in Nat \ {0}, NewestIsSuffix
<1>4. \A i \in 1 .. Len(t) : t[i] = h \/ \E j \in 1 .. Len(got) : t[i] = got[j]
    <2>1. \A i \in 1 .. Len(t) : d + i \in 1 .. Len(g)
        BY <1>3, LenProperties
    <2> QED
        BY <1>2, <1>3, <2>1
<1>5. t = Newest(2, Append(got, Head(chan))) /\ t # <<>>
    BY <1>1, <1>2, <1>3
<1>6. Taken(got, chan, t, c, g, h)
    BY <1>1, <1>2, <1>3, <1>4, <1>5 DEF Taken
<1> QED
    BY <1>6

\* Receiving keeps the order.
LEMMA OrderReceives ==
    ASSUME NEW got \in Seq(Events), NEW chan \in Seq(Events), chan # <<>>, NEW lagged \in BOOLEAN,
           NEW open \in BOOLEAN, NEW seq \in Nat,
           Order(got, chan, lagged, open, seq)
    PROVE  Order(Newest(2, Append(got, Head(chan))), Tail(chan), lagged, open, seq)
<1>0. PICK t \in Seq(Events), c \in Seq(Events), g \in Seq(Events), h \in Events :
          Taken(got, chan, t, c, g, h)
    BY Received
<1>1. /\ t = Newest(2, Append(got, Head(chan))) /\ c = Tail(chan)
      /\ h = Head(chan) /\ g = Append(got, h) /\ t = Newest(2, g) /\ t # <<>>
      /\ Len(chan) = Len(c) + 1
      /\ \A i \in 1 .. Len(t) : t[i] = h \/ \E j \in 1 .. Len(got) : t[i] = got[j]
      /\ \A i \in 1 .. Len(c) : \E j \in 1 .. Len(chan) : c[i] = chan[j]
      /\ \E j \in 1 .. Len(chan) : h = chan[j]
    BY <1>0 DEF Taken
<1>2. PICK k \in Nat, l \in Nat : k = Len(c) /\ l = Len(got)
    BY LenProperties
<1>3. /\ got # <<>> /\ Rising(got) /\ Rising(chan)
      /\ \A i \in 1 .. Len(got), j \in 1 .. Len(chan) : got[i].seq < chan[j].seq
      /\ open => /\ \A i \in 1 .. Len(got) : got[i].seq <= seq
                 /\ \A j \in 1 .. Len(chan) : chan[j].seq <= seq
    BY DEF Order
<1>4. Rising(c) /\ \A i \in 1 .. Len(c) : h.seq < c[i].seq
    BY <1>1, <1>3, 0 \in Nat, OneLess
<1>5. Rising(t)
    <2>1. \A i \in 1 .. Len(got) : got[i].seq < h.seq
        BY <1>1, <1>3
    <2>2. Rising(g)
        BY <1>1, <1>3, <2>1, 0 \in Nat, OneMore
    <2> QED
        BY <1>1, <2>2, 0 \in Nat, 2 \in Nat \ {0}, NewestInOrder
<1>6. \A i \in 1 .. Len(t), j \in 1 .. Len(c) : t[i].seq < c[j].seq
    BY <1>1, <1>3, <1>4
<1>7. open => /\ \A i \in 1 .. Len(t) : t[i].seq <= seq
              /\ \A j \in 1 .. Len(c) : c[j].seq <= seq
    BY <1>1, <1>3
<1>8. ~lagged => \E m \in Nat : UpTo(t, m) /\ UpTo(c, m + Len(c)) /\ (open => m + Len(c) = seq)
    <2> SUFFICES ASSUME ~lagged
                 PROVE  \E m \in Nat : UpTo(t, m) /\ UpTo(c, m + Len(c)) /\ (open => m + Len(c) = seq)
        OBVIOUS
    <2>1. PICK m \in Nat : UpTo(got, m) /\ UpTo(chan, m + Len(chan)) /\ (open => m + Len(chan) = seq)
        BY DEF Order
    <2>2. h.seq = m + 1 /\ UpTo(c, m + Len(chan))
        BY <1>1, <2>1, OneLess
    <2>3. UpTo(g, m + 1)
        BY <1>1, <2>1, <2>2, OneMore
    <2>4. m + 1 \in Nat /\ m + Len(chan) = (m + 1) + Len(c)
        BY <1>1, <1>2
    <2>5. UpTo(t, m + 1)
        BY <1>1, <2>3, <2>4, 2 \in Nat \ {0}, NewestInOrder
    <2> QED
        BY <2>1, <2>2, <2>4, <2>5
<1>9. Order(t, c, lagged, open, seq)
    BY <1>1, <1>3, <1>4, <1>5, <1>6, <1>7, <1>8 DEF Order
<1> QED
    BY <1>1, <1>9

\* And what the stream tells of the end.
LEMMA EndsReceive ==
    ASSUME NEW got \in Seq(Events), NEW chan \in Seq(Events), chan # <<>>, NEW lagged \in BOOLEAN,
           NEW open \in BOOLEAN, NEW over \in BOOLEAN, NEW told,
           Ends(got, chan, lagged, open, over, told)
    PROVE  Ends(Newest(2, Append(got, Head(chan))), Tail(chan), lagged, open, over, told)
<1>0. PICK t \in Seq(Events), c \in Seq(Events), g \in Seq(Events), h \in Events :
          Taken(got, chan, t, c, g, h)
    BY Received
<1>1. /\ t = Newest(2, Append(got, Head(chan))) /\ c = Tail(chan)
      /\ h = Head(chan) /\ g = Append(got, h) /\ t = Newest(2, g) /\ t # <<>>
      /\ Len(chan) = Len(c) + 1
      /\ \A i \in 1 .. Len(t) : t[i] = h \/ \E j \in 1 .. Len(got) : t[i] = got[j]
      /\ \A i \in 1 .. Len(c) : \E j \in 1 .. Len(chan) : c[i] = chan[j]
      /\ \E j \in 1 .. Len(chan) : h = chan[j]
    BY <1>0 DEF Taken
<1>2. /\ EndsOnce(got) /\ EndsOnce(chan) /\ ~Ended(got)
      /\ open /\ ~over => ~Ended(chan)
      /\ over \/ ~open => lagged \/ Ended(chan)
      /\ Says(got, told) /\ Says(chan, told)
    BY DEF Ends
<1>3. EndsOnce(c) /\ (h.status \in Terminal => c = <<>>)
    BY <1>1, <1>2, 0 \in Nat, OneLess
<1>4. Ended(chan) <=> h.status \in Terminal \/ Ended(c)
    BY <1>1, 0 \in Nat, OneLess
<1>5. EndsOnce(g) /\ (Ended(g) <=> h.status \in Terminal)
    BY <1>1, <1>2, 0 \in Nat, OneMore
<1>6. EndsOnce(t) /\ (Ended(t) <=> h.status \in Terminal)
    <2>1. /\ EndsOnce(g) => EndsOnce(Newest(2, g))
          /\ EndsOnce(g) /\ Ended(g) => Ended(Newest(2, g))
          /\ Ended(Newest(2, g)) => Ended(g)
        BY 0 \in Nat, 2 \in Nat \ {0}, NewestInOrder
    <2>2. Newest(2, g) = t
        BY <1>1
    <2> QED
        BY <1>5, <2>1, <2>2
<1>7. Says(t, told) /\ Says(c, told)
    BY <1>1, <1>2 DEF Says
<1>8. Ends(t, c, lagged, open, over, told)
    BY <1>2, <1>3, <1>4, <1>6, <1>7 DEF Ends
<1> QED
    BY <1>1, <1>8

\* A closed stream stays in order, however the hub goes on.
LEMMA OrderAgain ==
    ASSUME NEW got, NEW chan, NEW lagged, NEW open \in BOOLEAN, NEW seq,
           NEW open2 \in BOOLEAN, NEW seq2,
           Order(got, chan, lagged, open, seq),
           open2 => open /\ seq2 = seq
    PROVE  Order(got, chan, lagged, open2, seq2)
BY DEF Order

\* A closed stream has ended, however its run goes on; an open one that has told no
\* ending may yet tell any.
LEMMA EndsAgain ==
    ASSUME NEW got, NEW chan, NEW lagged, NEW open \in BOOLEAN, NEW over \in BOOLEAN, NEW told,
           NEW open2 \in BOOLEAN, NEW over2 \in BOOLEAN, NEW told2,
           Ends(got, chan, lagged, open, over, told),
           open2 => open /\ over2 = over,
           open /\ ~open2 => over,
           told \subseteq told2 \/ (open /\ ~over)
    PROVE  Ends(got, chan, lagged, open2, over2, told2)
<1>1. Says(got, told2) /\ Says(chan, told2)
    BY DEF Ends, Says, Ended
<1>2. over \/ ~open => lagged \/ Ended(got) \/ Ended(chan)
    BY DEF Ends
<1>3. ~open2 => over \/ ~open
    OBVIOUS
<1>4. over2 \/ ~open2 => lagged \/ Ended(got) \/ Ended(chan)
    BY <1>2, <1>3
<1> QED
    BY <1>1, <1>4 DEF Ends

--------------------------------------------------------------------------------
(***************************************************************************)
(* The invariant.                                                          *)
(***************************************************************************)

HubType == [live : BOOLEAN, seq : Nat, tail : Seq(Events), subs : SUBSET [id : Nat, viewer : Viewers],
            nextSub : Nat, entry : Nat, by : SUBSET Lives]

ViewerType ==
    [pc : {"away", "loaded", "reload", "streaming", "leaving", "replayed"}, id : Nat, entry : Nat,
     chan : Seq(Events), open : BOOLEAN, got : Seq(Events), lagged : BOOLEAN, left : BOOLEAN,
     heard : SUBSET Lives]

\* The executor that published something and has not closed yet.
AtWork == {"working", "finished", "announced"}

Typed ==
    /\ row \in {"none", "queued", "running"} \cup Terminal
    /\ pc \in [Lives -> {"idle", "claimed", "working", "finished", "announced"}]
    /\ outcome \in [Lives -> {"none"} \cup Terminal]
    /\ reports \in 0 .. MaxReports /\ lives \in 0 .. MaxLives
    /\ hub \in HubType /\ Len(hub.tail) <= TailMax
    /\ viewer \in [Viewers -> ViewerType] /\ \A v \in Viewers : Len(viewer[v].chan) <= SubBuf
    /\ alive \subseteq Viewers

\* How the row and the executor of life l go together.
Fits(l) ==
    /\ l > lives => pc[l] = "idle"
    /\ l < lives => pc[l] \in {"idle", "finished", "announced"}
    /\ pc[l] \in {"finished", "announced"} => outcome[l] \in Terminal
    /\ l = lives =>
          /\ row = "queued" => pc[l] = "idle"
          /\ pc[l] \in {"claimed", "working"} => row = "running"
          /\ pc[l] \in {"finished", "announced"} =>
                /\ row \in {outcome[l], "running", "none"}
                /\ outcome[l] = "success" => row \in {"success", "none"}

\* The hub's entry is that of the executors who published into it.
Kept ==
    /\ hub.live <=> hub.by # {}
    /\ \A l \in hub.by : pc[l] \in AtWork
    /\ ~hub.live => hub = NoEntry(hub.entry)

Agree ==
    /\ \A l \in Lives : Fits(l)
    /\ lives = 0 => row = "none"
    /\ Kept

\* The ring holds the newest events; if one executor alone published into it, the
\* terminal one last.
Ring ==
    hub.live =>
      /\ hub.tail # <<>> /\ UpTo(hub.tail, hub.seq)
      /\ \A l \in Lives : hub.by = {l} =>
            /\ EndsOnce(hub.tail)
            /\ Ended(hub.tail) <=> pc[l] = "announced"
            /\ Says(hub.tail, {outcome[l]})

\* A subscription is that of a request of this entry, under an id of its own.
Subscribed ==
    /\ \A s \in hub.subs :
          /\ Streamed(s.viewer) /\ viewer[s.viewer].open
          /\ viewer[s.viewer].id = s.id /\ viewer[s.viewer].entry = hub.entry
          /\ viewer[s.viewer].heard = hub.by
          /\ s.id < hub.nextSub
    /\ \A s, t \in hub.subs : s.id = t.id => s = t

\* The terminal statuses that may have been told of life l, as the row is now.
Truth(l) ==
    {status \in Terminal : l = lives => /\ status = "success" => row \in {"success", "none"}
                                        /\ status = "failed" => row # "success"}

\* Life l is one a viewer can have heard of.
Told(l) == l <= lives /\ (l = lives => row # "queued" /\ pc[l] # "claimed")

\* What holds of the request of viewer v, in state w.
Placed(v, w) ==
    /\ w.pc \in {"streaming", "leaving"} =>
          /\ w.heard # {} /\ \A l \in w.heard : Told(l)
          /\ w.entry <= hub.entry
          /\ w.open <=> w.entry = hub.entry
          /\ w.open => [id |-> w.id, viewer |-> v] \in hub.subs
          /\ \A l \in Lives : w.heard = {l} /\ pc[l] \in AtWork => w.open
    /\ w.pc \notin {"streaming", "leaving"} =>
          /\ w.heard = {} /\ ~w.open /\ ~w.lagged /\ ~w.left
          /\ w.pc # "replayed" => w.got = <<>>

\* The stream of w is in order, and tells the end of a run it alone hears of.
Watched(w) ==
    /\ Order(w.got, w.chan, w.lagged, w.open, hub.seq)
    /\ \A l \in Lives : w.heard = {l} =>
          Ends(w.got, w.chan, w.lagged, w.open, pc[l] = "announced", Truth(l))

Watching(w) ==
    /\ w.pc = "streaming" => ~w.left /\ Watched(w)
    /\ w.pc = "leaving" => /\ w.chan = <<>>
                           /\ w.left => w.got = <<>>
                           /\ ~w.left => ~w.open /\ Watched(w)

Inv ==
    /\ Typed
    /\ Agree
    /\ Ring
    /\ Subscribed
    /\ \A v \in Viewers : Placed(v, viewer[v]) /\ Watching(viewer[v])
\* The invariant holds at the start.
LEMMA InitInv == Init => Inv
<1> SUFFICES ASSUME Init
             PROVE  Inv
    OBVIOUS
<1>1. PICK none \in Seq(Events) : none = <<>> /\ Len(none) = 0
    BY EmptySeq
<1>2. NoEntry(0) \in HubType /\ NoViewer \in ViewerType
    BY <1>1 DEF NoEntry, NoViewer, HubType, ViewerType
<1>3. Typed
    BY <1>1, <1>2, SizesAssumption DEF Init, Typed, NoEntry, NoViewer
<1>4. Ring /\ Subscribed /\ Kept
    BY DEF Init, Ring, Subscribed, NoEntry, Kept
<1>5. Agree
    BY <1>4 DEF Init, Agree, Fits, Lives
<1>6. \A v \in Viewers : Placed(v, viewer[v]) /\ Watching(viewer[v])
    BY DEF Init, Placed, Watching, NoViewer
<1> QED
    BY <1>3, <1>4, <1>5, <1>6 DEF Inv

\* A step of one request beside the hub keeps the invariant when it leaves the
\* request well placed.
LEMMA OneViewer ==
    ASSUME Inv, NEW v \in Viewers, NEW w \in ViewerType, Len(w.chan) <= SubBuf, Become(v, w),
           UNCHANGED <<row, pc, outcome, reports, lives, hub, alive>>,
           Streamed(v) /\ viewer[v].open =>
              /\ w.pc \in {"streaming", "leaving"} /\ w.open
              /\ w.id = viewer[v].id /\ w.entry = viewer[v].entry /\ w.heard = viewer[v].heard,
           Placed(v, w), Watching(w)
    PROVE  Inv'
<1>1. /\ viewer' \in [Viewers -> ViewerType]
      /\ \A u \in Viewers : viewer'[u] = IF u = v THEN w ELSE viewer[u]
    BY DEF Inv, Typed, Become
<1>2. Typed'
    BY <1>1 DEF Inv, Typed
<1>3. Agree' /\ Ring'
    BY DEF Inv, Agree, Fits, Kept, Ring
<1>4. Subscribed'
    <2>1. ASSUME NEW s \in hub.subs
          PROVE  /\ viewer'[s.viewer].pc \in {"streaming", "leaving"} /\ viewer'[s.viewer].open
                 /\ viewer'[s.viewer].id = s.id /\ viewer'[s.viewer].entry = hub.entry
                 /\ viewer'[s.viewer].heard = hub.by
        <3>1. s.viewer \in Viewers
            BY DEF Inv, Typed, HubType
        <3> QED
            BY <1>1, <3>1 DEF Inv, Subscribed, Streamed
    <2> QED
        BY <2>1 DEF Inv, Subscribed, Streamed
<1>5. ASSUME NEW u \in Viewers
      PROVE  (Placed(u, viewer[u]) /\ Watching(viewer[u]))'
    <2>1. PICK x : x = viewer'[u] /\ Placed(u, x) /\ Watching(x)
        BY <1>1 DEF Inv
    <2>2. \A l : Truth(l)' = Truth(l)
        BY DEF Truth
    <2>3. Placed(u, x)'
        BY <2>1 DEF Placed, Told
    <2>4. Watching(x)'
        BY <2>1, <2>2 DEF Watching, Watched
    <2> QED
        BY <2>1, <2>3, <2>4
<1> QED
    BY <1>2, <1>3, <1>4, <1>5 DEF Inv

\* A request that streams or has ended, and the steps that lead there and away, apart
\* from those of its subscription.
LEMMA RequestSteps ==
    ASSUME Inv, NEW v \in Viewers,
           \/ LoadRun(v) \/ NotLive(v) \/ ReplayFresh(v) \/ Receive(v) \/ StreamEnds(v)
           \/ ReplayEnds(v) \/ Heartbeat(v) \/ Disconnect(v)
    PROVE  Inv'
<1>1. PICK old \in ViewerType : /\ old = viewer[v] /\ Placed(v, old) /\ Watching(old)
                                /\ Len(old.chan) <= SubBuf
    BY DEF Inv, Typed
<1>2. PICK none \in Seq(Events) : none = <<>> /\ Len(none) <= SubBuf
    <2>1. <<>> \in Seq(Events) /\ Len(<<>>) = 0
        BY EmptySeq
    <2>2. 0 <= SubBuf
        BY SizesAssumption
    <2> QED
        BY <2>1, <2>2
<1>3. NoViewer \in ViewerType /\ Placed(v, NoViewer) /\ Watching(NoViewer) /\ Len(NoViewer.chan) <= SubBuf
    <2>1. NoViewer.chan = none
        BY <1>2 DEF NoViewer
    <2>2. NoViewer \in ViewerType
        BY <1>2 DEF NoViewer, ViewerType
    <2>3. Placed(v, NoViewer) /\ Watching(NoViewer)
        BY DEF NoViewer, Placed, Watching
    <2> QED
        BY <1>2, <2>1, <2>2, <2>3
<1>4. ASSUME row # "none", row \in Terminal \cup {"queued", "running"}, old.pc \in {"away", "reload"}
      PROVE  /\ Replayed(v, row) \in ViewerType /\ Len(Replayed(v, row).chan) <= SubBuf
             /\ Placed(v, Replayed(v, row)) /\ Watching(Replayed(v, row))
    <2>1. PICK g \in Seq(Events) : g = <<[seq |-> 1, status |-> row]>>
        <3>1. [seq |-> 1, status |-> row] \in Events
            BY <1>4 DEF Events
        <3>2. <<[seq |-> 1, status |-> row]>> \in Seq(Events)
            BY <3>1
        <3> QED
            BY <3>2
    <2>2. Replayed(v, row) = [old EXCEPT !.pc = "replayed", !.got = g]
        BY <1>1, <2>1 DEF Replayed
    <2> QED
        BY <1>1, <1>4, <2>2 DEF Inv, ViewerType, Placed, Watching
<1>5. CASE LoadRun(v)
    <2>1. old.pc = "away" /\ row \in Terminal \cup {"queued", "running"} /\ row # "none"
        BY <1>1, <1>5 DEF LoadRun, Inv, Typed
    <2>2. CASE row \in Terminal
        <3>1. Become(v, Replayed(v, row))
            BY <1>5, <2>2 DEF LoadRun
        <3> QED
            BY <1>1, <1>4, <1>5, <2>1, <3>1, OneViewer DEF LoadRun, Streamed
    <2>3. CASE row \notin Terminal
        <3>1. PICK w \in ViewerType : w = [old EXCEPT !.pc = "loaded"]
            BY DEF ViewerType
        <3>2. Become(v, w)
            BY <1>1, <1>5, <2>3, <3>1 DEF LoadRun
        <3>3. Placed(v, w) /\ Watching(w) /\ Len(w.chan) <= SubBuf
            BY <1>1, <2>1, <3>1 DEF Placed, Watching, ViewerType
        <3> QED
            BY <1>1, <1>5, <2>1, <3>2, <3>3, OneViewer DEF LoadRun, Streamed
    <2> QED
        BY <2>2, <2>3
<1>6. CASE NotLive(v)
    <2>1. PICK w \in ViewerType : w = [old EXCEPT !.pc = "reload"]
        BY DEF ViewerType
    <2>2. Become(v, w) /\ old.pc = "loaded"
        BY <1>1, <1>6, <2>1 DEF NotLive
    <2>3. Placed(v, w) /\ Watching(w) /\ Len(w.chan) <= SubBuf
        BY <1>1, <2>1, <2>2 DEF Placed, Watching, ViewerType
    <2> QED
        BY <1>1, <1>6, <2>2, <2>3, OneViewer DEF NotLive, Streamed
<1>7. CASE ReplayFresh(v)
    <2>1. old.pc = "reload" /\ (row # "none" => row \in Terminal \cup {"queued", "running"})
        BY <1>1, <1>7 DEF ReplayFresh, Inv, Typed
    <2>2. CASE row # "none"
        <3>1. Become(v, Replayed(v, row))
            BY <1>7, <2>2 DEF ReplayFresh
        <3> QED
            BY <1>1, <1>4, <1>7, <2>1, <2>2, <3>1, OneViewer DEF ReplayFresh, Streamed
    <2>3. CASE row = "none"
        <3>1. Become(v, NoViewer)
            BY <1>7, <2>3 DEF ReplayFresh
        <3> QED
            BY <1>1, <1>3, <1>7, <2>1, <3>1, OneViewer DEF ReplayFresh, Streamed
    <2> QED
        BY <2>2, <2>3
<1>8. CASE Receive(v)
    <2>1. old.pc = "streaming" /\ old.chan # <<>>
        BY <1>1, <1>8 DEF Receive
    <2>2. PICK c \in Seq(Events), h \in Events : c = Tail(old.chan) /\ h = Head(old.chan)
                                                 /\ Len(old.chan) = Len(c) + 1
        BY <2>1, 0 \in Nat, OneLess DEF ViewerType
    <2>3. PICK g \in Seq(Events) : g = Newest(2, Append(old.got, h))
        <3>1. Append(old.got, h) \in Seq(Events)
            BY DEF ViewerType
        <3> QED
            BY <3>1, 2 \in Nat \ {0}, NewestIsSuffix
    <2>4. PICK w \in ViewerType : w = [old EXCEPT !.got = g, !.chan = c]
        BY DEF ViewerType
    <2>5. Become(v, w)
        BY <1>1, <1>8, <2>2, <2>3, <2>4 DEF Receive
    <2>6. Len(w.chan) <= SubBuf
        <3>1. PICK n \in Nat : n = Len(c)
            BY LenProperties
        <3>2. SubBuf \in Nat /\ n + 1 <= SubBuf
            BY <1>1, <2>2, <3>1, SizesAssumption
        <3>3. w.chan = c
            BY <2>4 DEF ViewerType
        <3> QED
            BY <3>1, <3>2, <3>3
    <2>7. Placed(v, w)
        BY <1>1, <2>1, <2>4 DEF Placed, ViewerType
    <2>8. Order(g, c, old.lagged, old.open, hub.seq)
        <3>1. hub.seq \in Nat
            BY DEF Inv, Typed, HubType
        <3>2. Order(old.got, old.chan, old.lagged, old.open, hub.seq)
            BY <1>1, <2>1 DEF Watching, Watched
        <3> QED
            BY <2>1, <2>2, <2>3, <3>1, <3>2, OrderReceives DEF ViewerType
    <2>9. ASSUME NEW l \in Lives, old.heard = {l}
          PROVE  Ends(g, c, old.lagged, old.open, pc[l] = "announced", Truth(l))
        <3>1. PICK over \in BOOLEAN : over = (pc[l] = "announced")
            OBVIOUS
        <3>2. Ends(old.got, old.chan, old.lagged, old.open, over, Truth(l))
            BY <1>1, <2>1, <2>9, <3>1 DEF Watching, Watched
        <3>3. Ends(g, c, old.lagged, old.open, over, Truth(l))
            BY <2>1, <2>2, <2>3, <3>2, EndsReceive DEF ViewerType
        <3> QED
            BY <3>1, <3>3
    <2>10. Watching(w)
        <3>1. /\ w.pc = "streaming" /\ w.got = g /\ w.chan = c /\ w.lagged = old.lagged
              /\ w.open = old.open /\ w.heard = old.heard /\ w.left = old.left
            BY <2>1, <2>4 DEF ViewerType
        <3>2. Watched(w)
            BY <2>8, <2>9, <3>1 DEF Watched
        <3> QED
            BY <1>1, <2>1, <3>1, <3>2 DEF Watching
    <2> QED
        BY <1>1, <1>8, <2>1, <2>4, <2>5, <2>6, <2>7, <2>10, OneViewer DEF Receive, ViewerType
<1>9. CASE StreamEnds(v)
    <2>1. PICK w \in ViewerType : w = [old EXCEPT !.pc = "leaving"]
        BY DEF ViewerType
    <2>2. Become(v, w) /\ old.pc = "streaming" /\ ~old.open /\ old.chan = <<>>
        BY <1>1, <1>9, <2>1 DEF StreamEnds
    <2>3. Watched(w)
        BY <1>1, <2>1, <2>2 DEF Watching, Watched, ViewerType
    <2>4. Placed(v, w) /\ Watching(w) /\ Len(w.chan) <= SubBuf
        BY <1>1, <2>1, <2>2, <2>3 DEF Placed, Watching, ViewerType
    <2> QED
        BY <1>1, <1>9, <2>1, <2>2, <2>4, OneViewer DEF StreamEnds, ViewerType
<1>10. CASE Heartbeat(v) \/ Disconnect(v)
    <2>1. PICK w \in ViewerType : w = [old EXCEPT !.pc = "leaving", !.left = TRUE, !.chan = none,
                                                  !.got = none, !.lagged = FALSE]
        BY DEF ViewerType
    <2>2. w = Quit(v)
        BY <1>1, <1>2, <2>1 DEF Quit
    <2>3. Become(v, w) /\ old.pc = "streaming"
        BY <1>1, <1>10, <2>2 DEF Heartbeat, Disconnect
    <2>4. Placed(v, w) /\ Watching(w) /\ Len(w.chan) <= SubBuf
        <3>1. w.pc = "leaving" /\ w.left /\ w.chan = none /\ w.got = none
            BY <2>1 DEF ViewerType
        <3>2. Watching(w)
            BY <1>2, <3>1 DEF Watching
        <3>3. Placed(v, w)
            BY <1>1, <2>1, <2>3 DEF Placed, ViewerType
        <3> QED
            BY <1>2, <3>1, <3>2, <3>3
    <2>5. w.pc = "leaving" /\ w.open = old.open /\ w.id = old.id /\ w.entry = old.entry /\ w.heard = old.heard
        BY <2>1 DEF ViewerType
    <2> QED
        BY <1>1, <1>10, <2>3, <2>4, <2>5, OneViewer DEF Heartbeat, Disconnect
<1>11. CASE ReplayEnds(v)
    <2>1. Become(v, NoViewer) /\ viewer[v].pc = "replayed"
        BY <1>11 DEF ReplayEnds
    <2> QED
        BY <1>3, <1>11, <2>1, OneViewer DEF ReplayEnds, Streamed
<1> QED
    BY <1>5, <1>6, <1>7, <1>8, <1>9, <1>10, <1>11

\* A subscriber gets an id of its own, and the newest events.
LEMMA SubscribeStep ==
    ASSUME Inv, NEW v \in Viewers, Subscribe(v)
    PROVE  Inv'
<1>1. PICK old \in ViewerType : old = viewer[v] /\ Placed(v, old) /\ old.pc = "loaded"
    BY DEF Inv, Typed, Subscribe
<1>2. PICK h \in HubType : h = hub /\ h.live
    BY DEF Inv, Typed, Subscribe
<1>3. PICK none \in Seq(Events) : none = <<>> /\ Len(none) <= SubBuf
    <2>1. <<>> \in Seq(Events) /\ Len(<<>>) = 0
        BY EmptySeq
    <2>2. 0 <= SubBuf
        BY SizesAssumption
    <2> QED
        BY <2>1, <2>2
<1>4. PICK g \in Seq(Events) : g = Newest(2, h.tail)
    BY 2 \in Nat \ {0}, NewestIsSuffix DEF HubType
<1>5. PICK s \in [id : Nat, viewer : Viewers] : s = [id |-> h.nextSub, viewer |-> v]
    BY DEF HubType
<1>6. PICK k \in HubType : k = [h EXCEPT !.subs = @ \cup {s}, !.nextSub = @ + 1]
    <2>1. h.nextSub + 1 \in Nat /\ h.subs \cup {s} \in SUBSET [id : Nat, viewer : Viewers]
        BY DEF HubType
    <2> QED
        BY <2>1 DEF HubType
<1>7. PICK w \in ViewerType : w = [old EXCEPT !.pc = "streaming", !.id = h.nextSub, !.entry = h.entry,
                                            !.heard = h.by, !.chan = none, !.open = TRUE, !.got = g]
    <2>1. h.nextSub \in Nat /\ h.entry \in Nat /\ h.by \in SUBSET Lives
        BY DEF HubType
    <2> QED
        BY <2>1 DEF ViewerType
<1>8. hub' = k /\ Become(v, w)
    <2>1. hub' = k
        BY <1>2, <1>5, <1>6 DEF Subscribe
    <2>2. Become(v, w)
        BY <1>1, <1>2, <1>3, <1>4, <1>7 DEF Subscribe
    <2> QED
        BY <2>1, <2>2
<1>9. /\ viewer' \in [Viewers -> ViewerType]
      /\ \A u \in Viewers : viewer'[u] = IF u = v THEN w ELSE viewer[u]
    BY <1>8 DEF Inv, Typed, Become
<1>10. UNCHANGED <<row, pc, outcome, reports, lives, alive>>
    BY DEF Subscribe
<1>11. /\ w.chan = none /\ w.got = g /\ w.pc = "streaming" /\ w.open /\ w.entry = h.entry /\ w.heard = h.by
       /\ w.id = h.nextSub /\ w.left = old.left /\ w.lagged = old.lagged
    BY <1>7 DEF ViewerType
<1>12. /\ k.live /\ k.seq = h.seq /\ k.tail = h.tail
       /\ k.subs = h.subs \cup {s} /\ k.nextSub = h.nextSub + 1
       /\ k.entry = h.entry /\ k.by = h.by
    BY <1>2, <1>6 DEF HubType
<1>13. Typed'
    BY <1>2, <1>3, <1>8, <1>9, <1>10, <1>11, <1>12 DEF Inv, Typed
<1>14. Agree' /\ Ring'
    BY <1>2, <1>8, <1>10, <1>12 DEF Inv, Agree, Fits, Kept, Ring
<1>15. \A t \in h.subs : t.viewer \in Viewers \ {v} /\ t.id \in Nat /\ t.id < h.nextSub
    BY <1>1, <1>2 DEF Inv, Subscribed, Streamed, HubType
<1>16. h.nextSub \in Nat
    BY DEF HubType
<1>17. Subscribed'
    <2>1. ASSUME NEW t \in k.subs
          PROVE  /\ viewer'[t.viewer].pc \in {"streaming", "leaving"} /\ viewer'[t.viewer].open
                 /\ viewer'[t.viewer].id = t.id /\ viewer'[t.viewer].entry = k.entry
                 /\ viewer'[t.viewer].heard = k.by
                 /\ t.id < k.nextSub
        <3>1. CASE t = s
            BY <1>5, <1>9, <1>11, <1>12, <1>16, <3>1
        <3>2. CASE t \in h.subs
            <4>1. viewer'[t.viewer] = viewer[t.viewer]
                BY <1>9, <1>15, <3>2
            <4>2. t.id < h.nextSub + 1
                BY <1>15, <1>16, <3>2
            <4> QED
                BY <1>2, <1>12, <3>2, <4>1, <4>2 DEF Inv, Subscribed, Streamed
        <3> QED
            BY <1>12, <3>1, <3>2
    <2>2. ASSUME NEW t \in k.subs, NEW u \in k.subs, t.id = u.id
          PROVE  t = u
        <3>1. CASE t \in h.subs /\ u \in h.subs
            BY <1>2, <2>2, <3>1 DEF Inv, Subscribed
        <3>2. CASE t = s /\ u = s
            BY <3>2
        <3>3. CASE t = s /\ u \in h.subs
            BY <1>5, <1>15, <1>16, <2>2, <3>3
        <3>4. CASE u = s /\ t \in h.subs
            BY <1>5, <1>15, <1>16, <2>2, <3>4
        <3> QED
            BY <1>12, <3>1, <3>2, <3>3, <3>4
    <2> QED
        BY <1>8, <1>10, <2>1, <2>2 DEF Subscribed, Streamed
<1>18. \A l : Truth(l)' = Truth(l)
    BY <1>10 DEF Truth
<1>19. h.by # {} /\ \A l \in h.by : l \in Lives /\ pc[l] \in AtWork /\ Told(l)
    <2>1. h.by # {} /\ \A l \in h.by : l \in Lives /\ pc[l] \in AtWork
        BY <1>2 DEF Inv, Agree, Kept, HubType
    <2>2. ASSUME NEW l \in h.by
          PROVE  Told(l)
        <3>1. l \in Nat /\ lives \in Nat /\ Fits(l) /\ pc[l] \in AtWork
            BY <2>1 DEF Inv, Typed, Agree, Lives
        <3> QED
            BY <3>1 DEF Fits, Told, AtWork
    <2> QED
        BY <2>1, <2>2
<1>20. Placed(v, w)'
    <2>1. [id |-> w.id, viewer |-> v] \in k.subs
        BY <1>5, <1>11, <1>12
    <2>2. h.entry \in Nat /\ h.entry <= h.entry
        BY DEF HubType
    <2>3. \A l \in h.by : Told(l)'
        BY <1>10, <1>19 DEF Told
    <2> QED
        BY <1>8, <1>10, <1>11, <1>12, <1>19, <2>1, <2>2, <2>3 DEF Placed
<1>21. ~w.left /\ w.lagged = FALSE /\ w.open = TRUE
    <2>1. ~old.left /\ ~old.lagged
        BY <1>1 DEF Placed
    <2> QED
        BY <1>11, <2>1 DEF ViewerType
<1>22. /\ h.tail \in Seq(Events) /\ h.tail # <<>> /\ h.seq \in Nat /\ UpTo(h.tail, h.seq)
    BY <1>2 DEF Inv, Ring, HubType
<1>23. Order(w.got, w.chan, w.lagged, w.open, k.seq)
    <2>1. Order(g, none, FALSE, TRUE, h.seq)
        BY <1>3, <1>4, <1>22, OrderStarts
    <2> QED
        BY <1>11, <1>12, <1>21, <2>1
<1>24. ASSUME NEW l \in Lives, h.by = {l}
       PROVE  Ends(w.got, w.chan, w.lagged, w.open, pc[l] = "announced", Truth(l))
    <2>1. PICK over \in BOOLEAN : over = (pc[l] = "announced")
        OBVIOUS
    <2>2. EndsOnce(h.tail) /\ (Ended(h.tail) <=> over) /\ Says(h.tail, {outcome[l]})
        BY <1>2, <1>24, <2>1 DEF Inv, Ring
    <2>3. over => outcome[l] \in Truth(l)
        <3>1. Fits(l)
            BY DEF Inv, Agree
        <3> QED
            BY <2>1, <3>1 DEF Fits, Truth, Terminal
    <2>4. Says(h.tail, Truth(l))
        BY <2>2, <2>3 DEF Says, Ended
    <2>5. Ends(g, none, FALSE, TRUE, over, Truth(l))
        <3>1. PICK told : told = Truth(l)
            OBVIOUS
        <3>2. Ends(Newest(2, h.tail), <<>>, FALSE, TRUE, over, told)
            BY <1>22, <2>2, <2>4, <3>1, EndsStart
        <3> QED
            BY <1>3, <1>4, <3>1, <3>2
    <2> QED
        BY <1>11, <1>21, <2>1, <2>5
<1>25. Watching(w)'
    <2>1. Watched(w)'
        BY <1>8, <1>10, <1>11, <1>18, <1>23, <1>24 DEF Watched
    <2> QED
        BY <1>11, <1>21, <2>1 DEF Watching
<1>26. ASSUME NEW u \in Viewers
       PROVE  (Placed(u, viewer[u]) /\ Watching(viewer[u]))'
    <2>1. CASE u = v
        BY <1>9, <1>20, <1>25, <2>1
    <2>2. CASE u # v
        <3>1. PICK x \in ViewerType : x = viewer[u] /\ x = viewer'[u] /\ Placed(u, x) /\ Watching(x)
            BY <1>9, <2>2 DEF Inv, Typed
        <3>2. Placed(u, x)'
            BY <1>2, <1>8, <1>10, <1>12, <3>1 DEF Placed, Told
        <3>3. Watching(x)'
            BY <1>2, <1>8, <1>10, <1>12, <1>18, <3>1 DEF Watching, Watched
        <3> QED
            BY <3>1, <3>2, <3>3
    <2> QED
        BY <2>1, <2>2
<1> QED
    BY <1>13, <1>14, <1>17, <1>26 DEF Inv

\* Leaving takes a request's own subscription with it, and no other one.
LEMMA CancelTakesOwn ==
    ASSUME Inv, NEW v \in Viewers, Cancel(v)
    PROVE  hub' = [hub EXCEPT !.subs = {s \in hub.subs : s.viewer # v}]
<1>1. PICK h \in HubType : h = hub
    BY DEF Inv, Typed
<1>2. PICK own \in SUBSET [id : Nat, viewer : Viewers] : own = {s \in h.subs : s.viewer # v}
    BY DEF HubType
<1>3. \A s \in h.subs : s \in [id : Nat, viewer : Viewers]
    BY DEF HubType
<1>4. CASE viewer[v].entry = h.entry
    <2>1. hub' = [h EXCEPT !.subs = Without(v)]
        BY <1>1, <1>4 DEF Cancel
    <2>2. ASSUME NEW s \in h.subs
          PROVE  s.id # viewer[v].id <=> s.viewer # v
        <3>1. [id |-> viewer[v].id, viewer |-> v] \in h.subs
            BY <1>1, <1>4 DEF Inv, Placed, Cancel
        <3>2. s.viewer = v => s.id = viewer[v].id
            BY <1>1, <2>2 DEF Inv, Subscribed
        <3>3. s.id = viewer[v].id => s = [id |-> viewer[v].id, viewer |-> v]
            BY <1>1, <2>2, <3>1 DEF Inv, Subscribed
        <3> QED
            BY <3>2, <3>3
    <2>3. Without(v) = own
        BY <1>1, <1>2, <2>2 DEF Without
    <2> QED
        BY <1>1, <1>2, <2>1, <2>3
<1>5. CASE viewer[v].entry # h.entry
    <2>1. hub' = h
        BY <1>1, <1>5 DEF Cancel
    <2>2. own = h.subs
        BY <1>1, <1>2, <1>5 DEF Inv, Subscribed
    <2>3. [h EXCEPT !.subs = own] = h
        BY <2>2 DEF HubType
    <2> QED
        BY <1>1, <1>2, <2>1, <2>3
<1> QED
    BY <1>4, <1>5

\* Leaving keeps the invariant.
LEMMA CancelStep ==
    ASSUME Inv, NEW v \in Viewers, Cancel(v)
    PROVE  Inv'
<1>1. PICK h \in HubType : h = hub
    BY DEF Inv, Typed
<1>2. PICK k \in HubType : /\ k = [h EXCEPT !.subs = {s \in h.subs : s.viewer # v}]
                           /\ k.live = h.live /\ k.seq = h.seq /\ k.tail = h.tail /\ k.nextSub = h.nextSub
                           /\ k.entry = h.entry /\ k.by = h.by
                           /\ k.subs = {s \in h.subs : s.viewer # v}
    <2>1. PICK others \in SUBSET [id : Nat, viewer : Viewers] : others = {s \in h.subs : s.viewer # v}
        BY DEF HubType
    <2>2. [h EXCEPT !.subs = others] \in HubType
        BY DEF HubType
    <2>3. PICK k \in HubType : k = [h EXCEPT !.subs = others]
        BY <2>2
    <2>4. /\ k.live = h.live /\ k.seq = h.seq /\ k.tail = h.tail /\ k.nextSub = h.nextSub
          /\ k.entry = h.entry /\ k.by = h.by
          /\ k.subs = others
        BY <2>3 DEF HubType
    <2> QED
        BY <2>1, <2>3, <2>4
<1>3. hub' = k
    BY <1>1, <1>2, CancelTakesOwn
<1>4. PICK none \in Seq(Events) : none = <<>> /\ Len(none) <= SubBuf
    <2>1. <<>> \in Seq(Events) /\ Len(<<>>) = 0
        BY EmptySeq
    <2>2. 0 <= SubBuf
        BY SizesAssumption
    <2> QED
        BY <2>1, <2>2
<1>5. PICK w \in ViewerType : w = NoViewer /\ w.chan = none
    <2>1. NoViewer \in ViewerType
        BY <1>4 DEF NoViewer, ViewerType
    <2>2. NoViewer.chan = none
        BY <1>4 DEF NoViewer
    <2> QED
        BY <2>1, <2>2
<1>6. /\ viewer' \in [Viewers -> ViewerType]
      /\ \A u \in Viewers : viewer'[u] = IF u = v THEN w ELSE viewer[u]
    BY <1>5 DEF Inv, Typed, Cancel, Become
<1>7. UNCHANGED <<row, pc, outcome, reports, lives, alive>>
    BY DEF Cancel
<1>8. Typed'
    BY <1>1, <1>2, <1>3, <1>4, <1>5, <1>6, <1>7 DEF Inv, Typed
<1>9. ~k.live => k = h
    <2>1. ~k.live => h.subs = {}
        BY <1>1, <1>2 DEF Inv, Agree, Kept, NoEntry
    <2>2. h.subs = {} => {s \in h.subs : s.viewer # v} = h.subs
        OBVIOUS
    <2> QED
        BY <1>2, <2>1, <2>2 DEF HubType
<1>10. Agree' /\ Ring'
    BY <1>1, <1>2, <1>3, <1>7, <1>9 DEF Inv, Agree, Fits, Kept, Ring
<1>11. Subscribed'
    <2>1. \A s \in k.subs : s \in h.subs /\ s.viewer \in Viewers /\ viewer'[s.viewer] = viewer[s.viewer]
        BY <1>2, <1>6 DEF HubType
    <2> QED
        BY <1>1, <1>2, <1>3, <1>7, <2>1 DEF Inv, Subscribed, Streamed
<1>12. \A l : Truth(l)' = Truth(l)
    BY <1>7 DEF Truth
<1>13. ASSUME NEW u \in Viewers
       PROVE  (Placed(u, viewer[u]) /\ Watching(viewer[u]))'
    <2>1. CASE u = v
        <3>1. Placed(v, NoViewer)' /\ Watching(NoViewer)'
            BY DEF NoViewer, Placed, Watching
        <3> QED
            BY <1>5, <1>6, <2>1, <3>1
    <2>2. CASE u # v
        <3>1. PICK x \in ViewerType : x = viewer[u] /\ x = viewer'[u] /\ Placed(u, x) /\ Watching(x)
            BY <1>6, <2>2 DEF Inv, Typed
        <3>2. Placed(u, x)'
            <4>1. [id |-> x.id, viewer |-> u] \in h.subs => [id |-> x.id, viewer |-> u] \in k.subs
                BY <1>2, <2>2
            <4> QED
                BY <1>1, <1>2, <1>3, <1>7, <3>1, <4>1 DEF Placed, Told
        <3>3. Watching(x)'
            BY <1>1, <1>2, <1>3, <1>7, <1>12, <3>1 DEF Watching, Watched
        <3> QED
            BY <3>1, <3>2, <3>3
    <2> QED
        BY <2>1, <2>2
<1> QED
    BY <1>8, <1>10, <1>11, <1>13 DEF Inv

\* A step beside the hub and the requests keeps the invariant when what the viewers
\* were told stays true.
LEMMA BesideStep ==
    ASSUME Inv, UNCHANGED <<hub, viewer>>, Typed', Agree',
           \A l \in Lives : /\ pc'[l] = "announced" <=> pc[l] = "announced"
                            /\ pc[l] = "announced" => outcome'[l] = outcome[l]
                            /\ pc'[l] \in AtWork => pc[l] \in AtWork,
           \A v \in Viewers, l \in Lives : Streamed(v) /\ l \in viewer[v].heard => Told(l)',
           \A v \in Viewers, l \in Lives : Streamed(v) /\ viewer[v].heard = {l} =>
              Truth(l) \subseteq Truth(l)' \/ (viewer[v].open /\ pc[l] # "announced")
    PROVE  Inv'
<1>1. Ring'
    <2>1. ASSUME NEW l \in Lives, hub.live, hub.by = {l}
          PROVE  Says(hub.tail, {outcome'[l]})
        BY <2>1 DEF Inv, Ring, Says, Ended
    <2> QED
        BY <2>1 DEF Inv, Ring
<1>2. Subscribed'
    BY DEF Inv, Subscribed, Streamed
<1>3. ASSUME NEW v \in Viewers
      PROVE  (Placed(v, viewer[v]) /\ Watching(viewer[v]))'
    <2>1. PICK x \in ViewerType : x = viewer[v] /\ Placed(v, x) /\ Watching(x)
        BY DEF Inv, Typed
    <2>2. x.heard \subseteq Lives /\ x.open \in BOOLEAN
        BY DEF ViewerType
    <2>3. Placed(v, x)'
        <3>1. ASSUME x.pc \in {"streaming", "leaving"}
              PROVE  \A l \in x.heard : Told(l)'
            BY <2>1, <2>2, <3>1 DEF Streamed
        <3> QED
            BY <2>1, <3>1 DEF Placed
    <2>4. ASSUME x.pc \in {"streaming", "leaving"}, Watched(x)
          PROVE  Watched(x)'
        <3>1. ASSUME NEW l \in Lives, x.heard = {l}
              PROVE  Ends(x.got, x.chan, x.lagged, x.open, pc'[l] = "announced", Truth(l)')
            <4>1. PICK over \in BOOLEAN : over = (pc[l] = "announced") /\ over = (pc'[l] = "announced")
                OBVIOUS
            <4>2. Truth(l) \subseteq Truth(l)' \/ (x.open /\ ~over)
                BY <2>1, <2>4, <3>1, <4>1 DEF Streamed
            <4>3. Ends(x.got, x.chan, x.lagged, x.open, over, Truth(l))
                BY <2>4, <3>1, <4>1 DEF Watched
            <4>4. Ends(x.got, x.chan, x.lagged, x.open, over, Truth(l)')
                BY <2>2, <4>2, <4>3, EndsAgain
            <4> QED
                BY <4>1, <4>4
        <3> QED
            BY <2>4, <3>1 DEF Watched
    <2>5. Watching(x)'
        BY <2>1, <2>4 DEF Watching
    <2> QED
        BY <2>1, <2>3, <2>5
<1> QED
    BY <1>1, <1>2, <1>3 DEF Inv

\* What a streaming viewer heard of.
LEMMA HeardOf ==
    ASSUME Inv, NEW v \in Viewers, Streamed(v), NEW l \in Lives, l \in viewer[v].heard
    PROVE  /\ Told(l) /\ l \in Nat /\ l <= lives
           /\ viewer[v].heard = {l} /\ pc[l] \in AtWork => viewer[v].open
<1>1. PICK x \in ViewerType : x = viewer[v] /\ Placed(v, x) /\ x.pc \in {"streaming", "leaving"}
    BY DEF Inv, Typed, Streamed
<1>2. Told(l) /\ (x.heard = {l} /\ pc[l] \in AtWork => x.open)
    BY <1>1 DEF Placed
<1> QED
    BY <1>1, <1>2 DEF Told, Lives

\* Of an earlier life, whatever is told is never denied.
LEMMA EarlierIsTrue ==
    ASSUME NEW l, l # lives'
    PROVE  Truth(l) \subseteq Truth(l)'
BY DEF Truth

\* Steps of the row and of the executors that say nothing to the hub.
LEMMA RowSteps ==
    ASSUME Inv,
           \/ Enqueue \/ DeleteRow
           \/ \E l \in Lives : \/ Claim(l) \/ LoadTaskFails(l) \/ FinishLost(l)
                              \/ \E status \in Terminal : Finish(l, status)
           \/ \E v \in Viewers : Revoke(v)
           \/ UNCHANGED vars
    PROVE  Inv'
<1>1. UNCHANGED <<hub, viewer>>
    BY DEF Enqueue, DeleteRow, Claim, LoadTaskFails, Finish, FinishLost, Revoke, vars
<1>2. /\ Typed /\ Agree /\ lives \in Nat /\ \A l \in Lives : l \in Nat /\ Fits(l)
      /\ pc \in [Lives -> {"idle", "claimed", "working", "finished", "announced"}]
      /\ outcome \in [Lives -> {"none"} \cup Terminal]
      /\ Kept
    BY DEF Inv, Typed, Agree, Lives
<1>3. CASE Enqueue
    <2>1. /\ row = "none" /\ row' = "queued" /\ lives' = lives + 1 /\ reports' = 0
          /\ lives' \in 0 .. MaxLives
          /\ UNCHANGED <<pc, outcome, hub, viewer, alive>>
        BY <1>2, <1>3, SizesAssumption DEF Enqueue, Typed
    <2>2. Typed'
        BY <1>2, <2>1, SizesAssumption DEF Typed
    <2>3. ASSUME NEW l \in Lives
          PROVE  Fits(l)'
        BY <1>2, <2>1 DEF Fits
    <2>4. Agree'
        BY <1>2, <2>1, <2>3 DEF Agree, Kept
    <2>5. \A v \in Viewers, l \in Lives : Streamed(v) /\ l \in viewer[v].heard => l < lives'
        BY <1>2, <2>1, HeardOf
    <2>6. \A v \in Viewers, l \in Lives : Streamed(v) /\ l \in viewer[v].heard => Told(l)' /\ l # lives'
        BY <1>2, <2>1, <2>5 DEF Told
    <2> QED
        BY <1>1, <2>1, <2>2, <2>4, <2>6, BesideStep, EarlierIsTrue
<1>4. CASE DeleteRow
    <2>1. row \in Terminal /\ row' = "none" /\ UNCHANGED <<pc, outcome, reports, lives, hub, viewer, alive>>
        BY <1>4 DEF DeleteRow
    <2>2. Typed'
        BY <1>2, <2>1 DEF Typed
    <2>3. ASSUME NEW l \in Lives
          PROVE  Fits(l)'
        BY <1>2, <2>1 DEF Fits, Terminal
    <2>4. Agree'
        BY <1>2, <2>1, <2>3 DEF Agree, Kept
    <2>5. \A l : Truth(l) \subseteq Truth(l)'
        BY <2>1 DEF Truth, Terminal
    <2>6. \A v \in Viewers, l \in Lives : Streamed(v) /\ l \in viewer[v].heard => Told(l)'
        BY <2>1, HeardOf DEF Told
    <2> QED
        BY <1>1, <2>1, <2>2, <2>4, <2>5, <2>6, BesideStep
<1>5. ASSUME NEW l \in Lives, Claim(l) \/ LoadTaskFails(l)
      PROVE  Inv'
    <2>1. PICK to \in {"idle", "claimed"} :
             /\ pc' = [pc EXCEPT ![l] = to] /\ pc[l] \in {"idle", "claimed"} /\ l = lives
             /\ pc[l] = "idle" => row = "queued"
             /\ row' \in {"running", "failed"} /\ to = "claimed" => row' = "running"
             /\ UNCHANGED <<outcome, reports, lives, hub, viewer, alive>>
        <3>1. CASE Claim(l)
            <4>1. pc[l] = "idle"
                BY <1>2, <3>1 DEF Claim, Fits
            <4> QED
                BY <3>1, <4>1 DEF Claim
        <3>2. CASE LoadTaskFails(l)
            <4>1. l = lives /\ row = "running"
                BY <1>2, <3>2 DEF LoadTaskFails, Fits
            <4> QED
                BY <3>2, <4>1 DEF LoadTaskFails
        <3> QED
            BY <1>5, <3>1, <3>2
    <2>2. row' \in {"running", "failed"}
        <3>1. pc[l] = "claimed" => row = "running"
            BY <1>2, <2>1 DEF Fits
        <3> QED
            BY <1>5, <2>1, <3>1 DEF Claim, LoadTaskFails
    <2>3. \A m \in Lives : pc'[m] = IF m = l THEN to ELSE pc[m]
        BY <1>2, <2>1
    <2>4. Typed'
        BY <1>2, <2>1, <2>2 DEF Typed, Terminal
    <2>5. ASSUME NEW m \in Lives
          PROVE  Fits(m)'
        <3>1. CASE m = l
            BY <1>2, <2>1, <2>2, <2>3, <3>1 DEF Fits
        <3>2. CASE m # l
            BY <1>2, <2>1, <2>3, <3>2 DEF Fits
        <3> QED
            BY <3>1, <3>2
    <2>6. Agree'
        <3>1. \A m \in hub.by : m \in Lives /\ m # l
            BY <1>2, <2>1 DEF Kept, AtWork, Typed, HubType
        <3>2. Kept'
            BY <1>2, <2>1, <2>3, <3>1 DEF Kept
        <3>3. lives' # 0
            BY <1>2, <2>1 DEF Lives
        <3> QED
            BY <2>5, <3>2, <3>3 DEF Agree
    <2>7. \A v \in Viewers, m \in Lives : Streamed(v) /\ m \in viewer[v].heard => m # lives' /\ m <= lives'
        <3>1. row = "queued" \/ pc[l] = "claimed"
            BY <2>1
        <3> QED
            BY <2>1, <3>1, HeardOf DEF Told
    <2>8. \A v \in Viewers, m \in Lives : Streamed(v) /\ m \in viewer[v].heard => Told(m)'
        BY <2>7 DEF Told
    <2>9. \A v \in Viewers, m \in Lives : Streamed(v) /\ viewer[v].heard = {m} => Truth(m) \subseteq Truth(m)'
        BY <2>7, EarlierIsTrue
    <2>10. \A m \in Lives : /\ pc'[m] = "announced" <=> pc[m] = "announced"
                            /\ pc'[m] \in AtWork => pc[m] \in AtWork
        BY <2>1, <2>3 DEF AtWork
    <2> QED
        BY <1>1, <2>1, <2>4, <2>6, <2>8, <2>9, <2>10, BesideStep
<1>6. ASSUME NEW l \in Lives, FinishLost(l) \/ \E status \in Terminal : Finish(l, status)
      PROVE  Inv'
    <2>1. PICK status \in Terminal :
             /\ pc[l] = "working" /\ pc' = [pc EXCEPT ![l] = "finished"]
             /\ outcome' = [outcome EXCEPT ![l] = status]
             /\ row' = status \/ (row' = row /\ status = "failed")
             /\ UNCHANGED <<reports, lives, hub, viewer, alive>>
        BY <1>6 DEF FinishLost, Finish, Terminal
    <2>2. l = lives /\ row = "running"
        BY <1>2, <2>1 DEF Fits
    <2>3. \A m \in Lives : /\ pc'[m] = IF m = l THEN "finished" ELSE pc[m]
                           /\ outcome'[m] = IF m = l THEN status ELSE outcome[m]
        BY <1>2, <2>1
    <2>4. Typed'
        BY <1>2, <2>1, <2>2 DEF Typed, Terminal
    <2>5. ASSUME NEW m \in Lives
          PROVE  Fits(m)'
        <3>1. CASE m = l
            BY <1>2, <2>1, <2>2, <2>3, <3>1 DEF Fits, Terminal
        <3>2. CASE m # l
            BY <1>2, <2>1, <2>2, <2>3, <3>2 DEF Fits
        <3> QED
            BY <3>1, <3>2
    <2>6. Agree'
        <3>1. \A m \in hub.by : m \in Lives
            BY <1>2 DEF Typed, HubType
        <3>2. Kept'
            BY <1>2, <2>1, <2>3, <3>1 DEF Kept, AtWork
        <3>3. lives' # 0
            BY <1>2, <2>1, <2>2 DEF Lives
        <3> QED
            BY <2>5, <3>2, <3>3 DEF Agree
    <2>7. row' \notin {"none", "queued"}
        BY <2>1, <2>2 DEF Terminal
    <2>8. \A v \in Viewers, m \in Lives : Streamed(v) /\ m \in viewer[v].heard => Told(m)'
        BY <2>1, <2>3, <2>7, HeardOf DEF Told
    <2>9. ASSUME NEW v \in Viewers, NEW m \in Lives, Streamed(v), viewer[v].heard = {m}
          PROVE  Truth(m) \subseteq Truth(m)' \/ (viewer[v].open /\ pc[m] # "announced")
        <3>1. CASE m = l
            BY <2>1, <2>9, <3>1, HeardOf DEF AtWork
        <3>2. CASE m # l
            BY <2>1, <2>2, <3>2, EarlierIsTrue
        <3> QED
            BY <3>1, <3>2
    <2>10. \A m \in Lives : /\ pc'[m] = "announced" <=> pc[m] = "announced"
                            /\ pc[m] = "announced" => outcome'[m] = outcome[m]
                            /\ pc'[m] \in AtWork => pc[m] \in AtWork
        BY <2>1, <2>3 DEF AtWork
    <2> QED
        BY <1>1, <2>4, <2>6, <2>8, <2>9, <2>10, BesideStep
<1>7. CASE (\E v \in Viewers : Revoke(v)) \/ UNCHANGED vars
    <2>1. /\ UNCHANGED <<row, pc, outcome, reports, lives>>
          /\ alive' = alive \/ \E v \in Viewers : alive' = alive \ {v}
        BY <1>7 DEF Revoke, vars
    <2>2. Typed'
        BY <1>1, <1>2, <2>1 DEF Typed
    <2>3. Agree'
        BY <1>1, <1>2, <2>1 DEF Agree, Fits, Kept
    <2>4. \A l : Truth(l)' = Truth(l)
        BY <2>1 DEF Truth
    <2>5. \A v \in Viewers, l \in Lives : Streamed(v) /\ l \in viewer[v].heard => Told(l)'
        BY <2>1, HeardOf DEF Told
    <2> QED
        BY <1>1, <2>1, <2>2, <2>3, <2>4, <2>5, BesideStep
<1> QED
    BY <1>3, <1>4, <1>5, <1>6, <1>7

\* The executor of life l publishes: it is no queued run's, nor a run's that is only claimed.
LEMMA MayPublish ==
    ASSUME Inv, NEW l \in Lives, pc[l] \in {"claimed", "working", "finished"},
           UNCHANGED <<row, lives>>,
           NEW to \in AtWork, pc' = [pc EXCEPT ![l] = to]
    PROVE  /\ \A m \in Lives : pc'[m] = IF m = l THEN to ELSE pc[m]
           /\ l \in Nat /\ Told(l)'
           /\ \A m \in Lives : Told(m) => Told(m)' /\ (m = l => pc[l] # "claimed")
<1>1. pc \in [Lives -> {"idle", "claimed", "working", "finished", "announced"}] /\ Fits(l) /\ lives \in Nat
    BY DEF Inv, Typed, Agree
<1>2. \A m \in Lives : pc'[m] = IF m = l THEN to ELSE pc[m]
    BY <1>1
<1>3. l \in Nat
    BY DEF Lives
<1>4. l <= lives /\ (l = lives => row # "queued") /\ (pc[l] = "claimed" => l = lives)
    BY <1>1, <1>3 DEF Fits
<1>5. pc'[l] # "claimed"
    BY <1>2 DEF AtWork
<1>6. Told(l)'
    BY <1>4, <1>5 DEF Told
<1>7. ASSUME NEW m \in Lives, Told(m)
      PROVE  Told(m)' /\ (m = l => pc[l] # "claimed")
    BY <1>2, <1>4, <1>6, <1>7 DEF Told
<1> QED
    BY <1>2, <1>3, <1>6, <1>7

\* The event goes to every subscriber, unless it has stopped reading or its channel is full.
Offered(x, w, h, l, ev) ==
    /\ x.open /\ x.entry = h.entry /\ x.heard = h.by /\ w.heard = h.by \cup {l}
    /\ w.pc = x.pc /\ w.id = x.id /\ w.entry = x.entry /\ w.open = x.open
    /\ w.got = x.got /\ w.left = x.left
    /\ \/ x.pc # "streaming" /\ w.chan = x.chan /\ w.lagged = x.lagged
       \/ x.pc = "streaming" /\ w.chan = Append(x.chan, ev) /\ w.lagged = x.lagged
       \/ x.pc = "streaming" /\ w.chan = x.chan /\ w.lagged = TRUE

LEMMA Offers ==
    ASSUME Inv, NEW v \in Viewers, NEW l \in Lives, NEW ev \in Events,
           NEW w, w = IF \E s \in hub.subs : s.viewer = v
                      THEN [Offer(v, ev) EXCEPT !.heard = @ \cup {l}] ELSE viewer[v]
    PROVE  \E x \in ViewerType :
              /\ x = viewer[v] /\ Placed(v, x) /\ Watching(x)
              /\ w \in ViewerType /\ Len(w.chan) <= SubBuf
              /\ (w = x /\ ~x.open) \/ Offered(x, w, hub, l, ev)
<1>1. PICK h \in HubType : h = hub
    BY DEF Inv, Typed
<1>2. PICK x \in ViewerType : x = viewer[v] /\ Placed(v, x) /\ Watching(x) /\ Len(x.chan) <= SubBuf
    BY DEF Inv, Typed
<1>3. CASE ~\E s \in h.subs : s.viewer = v
    <2>1. w = x
        BY <1>1, <1>2, <1>3
    <2>2. ~x.open
        <3>1. x.open => [id |-> x.id, viewer |-> v] \in h.subs
            BY <1>1, <1>2 DEF Placed
        <3> QED
            BY <1>3, <3>1
    <2> QED
        BY <1>2, <2>1, <2>2
<1>4. CASE \E s \in h.subs : s.viewer = v
    <2>1. w = [Offer(v, ev) EXCEPT !.heard = @ \cup {l}] /\ x.open /\ x.entry = h.entry /\ x.heard = h.by
        BY <1>1, <1>2, <1>4 DEF Inv, Subscribed
    <2>2. PICK both \in SUBSET Lives : both = h.by \cup {l}
        BY DEF HubType
    <2>3. PICK o \in ViewerType :
             /\ o = Offer(v, ev) /\ Len(o.chan) <= SubBuf
             /\ o.pc = x.pc /\ o.id = x.id /\ o.entry = x.entry /\ o.open = x.open
             /\ o.got = x.got /\ o.left = x.left /\ o.heard = x.heard
             /\ \/ x.pc # "streaming" /\ o.chan = x.chan /\ o.lagged = x.lagged
                \/ x.pc = "streaming" /\ o.chan = Append(x.chan, ev) /\ o.lagged = x.lagged
                \/ x.pc = "streaming" /\ o.chan = x.chan /\ o.lagged = TRUE
        <3>1. CASE x.pc # "streaming"
            <4>1. Offer(v, ev) = x
                BY <1>2, <3>1 DEF Offer
            <4> QED
                BY <1>2, <3>1, <4>1
        <3>2. CASE x.pc = "streaming" /\ Len(x.chan) < SubBuf
            <4>1. PICK c \in Seq(Events) : c = Append(x.chan, ev) /\ Len(c) = Len(x.chan) + 1
                BY 0 \in Nat, OneMore DEF ViewerType
            <4>2. PICK o \in ViewerType : o = [x EXCEPT !.chan = c]
                BY DEF ViewerType
            <4>3. Offer(v, ev) = o
                BY <1>2, <3>2, <4>1, <4>2 DEF Offer
            <4>4. Len(c) <= SubBuf
                <5>1. PICK n \in Nat : n = Len(x.chan)
                    BY LenProperties DEF ViewerType
                <5> QED
                    BY <3>2, <4>1, <5>1, SizesAssumption
            <4>5. /\ o.pc = x.pc /\ o.id = x.id /\ o.entry = x.entry /\ o.open = x.open
                  /\ o.got = x.got /\ o.left = x.left /\ o.heard = x.heard
                  /\ o.chan = c /\ o.lagged = x.lagged
                BY <4>2 DEF ViewerType
            <4> QED
                BY <3>2, <4>1, <4>3, <4>4, <4>5
        <3>3. CASE x.pc = "streaming" /\ ~(Len(x.chan) < SubBuf)
            <4>1. PICK o \in ViewerType : o = [x EXCEPT !.lagged = TRUE]
                BY DEF ViewerType
            <4>2. Offer(v, ev) = o
                BY <1>2, <3>3, <4>1 DEF Offer
            <4>3. /\ o.pc = x.pc /\ o.id = x.id /\ o.entry = x.entry /\ o.open = x.open
                  /\ o.got = x.got /\ o.left = x.left /\ o.heard = x.heard
                  /\ o.chan = x.chan /\ o.lagged = TRUE
                BY <4>1 DEF ViewerType
            <4> QED
                BY <1>2, <3>3, <4>2, <4>3
        <3> QED
            BY <3>1, <3>2, <3>3
    <2>4. PICK y \in ViewerType : y = [o EXCEPT !.heard = both]
        BY DEF ViewerType
    <2>5. w = y
        BY <2>1, <2>2, <2>3, <2>4
    <2>6. /\ y.pc = o.pc /\ y.id = o.id /\ y.entry = o.entry /\ y.open = o.open
          /\ y.got = o.got /\ y.left = o.left /\ y.heard = both
          /\ y.chan = o.chan /\ y.lagged = o.lagged
        BY <2>4 DEF ViewerType
    <2>7. Offered(x, y, h, l, ev)
        BY <2>1, <2>2, <2>3, <2>6 DEF Offered
    <2>8. Len(y.chan) <= SubBuf
        BY <2>3, <2>6
    <2> QED
        BY <1>1, <1>2, <2>5, <2>7, <2>8
<1> QED
    BY <1>3, <1>4

\* Publishing an event numbers it next, keeps it in the ring and offers it to all who
\* subscribed: whoever is not told has its channel full.
LEMMA PublishStep ==
    ASSUME Inv, NEW l \in Lives, NEW status \in {"none"} \cup Terminal, Publish(l, status),
           UNCHANGED <<row, outcome, lives, alive>>, reports' \in 0 .. MaxReports,
           NEW to \in AtWork, pc' = [pc EXCEPT ![l] = to],
           \/ pc[l] \in {"claimed", "working"} /\ to = "working" /\ status = "none"
           \/ pc[l] = "finished" /\ to = "announced" /\ status = outcome[l]
    PROVE  Inv'
<1>1. PICK h \in HubType : h = hub /\ Len(h.tail) <= TailMax
    BY DEF Inv, Typed
<1>2. PICK n \in Nat, ev \in Events : n = h.seq + 1 /\ ev = [seq |-> n, status |-> status]
                                      /\ ev.seq = h.seq + 1 /\ ev.status = status
    <2>1. h.seq + 1 \in Nat
        BY DEF HubType
    <2>2. [seq |-> h.seq + 1, status |-> status] \in Events
        BY <2>1 DEF Events
    <2> QED
        BY <2>1, <2>2
<1>3. PICK a \in Seq(Events) : a = Append(h.tail, ev) /\ a # <<>>
    BY 0 \in Nat, OneMore DEF HubType
<1>4. PICK t \in Seq(Events), d \in Nat :
          /\ t = Newest(TailMax, a) /\ Len(t) <= TailMax /\ Len(a) = d + Len(t)
          /\ \A i \in 1 .. Len(t) : t[i] = a[d + i]
          /\ a # <<>> => t # <<>>
    BY NewestIsSuffix, SizesAssumption
<1>5. PICK both \in SUBSET Lives : both = h.by \cup {l}
    BY DEF HubType
<1>6. PICK k \in HubType : /\ k = [h EXCEPT !.live = TRUE, !.seq = n, !.tail = t, !.by = both]
                           /\ k.live = TRUE /\ k.seq = n /\ k.tail = t /\ k.subs = h.subs
                           /\ k.nextSub = h.nextSub /\ k.entry = h.entry /\ k.by = both
    <2>1. [h EXCEPT !.live = TRUE, !.seq = n, !.tail = t, !.by = both] \in HubType
        BY DEF HubType
    <2>2. PICK k \in HubType : k = [h EXCEPT !.live = TRUE, !.seq = n, !.tail = t, !.by = both]
        BY <2>1
    <2>3. /\ k.live = TRUE /\ k.seq = n /\ k.tail = t /\ k.subs = h.subs
          /\ k.nextSub = h.nextSub /\ k.entry = h.entry /\ k.by = both
        BY <2>2 DEF HubType
    <2> QED
        BY <2>2, <2>3
<1>7. hub' = k
    BY <1>1, <1>2, <1>3, <1>4, <1>5, <1>6 DEF Publish
<1>8. viewer' = [v \in Viewers |-> IF \E s \in hub.subs : s.viewer = v
                                   THEN [Offer(v, ev) EXCEPT !.heard = @ \cup {l}] ELSE viewer[v]]
    BY <1>1, <1>2 DEF Publish
<1>9. PICK over \in BOOLEAN : (over <=> ev.status \in Terminal) /\ over = (to = "announced")
    <2>1. Fits(l)
        BY DEF Inv, Agree
    <2>2. ev.status \in Terminal <=> to = "announced"
        BY <1>2, <2>1 DEF Fits, Terminal
    <2>3. PICK over \in BOOLEAN : over = (to = "announced")
        OBVIOUS
    <2> QED
        BY <2>2, <2>3
<1>10. /\ pc[l] \in {"claimed", "working", "finished"}
       /\ \A m \in Lives : pc'[m] = IF m = l THEN to ELSE pc[m]
       /\ l \in Nat /\ Told(l)'
       /\ \A m \in Lives : Told(m) => Told(m)' /\ (m = l => pc[l] # "claimed")
    <2>1. pc[l] \in {"claimed", "working", "finished"}
        OBVIOUS
    <2> QED
        BY <2>1, MayPublish
<1>11. UpTo(h.tail, h.seq) /\ h.seq \in Nat
    <2>1. CASE h.live
        BY <1>1, <2>1 DEF Inv, Ring, HubType
    <2>2. CASE ~h.live
        <3>1. h.tail = <<>> /\ Len(h.tail) = 0 /\ h.seq = 0
            BY <1>1, <2>2, EmptySeq DEF Inv, Agree, Kept, NoEntry
        <3> QED
            BY <3>1 DEF UpTo
    <2> QED
        BY <2>1, <2>2
<1>12. ASSUME h.by \subseteq {l}
       PROVE  Says(h.tail, {outcome[l]}) /\ ~Ended(h.tail)
    <2>1. CASE h.live
        <3>1. h.by = {l}
            BY <1>1, <1>12, <2>1 DEF Inv, Agree, Kept
        <3> QED
            BY <1>1, <2>1, <3>1 DEF Inv, Ring
    <2>2. CASE ~h.live
        <3>1. h.tail = <<>> /\ Len(h.tail) = 0
            BY <1>1, <2>2, EmptySeq DEF Inv, Agree, Kept, NoEntry
        <3> QED
            BY <3>1 DEF Says, Ended
    <2> QED
        BY <2>1, <2>2
<1>13. UpTo(t, n)
    <2>1. UpTo(a, n)
        BY <1>2, <1>3, <1>11, OneMore DEF HubType
    <2> QED
        BY <1>4, <2>1, NewestInOrder, SizesAssumption
<1>14. ASSUME h.by \subseteq {l}
       PROVE  EndsOnce(t) /\ (Ended(t) <=> over) /\ Says(t, {outcome[l]})
    <2>1. /\ EndsOnce(a) /\ (Ended(a) <=> over)
          /\ \A i \in 1 .. Len(a) : a[i] = ev \/ \E j \in 1 .. Len(h.tail) : a[i] = h.tail[j]
        <3>1. h.tail \in Seq(Events)
            BY DEF HubType
        <3>2. EndsOnce(a) /\ (Ended(a) <=> ev.status \in Terminal)
            BY <1>3, <1>12, <1>14, <3>1, 0 \in Nat, OneMore
        <3>3. \A i \in 1 .. Len(a) : a[i] = ev \/ \E j \in 1 .. Len(h.tail) : a[i] = h.tail[j]
            BY <1>3, <3>1, 0 \in Nat, OneMore
        <3> QED
            BY <1>9, <3>2, <3>3
    <2>2. EndsOnce(t) /\ (Ended(t) <=> over)
        BY <1>4, <2>1, 0 \in Nat, NewestInOrder, SizesAssumption
    <2>3. Says(a, {outcome[l]})
        BY <1>2, <1>12, <1>14, <2>1 DEF Says, Terminal
    <2>4. Says(t, {outcome[l]})
        <3>1. \A i \in 1 .. Len(t) : d + i \in 1 .. Len(a)
            BY <1>4, LenProperties
        <3> QED
            BY <1>4, <2>3, <3>1 DEF Says
    <2> QED
        BY <2>2, <2>4
<1>15. Ring'
    <2>1. ASSUME NEW m \in Lives, both = {m}
          PROVE  EndsOnce(t) /\ (Ended(t) <=> pc'[m] = "announced") /\ Says(t, {outcome[m]})
        <3>1. m = l /\ h.by \subseteq {l}
            BY <1>5, <2>1
        <3> QED
            BY <1>9, <1>10, <1>14, <3>1
    <2> QED
        BY <1>3, <1>4, <1>6, <1>7, <1>13, <2>1 DEF Ring
<1>16. Agree'
    <2>1. ASSUME NEW m \in Lives
          PROVE  Fits(m)'
        <3>1. Fits(m) /\ lives \in Nat
            BY DEF Inv, Agree, Typed
        <3>2. CASE m = l
            BY <1>9, <1>10, <3>1, <3>2 DEF Fits, AtWork, Terminal
        <3>3. CASE m # l
            BY <1>10, <3>1, <3>3 DEF Fits
        <3> QED
            BY <3>2, <3>3
    <2>2. Kept'
        <3>1. \A m \in both : pc'[m] \in AtWork
            BY <1>1, <1>5, <1>10 DEF Inv, Agree, Kept
        <3> QED
            BY <1>5, <1>6, <1>7, <3>1 DEF Kept
    <2> QED
        BY <2>1, <2>2 DEF Inv, Agree
<1>17. ASSUME NEW v \in Viewers
       PROVE  \E x \in ViewerType, w \in ViewerType :
                 /\ x = viewer[v] /\ Placed(v, x) /\ Watching(x)
                 /\ w = viewer'[v] /\ Len(w.chan) <= SubBuf
                 /\ (w = x /\ ~x.open) \/ Offered(x, w, h, l, ev)
    <2>1. viewer'[v] = IF \E s \in hub.subs : s.viewer = v
                       THEN [Offer(v, ev) EXCEPT !.heard = @ \cup {l}] ELSE viewer[v]
        BY <1>8
    <2>2. PICK w : w = viewer'[v]
        OBVIOUS
    <2>3. w = IF \E s \in hub.subs : s.viewer = v
              THEN [Offer(v, ev) EXCEPT !.heard = @ \cup {l}] ELSE viewer[v]
        BY <2>1, <2>2
    <2>4. PICK x \in ViewerType :
             /\ x = viewer[v] /\ Placed(v, x) /\ Watching(x)
             /\ w \in ViewerType /\ Len(w.chan) <= SubBuf
             /\ (w = x /\ ~x.open) \/ Offered(x, w, hub, l, ev)
        BY <2>3, Offers
    <2> QED
        BY <1>1, <2>2, <2>4
<1>18. viewer' \in [Viewers -> ViewerType] /\ \A v \in Viewers : Len(viewer'[v].chan) <= SubBuf
    <2>1. \A v \in Viewers : viewer'[v] \in ViewerType /\ Len(viewer'[v].chan) <= SubBuf
        BY <1>17
    <2> QED
        BY <1>8, <2>1
<1>19. Typed'
    <2>1. pc' \in [Lives -> {"idle", "claimed", "working", "finished", "announced"}]
        BY DEF Inv, Typed, AtWork
    <2> QED
        BY <1>4, <1>6, <1>7, <1>18, <2>1 DEF Inv, Typed
<1>20. Subscribed'
    <2>1. ASSUME NEW s \in h.subs
          PROVE  /\ viewer'[s.viewer].pc \in {"streaming", "leaving"} /\ viewer'[s.viewer].open
                 /\ viewer'[s.viewer].id = s.id /\ viewer'[s.viewer].entry = h.entry
                 /\ viewer'[s.viewer].heard = both /\ s.id < h.nextSub
        <3>1. s.viewer \in Viewers
            BY DEF HubType
        <3>2. PICK x \in ViewerType, w \in ViewerType :
                 /\ x = viewer[s.viewer] /\ w = viewer'[s.viewer]
                 /\ (w = x /\ ~x.open) \/ Offered(x, w, h, l, ev)
            BY <1>17, <3>1
        <3>3. x.pc \in {"streaming", "leaving"} /\ x.open /\ x.id = s.id /\ s.id < h.nextSub
            BY <1>1, <3>2 DEF Inv, Subscribed, Streamed
        <3> QED
            BY <1>5, <3>2, <3>3 DEF Offered
    <2> QED
        BY <1>1, <1>6, <1>7, <2>1 DEF Inv, Subscribed, Streamed
<1>21. \A m : Truth(m)' = Truth(m)
    BY DEF Truth
<1>22. ASSUME NEW v \in Viewers
       PROVE  (Placed(v, viewer[v]) /\ Watching(viewer[v]))'
    <2>1. PICK x \in ViewerType, w \in ViewerType :
             /\ x = viewer[v] /\ Placed(v, x) /\ Watching(x) /\ w = viewer'[v]
             /\ (w = x /\ ~x.open) \/ Offered(x, w, h, l, ev)
        BY <1>17
    <2>2. CASE w = x /\ ~x.open
        <3>1. Placed(v, x)'
            <4>1. ASSUME x.pc \in {"streaming", "leaving"}
                  PROVE  /\ \A m \in x.heard : Told(m)'
                         /\ \A m \in Lives : x.heard = {m} => pc'[m] \notin AtWork
                <5>1. x.heard \subseteq Lives
                    BY DEF ViewerType
                <5>2. /\ \A m \in x.heard : Told(m)
                      /\ \A m \in Lives : x.heard = {m} => pc[m] \notin AtWork
                    BY <2>1, <2>2, <4>1 DEF Placed
                <5>3. \A m \in Lives : x.heard = {m} => m # l
                    BY <1>10, <5>2 DEF AtWork
                <5> QED
                    BY <1>10, <5>1, <5>2, <5>3
            <4> QED
                BY <1>1, <1>6, <1>7, <2>1, <2>2, <4>1 DEF Placed
        <3>2. ASSUME Watched(x)
              PROVE  Watched(x)'
            <4>1. x.open = FALSE
                BY <2>2 DEF ViewerType
            <4>2. Order(x.got, x.chan, x.lagged, x.open, hub'.seq)
                <5>1. Order(x.got, x.chan, x.lagged, FALSE, hub.seq)
                    BY <3>2, <4>1 DEF Watched
                <5>2. Order(x.got, x.chan, x.lagged, FALSE, hub'.seq)
                    BY <5>1 DEF Order
                <5> QED
                    BY <4>1, <5>2
            <4>3. ASSUME NEW m \in Lives, x.heard = {m}
                  PROVE  Ends(x.got, x.chan, x.lagged, x.open, pc'[m] = "announced", Truth(m))
                <5>1. PICK before \in BOOLEAN, after \in BOOLEAN :
                         before = (pc[m] = "announced") /\ after = (pc'[m] = "announced")
                    OBVIOUS
                <5>2. Ends(x.got, x.chan, x.lagged, FALSE, before, Truth(m))
                    BY <3>2, <4>1, <4>3, <5>1 DEF Watched
                <5>3. Ends(x.got, x.chan, x.lagged, FALSE, after, Truth(m))
                    BY <5>2, EndsAgain
                <5> QED
                    BY <4>1, <5>1, <5>3
            <4> QED
                BY <1>21, <4>2, <4>3 DEF Watched
        <3>3. Watching(x)'
            BY <2>1, <3>2 DEF Watching
        <3> QED
            BY <2>1, <2>2, <3>1, <3>3
    <2>3. CASE Offered(x, w, h, l, ev)
        <3>1. /\ x.open = TRUE /\ w.open = TRUE /\ x.heard = h.by /\ w.heard = h.by \cup {l}
              /\ w.pc = x.pc /\ w.id = x.id /\ w.entry = x.entry /\ x.entry = h.entry
              /\ w.got = x.got /\ w.left = x.left
            BY <2>3 DEF Offered, ViewerType
        <3>2. x.pc \in {"streaming", "leaving"} /\ x.heard # {} /\ \A m \in x.heard : Told(m)
            BY <2>1, <3>1 DEF Placed
        <3>3. Placed(v, w)'
            <4>1. \A m \in w.heard : Told(m)'
                <5>1. x.heard \subseteq Lives
                    BY DEF ViewerType
                <5> QED
                    BY <1>10, <3>1, <3>2, <5>1
            <4>2. [id |-> w.id, viewer |-> v] \in h.subs /\ w.entry <= h.entry
                BY <1>1, <2>1, <3>1, <3>2 DEF Placed
            <4> QED
                BY <1>6, <1>7, <3>1, <3>2, <4>1, <4>2 DEF Placed
        <3>4. CASE x.pc = "leaving"
            <4>1. x.chan = <<>> /\ x.left /\ x.got = <<>> /\ w.chan = x.chan
                BY <2>1, <2>3, <3>1, <3>4 DEF Watching, Offered
            <4>2. Watching(w)'
                BY <3>1, <3>4, <4>1 DEF Watching
            <4> QED
                BY <2>1, <3>3, <4>2
        <3>5. CASE x.pc = "streaming"
            <4>1. ~x.left /\ Watched(x)
                BY <2>1, <3>5 DEF Watching
            <4>2. \/ w.chan = Append(x.chan, ev) /\ w.lagged = x.lagged
                  \/ w.chan = x.chan /\ w.lagged = TRUE
                BY <2>3, <3>5 DEF Offered
            <4>3. PICK got \in Seq(Events), chan \in Seq(Events), lagged \in BOOLEAN, seq \in Nat :
                     got = x.got /\ chan = x.chan /\ lagged = x.lagged /\ seq = h.seq
                BY <1>11 DEF ViewerType
            <4>4. Order(w.got, w.chan, w.lagged, w.open, n)
                <5>1. Order(got, chan, lagged, TRUE, seq)
                    BY <1>1, <3>1, <4>1, <4>3 DEF Watched
                <5>2. ev.seq = seq + 1 /\ n = seq + 1
                    BY <1>2, <4>3
                <5>3. /\ Order(got, Append(chan, ev), lagged, TRUE, seq + 1)
                      /\ Order(got, chan, TRUE, TRUE, seq + 1)
                    BY <5>1, <5>2, OrderGrows
                <5> QED
                    BY <3>1, <4>2, <4>3, <5>2, <5>3
            <4>5. ASSUME NEW m \in Lives, w.heard = {m}
                  PROVE  Ends(w.got, w.chan, w.lagged, w.open, pc'[m] = "announced", Truth(m))
                <5>1. m = l /\ x.heard = {l} /\ h.by = {l}
                    BY <3>1, <3>2, <4>5
                <5>2. pc[l] # "announced"
                    BY <1>10
                <5>3. PICK told : told = Truth(l)
                    OBVIOUS
                <5>4. Ends(got, chan, lagged, TRUE, FALSE, told)
                    <6>1. PICK before \in BOOLEAN : before = (pc[l] = "announced") /\ before = FALSE
                        BY <5>2
                    <6>2. Ends(got, chan, lagged, TRUE, before, told)
                        BY <3>1, <4>1, <4>3, <5>1, <5>3, <6>1 DEF Watched
                    <6> QED
                        BY <6>1, <6>2
                <5>5. ev.status \in Terminal => ev.status \in told
                    <6>1. Fits(l)
                        BY DEF Inv, Agree
                    <6>2. ev.status \in Terminal => pc[l] = "finished" /\ ev.status = outcome[l]
                        BY <1>2 DEF Terminal
                    <6>3. pc[l] = "finished" => outcome[l] \in Truth(l)
                        BY <6>1 DEF Fits, Truth, Terminal
                    <6> QED
                        BY <5>3, <6>2, <6>3
                <5>6. /\ Ends(got, Append(chan, ev), lagged, TRUE, over, told)
                      /\ Ends(got, chan, TRUE, TRUE, over, told)
                    BY <1>9, <5>4, <5>5, EndsGrow
                <5>7. over = (pc'[m] = "announced")
                    BY <1>9, <1>10, <5>1
                <5> QED
                    BY <3>1, <4>2, <4>3, <5>1, <5>3, <5>6, <5>7
            <4>6. Watched(w)'
                BY <1>6, <1>7, <1>21, <4>4, <4>5 DEF Watched
            <4>7. Watching(w)'
                BY <3>1, <3>5, <4>1, <4>6 DEF Watching
            <4> QED
                BY <2>1, <3>3, <4>7
        <3> QED
            BY <3>2, <3>4, <3>5
    <2> QED
        BY <2>1, <2>2, <2>3
<1> QED
    BY <1>15, <1>16, <1>19, <1>20, <1>22 DEF Inv

\* Close forgets the entry and closes every channel; what one run told has told the end.
LEMMA CloseStep ==
    ASSUME Inv, NEW l \in Lives, Close(l)
    PROVE  Inv'
<1>1. PICK h \in HubType : h = hub /\ Len(h.tail) <= TailMax
    BY DEF Inv, Typed
<1>2. PICK none \in Seq(Events) : none = <<>> /\ Len(none) <= TailMax
    <2>1. <<>> \in Seq(Events) /\ Len(<<>>) = 0
        BY EmptySeq
    <2>2. 0 <= TailMax
        BY SizesAssumption
    <2> QED
        BY <2>1, <2>2
<1>3. PICK k \in HubType :
          /\ hub' = k /\ k.live = FALSE /\ k.tail = none /\ k.subs = {} /\ k.by = {}
          /\ k = NoEntry(k.entry) /\ h.entry <= k.entry
          /\ h.live => k.entry # h.entry
          /\ ~h.live => k = h
    <2>1. CASE h.live
        <3>1. h.entry \in Nat /\ h.entry + 1 \in Nat /\ h.entry <= h.entry + 1 /\ h.entry + 1 # h.entry
            BY DEF HubType
        <3>2. PICK e \in Nat : e = h.entry + 1
            BY <3>1
        <3>3. PICK k \in HubType : /\ k = NoEntry(e) /\ k.live = FALSE /\ k.tail = none
                                   /\ k.subs = {} /\ k.by = {} /\ k.entry = e
            <4>1. NoEntry(e) \in HubType
                BY <1>2 DEF NoEntry, HubType
            <4>2. /\ NoEntry(e).live = FALSE /\ NoEntry(e).tail = none
                  /\ NoEntry(e).subs = {} /\ NoEntry(e).by = {} /\ NoEntry(e).entry = e
                BY <1>2 DEF NoEntry
            <4> QED
                BY <4>1, <4>2
        <3>4. hub' = k
            BY <1>1, <2>1, <3>2, <3>3 DEF Close
        <3> QED
            BY <2>1, <3>1, <3>2, <3>3, <3>4
    <2>2. CASE ~h.live
        <3>1. hub' = h
            BY <1>1, <2>2 DEF Close
        <3>2. h = NoEntry(h.entry)
            BY <1>1, <2>2 DEF Inv, Agree, Kept
        <3>3. h.live = FALSE /\ h.tail = none /\ h.subs = {} /\ h.by = {}
            BY <1>2, <3>2 DEF NoEntry
        <3>4. h.entry <= h.entry
            BY DEF HubType
        <3> QED
            BY <2>2, <3>1, <3>2, <3>3, <3>4
    <2> QED
        BY <2>1, <2>2
<1>4. /\ pc[l] = "announced" /\ pc' = [pc EXCEPT ![l] = "idle"]
      /\ outcome' = [outcome EXCEPT ![l] = "none"]
      /\ UNCHANGED <<row, reports, lives, alive>>
      /\ viewer' = [v \in Viewers |-> IF \E s \in h.subs : s.viewer = v
                                      THEN [viewer[v] EXCEPT !.open = FALSE, !.heard = @ \cup {l}]
                                      ELSE viewer[v]]
    BY <1>1 DEF Close, Closed
<1>5. /\ pc \in [Lives -> {"idle", "claimed", "working", "finished", "announced"}]
      /\ outcome \in [Lives -> {"none"} \cup Terminal]
      /\ lives \in Nat /\ l \in Nat /\ \A m \in Lives : Fits(m)
    BY DEF Inv, Typed, Agree, Lives
<1>6. \A m \in Lives : /\ pc'[m] = IF m = l THEN "idle" ELSE pc[m]
                       /\ outcome'[m] = IF m = l THEN "none" ELSE outcome[m]
    BY <1>4, <1>5
<1>7. ASSUME NEW v \in Viewers
      PROVE  \E x \in ViewerType, w \in ViewerType :
                /\ x = viewer[v] /\ Placed(v, x) /\ Watching(x) /\ Len(x.chan) <= SubBuf
                /\ w = viewer'[v] /\ w.chan = x.chan /\ w.lagged = x.lagged
                /\ w.pc = x.pc /\ w.id = x.id /\ w.entry = x.entry
                /\ w.got = x.got /\ w.left = x.left /\ w.open = FALSE
                /\ \/ x.open = TRUE /\ w.heard = x.heard \cup {l} /\ x.pc \in {"streaming", "leaving"}
                      /\ h.live
                   \/ x.open = FALSE /\ w.heard = x.heard
    <2>1. PICK x \in ViewerType : x = viewer[v] /\ Placed(v, x) /\ Watching(x) /\ Len(x.chan) <= SubBuf
        BY DEF Inv, Typed
    <2>2. CASE \E s \in h.subs : s.viewer = v
        <3>1. PICK both \in SUBSET Lives : both = x.heard \cup {l}
            BY DEF ViewerType
        <3>2. PICK w \in ViewerType : w = [x EXCEPT !.open = FALSE, !.heard = both]
            BY DEF ViewerType
        <3>3. viewer'[v] = w
            BY <1>4, <2>1, <2>2, <3>1, <3>2
        <3>4. /\ w.chan = x.chan /\ w.lagged = x.lagged
              /\ w.pc = x.pc /\ w.id = x.id /\ w.entry = x.entry
              /\ w.got = x.got /\ w.left = x.left /\ w.open = FALSE /\ w.heard = both
            BY <3>2 DEF ViewerType
        <3>5. x.open = TRUE /\ x.pc \in {"streaming", "leaving"}
            BY <1>1, <2>1, <2>2 DEF Inv, Subscribed, Streamed, ViewerType
        <3>6. h.live
            BY <1>1, <2>2 DEF Inv, Agree, Kept, NoEntry
        <3> QED
            BY <2>1, <3>1, <3>3, <3>4, <3>5, <3>6
    <2>3. CASE ~\E s \in h.subs : s.viewer = v
        <3>1. viewer'[v] = x
            BY <1>4, <2>1, <2>3
        <3>2. x.open = FALSE
            <4>1. x.open => [id |-> x.id, viewer |-> v] \in h.subs
                BY <1>1, <2>1 DEF Placed
            <4>2. x.open \in BOOLEAN
                BY DEF ViewerType
            <4> QED
                BY <2>3, <4>1, <4>2
        <3> QED
            BY <2>1, <3>1, <3>2
    <2> QED
        BY <2>2, <2>3
<1>8. viewer' \in [Viewers -> ViewerType] /\ \A v \in Viewers : Len(viewer'[v].chan) <= SubBuf
    <2>1. \A v \in Viewers : viewer'[v] \in ViewerType /\ Len(viewer'[v].chan) <= SubBuf
        BY <1>7
    <2> QED
        BY <1>4, <2>1
<1>9. Typed'
    <2>1. /\ pc' \in [Lives -> {"idle", "claimed", "working", "finished", "announced"}]
          /\ outcome' \in [Lives -> {"none"} \cup Terminal]
        BY <1>4, <1>5
    <2> QED
        BY <1>2, <1>3, <1>4, <1>8, <2>1 DEF Inv, Typed
<1>10. Agree'
    <2>1. ASSUME NEW m \in Lives
          PROVE  Fits(m)'
        <3>1. CASE m = l
            BY <1>4, <1>5, <1>6, <3>1 DEF Fits
        <3>2. CASE m # l
            BY <1>4, <1>5, <1>6, <3>2 DEF Fits
        <3> QED
            BY <3>1, <3>2
    <2>2. Kept'
        BY <1>3 DEF Kept
    <2>3. (lives = 0 => row = "none")'
        BY <1>4 DEF Inv, Agree
    <2> QED
        BY <2>1, <2>2, <2>3 DEF Agree
<1>11. Ring' /\ Subscribed'
    BY <1>3 DEF Ring, Subscribed
<1>12. \A m : Truth(m)' = Truth(m)
    BY <1>4 DEF Truth
<1>13. ASSUME NEW v \in Viewers
       PROVE  (Placed(v, viewer[v]) /\ Watching(viewer[v]))'
    <2>1. PICK x \in ViewerType, w \in ViewerType :
              /\ x = viewer[v] /\ Placed(v, x) /\ Watching(x)
              /\ w = viewer'[v] /\ w.chan = x.chan /\ w.lagged = x.lagged
              /\ w.pc = x.pc /\ w.id = x.id /\ w.entry = x.entry
              /\ w.got = x.got /\ w.left = x.left /\ w.open = FALSE
              /\ \/ x.open = TRUE /\ w.heard = x.heard \cup {l} /\ x.pc \in {"streaming", "leaving"}
                    /\ h.live
                 \/ x.open = FALSE /\ w.heard = x.heard
        BY <1>7
    <2>2. x.heard \subseteq Lives /\ w.heard \subseteq Lives
        BY DEF ViewerType
    <2>3. ASSUME x.pc \in {"streaming", "leaving"}
          PROVE  /\ w.heard # {} /\ \A m \in w.heard : Told(m)'
                 /\ w.entry <= k.entry /\ w.entry # k.entry
                 /\ \A m \in Lives : w.heard = {m} => pc'[m] \notin AtWork
        <3>1. /\ x.heard # {} /\ (\A m \in x.heard : Told(m))
              /\ x.entry <= h.entry /\ (x.open <=> x.entry = h.entry)
              /\ \A m \in Lives : x.heard = {m} /\ pc[m] \in AtWork => x.open
            BY <1>1, <2>1, <2>3 DEF Placed
        <3>2. Told(l)'
            <4>1. Fits(l) /\ pc[l] # "idle" /\ pc'[l] = "idle"
                BY <1>4, <1>5, <1>6
            <4>2. l <= lives
                BY <1>5, <4>1 DEF Fits
            <4>3. l = lives => row # "queued"
                BY <4>1 DEF Fits
            <4> QED
                BY <1>4, <4>1, <4>2, <4>3 DEF Told
        <3>3. ASSUME NEW m \in Lives, Told(m)
              PROVE  Told(m)'
            <4>1. pc'[m] = "idle" \/ pc'[m] = pc[m]
                BY <1>6
            <4> QED
                BY <1>4, <3>3, <4>1 DEF Told
        <3>4. w.heard # {} /\ \A m \in w.heard : Told(m)'
            BY <2>1, <2>2, <3>1, <3>2, <3>3
        <3>5. w.entry <= k.entry /\ w.entry # k.entry
            <4>1. x.entry \in Nat /\ h.entry \in Nat /\ k.entry \in Nat
                BY DEF ViewerType, HubType
            <4>2. CASE x.open = TRUE
                <5>1. x.entry = h.entry /\ k.entry # h.entry
                    BY <1>3, <2>1, <3>1, <4>2
                <5> QED
                    BY <1>3, <2>1, <4>1, <5>1
            <4>3. CASE x.open = FALSE
                <5>1. x.entry # h.entry
                    BY <3>1, <4>3
                <5>2. x.entry < h.entry
                    BY <3>1, <4>1, <5>1
                <5> QED
                    BY <1>3, <2>1, <4>1, <5>2
            <4> QED
                BY <2>1, <4>2, <4>3
        <3>6. ASSUME NEW m \in Lives, w.heard = {m}
              PROVE  pc'[m] \notin AtWork
            <4>1. CASE x.open = TRUE
                <5>1. m = l
                    BY <2>1, <3>6, <4>1
                <5> QED
                    BY <1>6, <5>1 DEF AtWork
            <4>2. CASE x.open = FALSE
                <5>1. pc[m] \notin AtWork
                    BY <2>1, <3>1, <3>6, <4>2
                <5> QED
                    BY <1>6, <5>1 DEF AtWork
            <4> QED
                BY <2>1, <4>1, <4>2
        <3> QED
            BY <3>4, <3>5, <3>6
    <2>4. Placed(v, w)'
        <3>1. ASSUME x.pc \notin {"streaming", "leaving"}
              PROVE  /\ w.heard = {} /\ ~w.lagged /\ ~w.left
                     /\ w.pc # "replayed" => w.got = <<>>
            BY <2>1, <3>1 DEF Placed
        <3> QED
            BY <1>3, <2>1, <2>3, <3>1 DEF Placed
    <2>5. ASSUME x.pc \in {"streaming", "leaving"}, Watched(x)
          PROVE  Watched(w)'
        <3>1. Order(w.got, w.chan, w.lagged, w.open, hub'.seq)
            <4>1. Order(x.got, x.chan, x.lagged, FALSE, hub'.seq)
                BY <2>5 DEF Watched, Order
            <4> QED
                BY <2>1, <4>1
        <3>2. ASSUME NEW m \in Lives, w.heard = {m}
              PROVE  Ends(w.got, w.chan, w.lagged, w.open, pc'[m] = "announced", Truth(m))
            <4>1. PICK before \in BOOLEAN, after \in BOOLEAN :
                     before = (pc[m] = "announced") /\ after = (pc'[m] = "announced")
                OBVIOUS
            <4>2. PICK open \in BOOLEAN : open = x.open
                BY DEF ViewerType
            <4>3. x.heard = {m} /\ (open => before)
                <5>1. x.heard # {}
                    BY <2>1, <2>5 DEF Placed
                <5>2. CASE x.open = TRUE
                    <6>1. m = l /\ x.heard = {m}
                        BY <2>1, <3>2, <5>1, <5>2
                    <6> QED
                        BY <1>4, <4>1, <6>1
                <5>3. CASE x.open = FALSE
                    BY <2>1, <3>2, <4>2, <5>3
                <5> QED
                    BY <2>1, <5>2, <5>3
            <4>4. Ends(x.got, x.chan, x.lagged, x.open, pc[m] = "announced", Truth(m))
                BY <2>5, <4>3 DEF Watched
            <4>5. PICK told : told = Truth(m)
                OBVIOUS
            <4>6. Ends(x.got, x.chan, x.lagged, open, before, told)
                BY <4>1, <4>2, <4>4, <4>5
            <4>7. Ends(x.got, x.chan, x.lagged, FALSE, after, told)
                <5>1. FALSE \in BOOLEAN /\ told \subseteq told
                    OBVIOUS
                <5>2. FALSE => open /\ after = before
                    OBVIOUS
                <5>3. open /\ ~FALSE => before
                    BY <4>3
                <5> QED
                    BY <4>6, <5>1, <5>2, <5>3, EndsAgain
            <4> QED
                BY <2>1, <4>1, <4>5, <4>7
        <3> QED
            BY <1>12, <3>1, <3>2 DEF Watched
    <2>6. Watching(w)'
        BY <2>1, <2>5 DEF Watching
    <2> QED
        BY <2>1, <2>4, <2>6
<1> QED
    BY <1>9, <1>10, <1>11, <1>13 DEF Inv

\* The invariant is inductive.
LEMMA InvStep ==
    ASSUME Inv, [Next]_vars
    PROVE  Inv'
<1>1. ASSUME NEW l \in Lives, Report(l)
      PROVE  Inv'
    <2>1. Publish(l, "none") /\ UNCHANGED <<row, outcome, lives, alive>>
        BY <1>1 DEF Report
    <2>2. reports' \in 0 .. MaxReports
        BY <1>1, SizesAssumption DEF Report, Inv, Typed
    <2>3. pc[l] \in {"claimed", "working"} /\ pc' = [pc EXCEPT ![l] = "working"] /\ "working" \in AtWork
        BY <1>1 DEF Report, AtWork
    <2> QED
        BY <2>1, <2>2, <2>3, PublishStep
<1>2. ASSUME NEW l \in Lives, PublishStatus(l)
      PROVE  Inv'
    <2>1. PICK status \in {"none"} \cup Terminal : status = outcome[l]
        BY DEF Inv, Typed
    <2>2. Publish(l, status) /\ UNCHANGED <<row, outcome, lives, alive>>
        BY <1>2, <2>1 DEF PublishStatus
    <2>3. reports' \in 0 .. MaxReports
        BY <1>2 DEF PublishStatus, Inv, Typed
    <2>4. pc[l] = "finished" /\ pc' = [pc EXCEPT ![l] = "announced"] /\ "announced" \in AtWork
        BY <1>2 DEF PublishStatus, AtWork
    <2> QED
        BY <2>1, <2>2, <2>3, <2>4, PublishStep
<1>3. CASE Enqueue \/ DeleteRow \/ UNCHANGED vars
    BY <1>3, RowSteps
<1>4. ASSUME NEW l \in Lives, Executor(l)
      PROVE  Inv'
    <2>1. CASE Close(l)
        BY <2>1, CloseStep
    <2>2. CASE Claim(l) \/ LoadTaskFails(l) \/ FinishLost(l) \/ \E status \in Terminal : Finish(l, status)
        BY <2>2, RowSteps
    <2> QED
        BY <1>1, <1>2, <1>4, <2>1, <2>2 DEF Executor
<1>5. ASSUME NEW v \in Viewers,
             LoadRun(v) \/ Handler(v) \/ Heartbeat(v) \/ Disconnect(v) \/ Revoke(v)
      PROVE  Inv'
    <2>1. CASE Subscribe(v)
        BY <2>1, SubscribeStep
    <2>2. CASE Cancel(v)
        BY <2>2, CancelStep
    <2>3. CASE Revoke(v)
        BY <2>3, RowSteps
    <2>4. CASE \/ LoadRun(v) \/ NotLive(v) \/ ReplayFresh(v) \/ Receive(v) \/ StreamEnds(v)
               \/ ReplayEnds(v) \/ Heartbeat(v) \/ Disconnect(v)
        BY <2>4, RequestSteps
    <2> QED
        BY <1>5, <2>1, <2>2, <2>3, <2>4 DEF Handler
<1> QED
    BY <1>3, <1>4, <1>5 DEF Next

\* The invariant holds in every reachable state.
LEMMA InvAlways == Spec => []Inv
<1>1. Inv /\ [Next]_vars => Inv'
    BY InvStep
<1> QED
    BY <1>1, InitInv, PTL DEF Spec

--------------------------------------------------------------------------------
(***************************************************************************)
(* What follows from it.                                                   *)
(***************************************************************************)

\* Row, executors, hub and requests stay well typed, the ring and the channels within
\* their capacities.
THEOREM ProgressTypes == Spec => []TypeOK
<1>1. Inv => TypeOK
    BY DEF Inv, Typed, TypeOK, HubType, ViewerType
<1> QED
    BY <1>1, InvAlways, PTL

\* A viewer sees the events of one entry in order, without a gap unless it was too slow,
\* and nothing after a terminal status if it hears of one run only, whichever late
\* executor of a deleted run is still at work under the same id.
THEOREM StreamsAreInOrder == Spec => []StreamInOrder
<1>1. Inv => StreamInOrder
    <2> SUFFICES ASSUME Inv, NEW v \in Viewers, Streamed(v)
                 PROVE  /\ \A i \in 1 .. Len(viewer[v].got) - 1 :
                             /\ viewer[v].got[i].seq < viewer[v].got[i + 1].seq
                             /\ ~viewer[v].lagged => viewer[v].got[i + 1].seq = viewer[v].got[i].seq + 1
                        /\ OneRun(v) => \A i \in Statuses(v) : i = Len(viewer[v].got)
        BY DEF StreamInOrder
    <2>1. PICK x \in ViewerType : x = viewer[v] /\ Watching(x)
        BY DEF Inv, Typed
    <2>2. PICK g \in Seq(Events) : g = x.got
        BY DEF ViewerType
    <2>3. PICK n \in Nat : n = Len(g)
        BY LenProperties
    <2>4. CASE g = <<>>
        BY <2>1, <2>2, <2>4, EmptySeq DEF Statuses
    <2>5. CASE g # <<>>
        <3>1. Watched(x)
            BY <2>1, <2>2, <2>5 DEF Streamed, Watching
        <3>2. Rising(g) /\ (~x.lagged => \E m \in Nat : UpTo(g, m))
            BY <2>2, <3>1 DEF Watched, Order
        <3>3. \A i \in 1 .. n - 1 : g[i].seq < g[i + 1].seq
            BY <2>3, <3>2 DEF Rising
        <3>4. ASSUME ~x.lagged, NEW i \in 1 .. n - 1
              PROVE  g[i + 1].seq = g[i].seq + 1
            <4>1. PICK m \in Nat : UpTo(g, m)
                BY <3>2, <3>4
            <4>2. g[i] \in Events /\ g[i + 1] \in Events
                BY <2>3, ElementOfSeq
            <4>3. g[i].seq \in Nat /\ g[i + 1].seq \in Nat
                BY <4>2 DEF Events
            <4>4. g[i].seq + n = m + i /\ g[i + 1].seq + n = m + (i + 1)
                BY <2>3, <4>1 DEF UpTo
            <4> QED
                BY <4>3, <4>4
        <3>5. ASSUME OneRun(v), NEW i \in Statuses(v)
              PROVE  i = n
            <4>1. PICK l \in Lives : x.heard = {l}
                BY <2>1, <3>5 DEF OneRun
            <4>2. EndsOnce(g)
                BY <2>2, <3>1, <4>1 DEF Watched, Ends
            <4> QED
                BY <2>1, <2>2, <2>3, <3>5, <4>2 DEF Statuses, EndsOnce
        <3> QED
            BY <2>1, <2>2, <2>3, <3>3, <3>4, <3>5
    <2> QED
        BY <2>4, <2>5
<1> QED
    BY <1>1, InvAlways, PTL

\* A stream that heard of one run only and was not cut ends with how the run ended, as
\* its row has it.
THEOREM OutcomesAreTold == Spec => []OutcomeIsTold
<1>1. Inv => OutcomeIsTold
    <2> SUFFICES ASSUME Inv, NEW v \in Viewers, OneRun(v)
                 PROVE  ~EndsUntold(v) /\ ToldIsRecorded(v)
        BY DEF OutcomeIsTold
    <2>1. PICK x \in ViewerType : x = viewer[v] /\ Placed(v, x) /\ Watching(x)
        BY DEF Inv, Typed
    <2>2. PICK l \in Lives : x.heard = {l}
        BY <2>1 DEF OneRun
    <2>3. x.pc \in {"streaming", "leaving"}
        <3>1. x.heard # {}
            BY <2>2
        <3> QED
            BY <2>1, <3>1 DEF Placed
    <2>4. ~EndsUntold(v)
        <3> SUFFICES ASSUME x.pc = "leaving", ~x.left, ~x.lagged
                     PROVE  Len(x.got) \in Statuses(v)
            BY <2>1 DEF EndsUntold
        <3>1. PICK none \in Seq(Events), g \in Seq(Events) : none = x.chan /\ Len(none) = 0 /\ g = x.got
            BY <2>1, EmptySeq DEF Watching, ViewerType
        <3>2. Watched(x) /\ ~x.open
            BY <2>1 DEF Watching
        <3>3. EndsOnce(g) /\ (Ended(g) \/ Ended(none))
            BY <2>2, <3>1, <3>2 DEF Watched, Ends
        <3>4. PICK i \in 1 .. Len(g) : g[i].status \in Terminal
            BY <3>1, <3>3 DEF Ended
        <3>5. i = Len(g)
            BY <3>3, <3>4 DEF EndsOnce
        <3> QED
            BY <2>1, <3>1, <3>4, <3>5 DEF Statuses
    <2>5. ToldIsRecorded(v)
        <3> SUFFICES ASSUME x.heard = {lives}, NEW i \in Statuses(v)
                     PROVE  /\ x.got[i].status = "success" => row \in {"success", "none"}
                            /\ x.got[i].status = "failed" => row # "success"
            BY <2>1 DEF ToldIsRecorded
        <3>1. l = lives
            BY <2>2
        <3>2. x.got # <<>>
            BY <2>1, EmptySeq DEF Statuses
        <3>3. Watched(x)
            BY <2>1, <2>3, <3>2 DEF Watching
        <3>4. Says(x.got, Truth(l))
            BY <2>2, <3>3 DEF Watched, Ends
        <3>5. x.got[i].status \in Truth(l)
            BY <2>1, <3>4 DEF Says, Statuses
        <3> QED
            BY <3>1, <3>5 DEF Truth
    <2> QED
        BY <2>4, <2>5
<1> QED
    BY <1>1, InvAlways, PTL

\* The hub has an entry only while an executor that published into it is at work, and
\* never sends on, or closes again, a channel that is closed.
THEOREM HubRemembersOnlyTheLive == Spec => []HubForgets
<1>1. Inv => HubForgets
    BY DEF Inv, Agree, Kept, AtWork, Subscribed, HubForgets
<1> QED
    BY <1>1, InvAlways, PTL
================================================================================
