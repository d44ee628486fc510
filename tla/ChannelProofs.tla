--------------------------- MODULE ChannelProofs ---------------------------
(***************************************************************************)
(* The theorems about Channel.tla, for everything that may be sent.        *)
(***************************************************************************)
EXTENDS Channel, Numbers, SequenceTheorems, TLAPS

-----------------------------------------------------------------------------
(* Texts that begin alike. *)

LEMMA PrefixIs ==
    ASSUME NEW S, NEW s \in Seq(S), NEW t \in Seq(S)
    PROVE  IsPrefix(s, t) <=> Len(s) <= Len(t) /\ \A i \in 1 .. Len(s) : s[i] = t[i]
<1> DEFINE u == SubSeq(s, 1, Len(s))
           v == SubSeq(t, 1, Len(s))
<1>1. Len(s) \in Nat /\ Len(t) \in Nat
  OBVIOUS
<1>2. /\ u \in Seq(S) /\ Len(u) = Len(s)
      /\ \A i \in 1 .. Len(s) : u[i] = s[i]
  BY <1>1, SubSeqProperties
<1>3. Len(s) <= Len(t) => /\ v \in Seq(S) /\ Len(v) = Len(s)
                          /\ \A i \in 1 .. Len(s) : v[i] = t[i]
  BY <1>1, SubSeqProperties
<1>4. IsPrefix(s, t) <=> Len(s) <= Len(t) /\ u = v
  BY DEF IsPrefix
<1> HIDE DEF u, v
<1>5. Len(s) <= Len(t) => (u = v <=> \A i \in 1 .. Len(s) : u[i] = v[i])
  BY <1>1, <1>2, <1>3, SeqEqual
<1> QED BY <1>2, <1>3, <1>4, <1>5

LEMMA BytesPrefixIs ==
    \A s, t \in Seq(Bytes) :
        IsPrefix(s, t) <=> Len(s) <= Len(t) /\ \A i \in 1 .. Len(s) : s[i] = t[i]
BY PrefixIs

\* What has been sent with every one of the calls.
Sends(calls) ==
    {f \in [1 .. Len(calls) -> Seq(Bytes)] :
        \A i \in 1 .. Len(calls) : f[i] = IF i = 1 THEN calls[i] ELSE f[i - 1] \o calls[i]}

LEMMA WholeIs ==
    ASSUME NEW calls \in Seq(Seq(Bytes)), calls # <<>>
    PROVE  \E f \in Sends(calls) : FlattenSeq(calls) = f[Len(calls)]
<1> DEFINE n == Len(calls)
           E(f, i) == IF i = 1 THEN calls[i] ELSE f[i - 1] \o calls[i]
           Partly(k) == \E f \in [1 .. n -> Seq(Bytes)] : \A i \in 1 .. k : f[i] = E(f, i)
           bad == {k \in Nat : k <= n /\ ~Partly(k)}
<1>1. n \in Nat \ {0} /\ \A i \in 1 .. n : calls[i] \in Seq(Bytes)
  OBVIOUS
<1>2. Partly(0)
  <2> DEFINE f == [i \in 1 .. n |-> <<>>]
  <2>1. f \in [1 .. n -> Seq(Bytes)]
    OBVIOUS
  <2>2. \A i \in 1 .. 0 : f[i] = E(f, i)
    OBVIOUS
  <2> HIDE DEF f, E
  <2> QED BY <2>1, <2>2
<1>3. ASSUME NEW k \in Nat, k < n, Partly(k) PROVE Partly(k + 1)
  <2>1. PICK f \in [1 .. n -> Seq(Bytes)] : \A i \in 1 .. k : f[i] = E(f, i)
    BY <1>3
  <2> DEFINE m == k + 1
             g == [f EXCEPT ![m] = E(f, m)]
  <2>2. m \in 1 .. n /\ (m # 1 => m - 1 \in 1 .. n)
    BY <1>1, <1>3
  <2>3. E(f, m) \in Seq(Bytes)
    <3>1. calls[m] \in Seq(Bytes) /\ (m # 1 => f[m - 1] \in Seq(Bytes))
      BY <1>1, <2>2
    <3> HIDE DEF m
    <3> QED BY <3>1, ConcatProperties
  <2>4. g \in [1 .. n -> Seq(Bytes)] /\ g[m] = E(f, m) /\ \A i \in 1 .. n : i # m => g[i] = f[i]
    <3> HIDE DEF E, m
    <3> QED BY <2>2, <2>3
  <2>5. \A i \in 1 .. m : E(g, i) = E(f, i)
    <3>1. \A i \in 1 .. m : i # 1 => i - 1 \in 1 .. n /\ i - 1 # m
      BY <1>1, <2>2
    <3> HIDE DEF g, m
    <3>2. \A i \in 1 .. m : i # 1 => g[i - 1] = f[i - 1]
      BY <2>4, <3>1
    <3> QED BY <3>2, Zenon
  <2>6. \A i \in 1 .. k + 1 : g[i] = E(g, i)
    <3>1. \A i \in 1 .. k + 1 : i \in 1 .. m /\ (i = m \/ (i \in 1 .. k /\ i # m /\ i \in 1 .. n))
      BY <1>1, <1>3
    <3> HIDE DEF g, E, m
    <3> QED BY <2>1, <2>4, <2>5, <3>1
  <2> HIDE DEF g, E
  <2> QED BY <2>4, <2>6
<1>4. Partly(n)
  <2> SUFFICES ASSUME bad # {} PROVE FALSE
    <3>1. n \in Nat /\ n <= n
      BY <1>1
    <3> HIDE DEF Partly, n
    <3> QED BY <3>1
  <2> HIDE DEF Partly, n
  <2>1. PICK k \in bad : \A j \in bad : k <= j
    <3> HIDE DEF bad
    <3>1. bad \subseteq Nat
      BY DEF bad
    <3> QED BY <3>1, Least
  <2>2. k \in Nat /\ k # 0 /\ k <= n /\ ~Partly(k)
    BY <1>2
  <2>3. k - 1 \in Nat /\ k - 1 < n /\ Partly(k - 1)
    BY <1>1, <2>1, <2>2
  <2>4. Partly((k - 1) + 1)
    BY <1>3, <2>3
  <2>5. (k - 1) + 1 = k
    BY <2>2
  <2> QED BY <2>2, <2>4, <2>5
<1>5. PICK f \in [1 .. n -> Seq(Bytes)] : \A i \in 1 .. n : f[i] = E(f, i)
  BY <1>4
<1> HIDE DEF E
<1>6. f = [i \in 1 .. n |-> E(f, i)]
  BY <1>5
<1> DEFINE F == CHOOSE g : g = [i \in 1 .. n |-> E(g, i)]
<1>7. F = [i \in 1 .. n |-> E(F, i)]
  BY <1>6
<1> HIDE DEF F
<1>8. \A i \in 1 .. n : F[i] = E(F, i)
  BY <1>7
<1>9. \A i \in 1 .. n : F[i] = f[i]
  <2> DEFINE differ == {i \in 1 .. n : F[i] # f[i]}
  <2> SUFFICES ASSUME differ # {} PROVE FALSE
    OBVIOUS
  <2>1. PICK i \in differ : \A j \in differ : i <= j
    <3>1. differ \subseteq Nat
      BY <1>1
    <3> HIDE DEF differ
    <3> QED BY <3>1, Least
  <2>2. i \in 1 .. n /\ (i # 1 => i - 1 \in 1 .. n /\ F[i - 1] = f[i - 1])
    <3>1. i \in 1 .. n /\ (i # 1 => i - 1 \in 1 .. n /\ ~(i <= i - 1))
      BY <1>1
    <3>2. \A j \in 1 .. n : F[j] # f[j] => i <= j
      BY <2>1
    <3> QED BY <3>1, <3>2
  <2>3. E(F, i) = E(f, i)
    <3> HIDE DEF F
    <3> QED BY <2>2, Zenon DEF E
  <2> QED BY <1>5, <1>8, <2>1, <2>2, <2>3
<1>10. FlattenSeq(calls) = f[n]
  <2>1. Len(calls) # 0 /\ n \in 1 .. n
    BY <1>1
  <2>2. FlattenSeq(calls) = F[n]
    BY <2>1 DEF FlattenSeq, F, E
  <2> QED BY <1>9, <2>1, <2>2
<1> QED BY <1>5, <1>10 DEF E, Sends

\* What has been sent with a call is the beginning of what is sent with the next.
LEMMA SendsGrow ==
    ASSUME NEW calls \in Seq(Seq(Bytes)), NEW f \in Sends(calls)
    PROVE  \A i \in 2 .. Len(calls) :
              /\ Len(f[i]) = Len(f[i - 1]) + Len(calls[i])
              /\ \A j \in 1 .. Len(f[i - 1]) : f[i][j] = f[i - 1][j]
              /\ \A j \in 1 .. Len(calls[i]) : f[i][Len(f[i - 1]) + j] = calls[i][j]
<1> TAKE i \in 2 .. Len(calls)
<1>1. /\ i \in 1 .. Len(calls) /\ i - 1 \in 1 .. Len(calls) /\ i # 1
  OBVIOUS
<1>2. f[i] = f[i - 1] \o calls[i] /\ f[i - 1] \in Seq(Bytes) /\ calls[i] \in Seq(Bytes)
  <2>1. f[i] = f[i - 1] \o calls[i]
    BY <1>1, Zenon DEF Sends
  <2>2. f[i - 1] \in Seq(Bytes)
    BY <1>1, Zenon DEF Sends
  <2>3. calls[i] \in Seq(Bytes)
    BY <1>1
  <2> QED BY <2>1, <2>2, <2>3
<1> DEFINE a == f[i - 1]
           b == calls[i]
<1>3. a \in Seq(Bytes) /\ b \in Seq(Bytes) /\ f[i] = a \o b
  BY <1>2
<1> HIDE DEF a, b
<1>4. /\ Len(a \o b) = Len(a) + Len(b)
      /\ \A j \in 1 .. Len(a) + Len(b) :
            (a \o b)[j] = IF j <= Len(a) THEN a[j] ELSE b[j - Len(a)]
  BY <1>3, ConcatProperties
<1>5. Len(a) \in Nat /\ Len(b) \in Nat
  BY <1>3
<1>6. /\ Len(f[i]) = Len(a) + Len(b)
      /\ \A j \in 1 .. Len(a) : f[i][j] = a[j]
      /\ \A j \in 1 .. Len(b) : f[i][Len(a) + j] = b[j]
  BY <1>3, <1>4, <1>5
<1> QED BY <1>6 DEF a, b

\* It is the beginning of the whole.
LEMMA SendsBegin ==
    ASSUME NEW calls \in Seq(Seq(Bytes)), calls # <<>>, NEW f \in Sends(calls)
    PROVE  \A i \in 1 .. Len(calls) : IsPrefix(f[i], f[Len(calls)])
<1>0. \A i \in 2 .. Len(calls) :
         /\ Len(f[i]) = Len(f[i - 1]) + Len(calls[i])
         /\ \A j \in 1 .. Len(f[i - 1]) : f[i][j] = f[i - 1][j]
         /\ \A j \in 1 .. Len(calls[i]) : f[i][Len(f[i - 1]) + j] = calls[i][j]
  BY SendsGrow
<1> DEFINE n == Len(calls)
           late == {k \in Nat : k < n /\ ~IsPrefix(f[n - k], f[n])}
<1>1. n \in Nat \ {0} /\ \A i \in 1 .. n : f[i] \in Seq(Bytes)
  <2>1. n \in Nat \ {0}
    OBVIOUS
  <2>2. \A i \in 1 .. n : f[i] \in Seq(Bytes)
    BY Zenon DEF Sends
  <2> QED BY <2>1, <2>2
<1>2. ASSUME late # {} PROVE FALSE
  <2>1. PICK k \in late : \A j \in late : k <= j
    <3>1. late \subseteq Nat
      OBVIOUS
    <3> HIDE DEF late
    <3> QED BY <1>2, <3>1, Least
  <2>2. k \in Nat /\ k < n /\ ~IsPrefix(f[n - k], f[n])
    OBVIOUS
  <2>3. k # 0
    <3>1. n \in 1 .. n
      BY <1>1
    <3>2. IsPrefix(f[n], f[n])
      <4>1. f[n] \in Seq(Bytes) /\ Len(f[n]) <= Len(f[n])
        BY <1>1, <3>1
      <4> QED BY <4>1, BytesPrefixIs
    <3> QED BY <1>1, <2>2, <3>2
  <2> DEFINE i == n - k + 1
  <2>4. i \in 2 .. n /\ n - k = i - 1 /\ n - (k - 1) = i
    BY <1>1, <2>2, <2>3
  <2>5. IsPrefix(f[i], f[n])
    <3>1. k - 1 \in Nat /\ k - 1 < n /\ ~(k <= k - 1)
      BY <1>1, <2>2, <2>3
    <3>2. k - 1 \notin late
      <4> HIDE DEF late
      <4> QED BY <2>1, <3>1
    <3> QED BY <2>4, <3>1, <3>2
  <2> HIDE DEF i, late
  <2>6. /\ Len(f[i]) = Len(f[i - 1]) + Len(calls[i])
        /\ \A j \in 1 .. Len(f[i - 1]) : f[i][j] = f[i - 1][j]
    <3>1. i \in 2 .. Len(calls)
      BY <2>4
    <3> QED BY <1>0, <3>1, Zenon
  <2>7. f[i] \in Seq(Bytes) /\ f[i - 1] \in Seq(Bytes) /\ f[n] \in Seq(Bytes)
    BY <1>1, <2>4
  <2>8. calls[i] \in Seq(Bytes)
    BY <2>4
  <2>9. Len(f[i]) <= Len(f[n]) /\ \A j \in 1 .. Len(f[i]) : f[i][j] = f[n][j]
    BY <2>5, <2>7, PrefixIs
  <2>10. Len(f[i - 1]) \in Nat /\ Len(f[i]) \in Nat /\ Len(f[n]) \in Nat /\ Len(calls[i]) \in Nat
    BY <2>7, <2>8
  <2>11. Len(f[i - 1]) <= Len(f[n]) /\ \A j \in 1 .. Len(f[i - 1]) : f[i - 1][j] = f[n][j]
    <3>1. Len(f[i - 1]) <= Len(f[i]) /\ Len(f[i - 1]) <= Len(f[n])
      <4> DEFINE x == Len(f[i - 1])
                 y == Len(f[i])
      <4>1. y = x + Len(calls[i]) /\ y <= Len(f[n])
        BY <2>6, <2>9
      <4>2. x \in Nat /\ y \in Nat /\ Len(f[n]) \in Nat /\ Len(calls[i]) \in Nat
        BY <2>10
      <4> HIDE DEF x, y
      <4>3. x <= y /\ x <= Len(f[n])
        BY <4>1, <4>2
      <4> QED BY <4>3 DEF x, y
    <3>2. \A j \in 1 .. Len(f[i - 1]) : j \in 1 .. Len(f[i])
      BY <2>10, <3>1
    <3> QED BY <2>6, <2>9, <3>1, <3>2, Zenon
  <2>12. IsPrefix(f[i - 1], f[n])
    BY <2>7, <2>11, PrefixIs
  <2> QED BY <2>2, <2>4, <2>12
<1> HIDE DEF late
<1>3. ASSUME NEW i \in 1 .. n PROVE IsPrefix(f[i], f[n])
  <2>1. n - i \in Nat /\ n - i < n /\ n - (n - i) = i
    BY <1>1
  <2> QED BY <1>2, <2>1 DEF late
<1> QED BY <1>3

-----------------------------------------------------------------------------
(* The bytes that have been accepted. *)

\* How much was sent before the call.
Before(f) == IF call = 1 THEN 0 ELSE Len(f[call - 1])

\* The wire holds the calls before this one and what was accepted of this one.
WireInv ==
    /\ source \in Sources
    /\ call \in 1 .. Len(source.calls)
    /\ onset \in 0 .. Len(source.calls[call])
    /\ wire \in Seq(Bytes)
    /\ \A f \in Sends(source.calls) :
          /\ Len(wire) = Before(f) + onset
          /\ IsPrefix(wire, f[call])
          /\ result = "done" => wire = f[Len(source.calls)]

\* What may be sent is a sequence of texts.
LEMMA CallsAre ==
    ASSUME NEW s \in Sources
    PROVE  /\ s.calls \in Seq(Seq(Bytes)) /\ s.calls # <<>>
           /\ Len(s.calls) \in Nat \ {0}
           /\ \A i \in 1 .. Len(s.calls) : s.calls[i] \in Seq(Bytes)
<1>1. s.calls \in Seq(Seq(Bytes)) /\ s.calls # <<>>
  BY SourcesAssumption
<1> QED BY <1>1

\* The text of one call is what was sent with it, less what was sent before.
LEMMA CallIs ==
    ASSUME WireInv, NEW f \in Sends(source.calls)
    PROVE  LET c == source.calls[call] IN
           /\ c \in Seq(Bytes) /\ f[call] \in Seq(Bytes)
           /\ Before(f) \in Nat
           /\ Len(f[call]) = Before(f) + Len(c)
           /\ \A j \in 1 .. Len(c) : f[call][Before(f) + j] = c[j]
<1> DEFINE calls == source.calls
           c == calls[call]
<1>1. calls \in Seq(Seq(Bytes)) /\ calls # <<>> /\ call \in 1 .. Len(calls)
  BY CallsAre DEF WireInv
<1>2. c \in Seq(Bytes)
  BY <1>1
<1>3. f \in [1 .. Len(calls) -> Seq(Bytes)] /\ f[call] \in Seq(Bytes)
  BY <1>1 DEF Sends
<1>4. CASE call = 1
  <2>1. f[call] = c /\ Before(f) = 0
    BY <1>1, <1>4 DEF Sends, Before
  <2>2. Len(c) \in Nat
    BY <1>2
  <2> QED BY <1>2, <1>3, <2>1, <2>2
<1>5. CASE call # 1
  <2>1. call \in 2 .. Len(calls) /\ call - 1 \in 1 .. Len(calls)
    BY <1>1, <1>5
  <2>2. Before(f) = Len(f[call - 1])
    BY <1>5 DEF Before
  <2>3. /\ Len(f[call]) = Len(f[call - 1]) + Len(c)
        /\ \A j \in 1 .. Len(c) : f[call][Len(f[call - 1]) + j] = c[j]
    BY <1>1, <2>1, SendsGrow
  <2>4. Len(f[call - 1]) \in Nat
    BY <1>3, <2>1
  <2> QED BY <1>2, <1>3, <2>2, <2>3, <2>4
<1> QED BY <1>4, <1>5

LEMMA WireInit == Init => WireInv
<1> SUFFICES ASSUME Init PROVE WireInv
  OBVIOUS
<1> DEFINE calls == source.calls
<1>1. source \in Sources /\ call = 1 /\ onset = 0 /\ wire = <<>> /\ result = "sending"
  BY DEF Init
<1>2. /\ calls \in Seq(Seq(Bytes)) /\ calls # <<>> /\ Len(calls) \in Nat \ {0}
      /\ \A i \in 1 .. Len(calls) : calls[i] \in Seq(Bytes)
  BY <1>1, CallsAre
<1>3. call \in 1 .. Len(calls) /\ onset \in 0 .. Len(calls[call]) /\ wire \in Seq(Bytes)
  BY <1>1, <1>2
<1>4. ASSUME NEW f \in Sends(calls)
      PROVE  Len(wire) = Before(f) + onset /\ IsPrefix(wire, f[call])
  <2>1. f[1] \in Seq(Bytes)
    BY <1>2 DEF Sends
  <2>2. <<>> \in Seq(Bytes) /\ Len(<<>>) = 0 /\ Len(f[1]) \in Nat
    BY <2>1
  <2>3. IsPrefix(<<>>, f[1])
    <3> DEFINE e == <<>>
    <3>1. e \in Seq(Bytes) /\ Len(e) <= Len(f[1]) /\ \A i \in 1 .. Len(e) : e[i] = f[1][i]
      BY <2>2
    <3> HIDE DEF e
    <3>2. IsPrefix(e, f[1])
      BY <2>1, <3>1, PrefixIs
    <3> QED BY <3>2 DEF e
  <2> QED BY <1>1, <2>2, <2>3 DEF Before
<1> QED BY <1>1, <1>3, <1>4 DEF WireInv

\* n more bytes of the call are the next ones of what is sent.
LEMMA PortionFits ==
    ASSUME WireInv, NEW n \in Nat, onset + n <= Len(source.calls[call]),
           NEW f \in Sends(source.calls),
           NEW w, w = wire \o SubSeq(source.calls[call], onset + 1, onset + n)
    PROVE  /\ w \in Seq(Bytes)
           /\ Len(w) = Before(f) + onset + n
           /\ IsPrefix(w, f[call])
<1> DEFINE c == source.calls[call]
           p == SubSeq(c, onset + 1, onset + n)
           b == Before(f)
           t == f[call]
<1>1. /\ c \in Seq(Bytes) /\ t \in Seq(Bytes) /\ b \in Nat
      /\ Len(t) = b + Len(c)
      /\ \A j \in 1 .. Len(c) : t[b + j] = c[j]
  BY CallIs
<1>2. /\ wire \in Seq(Bytes) /\ onset \in 0 .. Len(c) /\ onset + n <= Len(c)
      /\ Len(wire) = b + onset /\ IsPrefix(wire, t)
  BY DEF WireInv
<1>w. w = wire \o p
  OBVIOUS
<1> HIDE DEF c, b, t
<1>3. Len(c) \in Nat /\ Len(wire) \in Nat /\ onset \in Nat
  BY <1>1, <1>2
<1>4. /\ p \in Seq(Bytes) /\ Len(p) = n
      /\ \A j \in 1 .. n : p[j] = c[onset + j]
  BY <1>1, <1>2, <1>3, SubSeqProperties
<1> HIDE DEF p
<1>5. /\ w \in Seq(Bytes) /\ Len(w) = Len(wire) + n
      /\ \A j \in 1 .. Len(wire) + n :
            w[j] = IF j <= Len(wire) THEN wire[j] ELSE p[j - Len(wire)]
  <2>1. /\ wire \o p \in Seq(Bytes) /\ Len(wire \o p) = Len(wire) + Len(p)
        /\ \A j \in 1 .. Len(wire) + Len(p) :
              (wire \o p)[j] = IF j <= Len(wire) THEN wire[j] ELSE p[j - Len(wire)]
    <3>1. wire \in Seq(Bytes) /\ p \in Seq(Bytes)
      BY <1>2, <1>4
    <3> QED BY <3>1, ConcatProperties, Zenon
  <2> QED BY <1>w, <1>4, <2>1, Zenon
<1>6. \A j \in 1 .. Len(wire) : wire[j] = t[j]
  <2>1. wire \in Seq(Bytes) /\ t \in Seq(Bytes) /\ IsPrefix(wire, t)
    BY <1>1, <1>2
  <2> HIDE DEF t
  <2> QED BY <2>1, BytesPrefixIs
<1>7. ASSUME NEW j \in 1 .. Len(w) PROVE w[j] = t[j]
  <2>1. CASE j <= Len(wire)
    BY <1>3, <1>5, <1>6, <2>1
  <2>2. CASE ~(j <= Len(wire))
    <3> DEFINE i == j - Len(wire)
    <3>1. i \in 1 .. n /\ onset + i \in 1 .. Len(c) /\ b + (onset + i) = j
      BY <1>1, <1>2, <1>3, <1>5, <2>2
    <3>2. w[j] = p[i]
      BY <1>3, <1>5, <2>2
    <3> HIDE DEF i
    <3>3. p[i] = c[onset + i] /\ t[b + (onset + i)] = c[onset + i]
      BY <1>1, <1>4, <3>1
    <3> QED BY <3>1, <3>2, <3>3
  <2> QED BY <2>1, <2>2
<1>8. Len(w) <= Len(t) /\ Len(w) = b + onset + n
  BY <1>1, <1>2, <1>3, <1>5
<1>9. IsPrefix(w, t)
  BY <1>1, <1>5, <1>7, <1>8, PrefixIs
<1> QED BY <1>5, <1>8, <1>9 DEF b, t

LEMMA AcceptWires ==
    ASSUME WireInv, NEW n \in 1 .. Len(source.calls[call]), Accept(n)
    PROVE  WireInv'
<1> DEFINE calls == source.calls
           c == calls[call]
<1>1. /\ calls \in Seq(Seq(Bytes)) /\ calls # <<>> /\ Len(calls) \in Nat \ {0}
      /\ call \in 1 .. Len(calls) /\ onset \in 0 .. Len(c)
      /\ \A i \in 1 .. Len(calls) : calls[i] \in Seq(Bytes)
  BY CallsAre DEF WireInv
<1>2. c \in Seq(Bytes) /\ Len(c) \in Nat /\ n \in Nat /\ onset + n <= Len(c) /\ onset \in Nat
  <2>1. c \in Seq(Bytes)
    BY <1>1
  <2>2. Len(c) \in Nat
    BY <2>1
  <2> HIDE DEF c
  <2>3. n \in 1 .. Len(c) /\ onset + n <= Len(c)
    BY DEF c, Accept
  <2> QED BY <1>1, <2>1, <2>2, <2>3
<1>3. /\ source' = source /\ wire' = wire \o SubSeq(c, onset + 1, onset + n)
      /\ result = "sending"
  BY DEF Accept, Arrive
<1>4. /\ onset + n < Len(c) => onset' = onset + n /\ call' = call /\ result' = result
      /\ onset + n = Len(c) /\ call < Len(calls) =>
            call' = call + 1 /\ onset' = 0 /\ result' = result
      /\ onset + n = Len(c) /\ ~(call < Len(calls)) =>
            onset' = onset + n /\ result' = "done" /\ call' = call
  <2> HIDE DEF c
  <2>1. IF onset + n < Len(c)
        THEN onset' = onset + n /\ UNCHANGED <<call, result>>
        ELSE IF call < Len(calls)
        THEN call' = call + 1 /\ onset' = 0 /\ UNCHANGED result
        ELSE onset' = onset + n /\ result' = "done" /\ UNCHANGED call
    BY DEF Accept, c
  <2> QED BY <1>2, <2>1
<1>5. \A f \in Sends(calls) :
         wire' \in Seq(Bytes) /\ Len(wire') = Before(f) + onset + n /\ IsPrefix(wire', f[call])
  BY <1>2, <1>3, PortionFits
<1>6. \A f \in Sends(calls) :
         /\ f[call] \in Seq(Bytes) /\ Before(f) \in Nat
         /\ Len(f[call]) = Before(f) + Len(c)
  BY CallIs
<1>7. wire' \in Seq(Bytes)
  <2>1. Sends(calls) # {}
    BY <1>1, WholeIs
  <2> QED BY <1>5, <2>1
<1> DEFINE Wired(f) == /\ Len(wire) = Before(f) + onset
                       /\ IsPrefix(wire, f[call])
                       /\ result = "done" => wire = f[Len(calls)]
<1>8. CASE onset + n < Len(c)
  <2>1. onset' = onset + n /\ call' = call /\ result' = "sending"
    BY <1>3, <1>4, <1>8
  <2>2. call' \in 1 .. Len(calls) /\ onset' \in 0 .. Len(calls[call'])
    <3>1. onset' \in 0 .. Len(c)
      BY <1>2, <2>1
    <3> QED BY <1>1, <2>1, <3>1
  <2>3. ASSUME NEW f \in Sends(calls)
        PROVE  Len(wire') = Before(f)' + onset' /\ IsPrefix(wire', f[call'])
    <3>1. Before(f)' = Before(f)
      BY <2>1 DEF Before
    <3>2. Len(wire') = Before(f) + onset + n /\ IsPrefix(wire', f[call]) /\ Before(f) \in Nat
      BY <1>5, <1>6
    <3> QED BY <1>2, <2>1, <3>1, <3>2
  <2> QED BY <1>3, <1>7, <2>1, <2>2, <2>3 DEF WireInv
<1>9. CASE onset + n = Len(c) /\ call < Len(calls)
  <2>1. onset' = 0 /\ call' = call + 1 /\ result' = "sending"
    BY <1>3, <1>4, <1>9
  <2>2. call' \in 2 .. Len(calls) /\ onset' \in 0 .. Len(calls[call'])
    <3>1. call' \in 2 .. Len(calls) /\ calls[call'] \in Seq(Bytes)
      BY <1>1, <1>9, <2>1
    <3> QED BY <2>1, <3>1
  <2>3. ASSUME NEW f \in Sends(calls)
        PROVE  Len(wire') = Before(f)' + onset' /\ IsPrefix(wire', f[call'])
    <3>1. /\ Before(f)' = Len(f[call]) /\ call' # 1 /\ call' - 1 = call
          /\ f[call] \in Seq(Bytes) /\ f[call'] \in Seq(Bytes)
      <4>1. call' # 1 /\ call' - 1 = call
        BY <1>1, <2>1
      <4>2. Before(f)' = Len(f[call' - 1])
        BY <4>1 DEF Before
      <4>3. f \in [1 .. Len(calls) -> Seq(Bytes)]
        BY DEF Sends
      <4>4. call' \in 1 .. Len(calls)
        BY <1>1, <2>2
      <4>5. f[call] \in Seq(Bytes) /\ f[call'] \in Seq(Bytes)
        BY <1>1, <4>3, <4>4
      <4> QED BY <4>1, <4>2, <4>5
    <3>2. /\ Len(wire') = Before(f) + onset + n /\ IsPrefix(wire', f[call])
          /\ Len(f[call]) = Before(f) + Len(c) /\ Before(f) \in Nat
      BY <1>5, <1>6
    <3>3. Len(wire') = Len(f[call])
      BY <1>2, <1>9, <3>2
    <3>4. /\ Len(f[call']) = Len(f[call]) + Len(calls[call'])
          /\ \A j \in 1 .. Len(f[call]) : f[call'][j] = f[call][j]
      <4>1. PICK k \in 2 .. Len(calls) : k = call'
        BY <2>2
      <4>2. /\ Len(f[k]) = Len(f[k - 1]) + Len(calls[k])
            /\ \A j \in 1 .. Len(f[k - 1]) : f[k][j] = f[k - 1][j]
        BY <1>1, SendsGrow
      <4>3. k - 1 = call
        BY <3>1, <4>1
      <4> QED BY <4>1, <4>2, <4>3, Zenon
    <3>5. \A j \in 1 .. Len(wire') : wire'[j] = f[call][j]
      BY <1>7, <3>1, <3>2, PrefixIs
    <3>6. Len(calls[call']) \in Nat /\ Len(f[call]) \in Nat
      <4>1. calls[call'] \in Seq(Bytes)
        BY <1>1, <2>2
      <4> QED BY <3>1, <4>1
    <3>7. Len(wire') <= Len(f[call']) /\ \A j \in 1 .. Len(wire') : wire'[j] = f[call'][j]
      <4> DEFINE x == f[call]
                 y == f[call']
                 z == calls[call']
      <4>1. /\ Len(wire') = Len(x) /\ Len(y) = Len(x) + Len(z) /\ Len(z) \in Nat /\ Len(x) \in Nat
            /\ \A j \in 1 .. Len(x) : y[j] = x[j]
            /\ \A j \in 1 .. Len(wire') : wire'[j] = x[j]
        BY <3>3, <3>4, <3>5, <3>6
      <4> HIDE DEF x, y, z
      <4>2. Len(wire') <= Len(y) /\ \A j \in 1 .. Len(wire') : wire'[j] = y[j]
        BY <4>1
      <4> QED BY <4>2 DEF y
    <3>8. IsPrefix(wire', f[call'])
      BY <1>7, <3>1, <3>7, PrefixIs
    <3> QED BY <2>1, <3>1, <3>3, <3>6, <3>8
  <2>4. call' \in 1 .. Len(calls)
    BY <1>1, <2>2
  <2> QED BY <1>3, <1>7, <2>1, <2>2, <2>3, <2>4 DEF WireInv
<1>10. CASE onset + n = Len(c) /\ ~(call < Len(calls))
  <2>1. onset' = onset + n /\ call' = call /\ call = Len(calls)
    BY <1>1, <1>4, <1>10
  <2>2. call' \in 1 .. Len(calls) /\ onset' \in 0 .. Len(calls[call'])
    <3>1. onset' \in 0 .. Len(c)
      BY <1>2, <2>1
    <3> QED BY <1>1, <2>1, <3>1
  <2>3. ASSUME NEW f \in Sends(calls)
        PROVE  /\ Len(wire') = Before(f)' + onset' /\ IsPrefix(wire', f[call'])
               /\ wire' = f[Len(calls)]
    <3>1. Before(f)' = Before(f)
      BY <2>1 DEF Before
    <3>2. /\ Len(wire') = Before(f) + onset + n /\ IsPrefix(wire', f[call])
          /\ Len(f[call]) = Before(f) + Len(c) /\ Before(f) \in Nat
          /\ f[call] \in Seq(Bytes)
      BY <1>5, <1>6
    <3>3. Len(wire') = Len(f[call])
      BY <1>2, <1>10, <3>2
    <3>4. \A j \in 1 .. Len(wire') : wire'[j] = f[call][j]
      BY <1>7, <3>2, PrefixIs
    <3>5. wire' = f[call]
      BY <1>7, <3>2, <3>3, <3>4, SeqEqual
    <3> QED BY <1>2, <2>1, <3>1, <3>2, <3>5
  <2> QED BY <1>3, <1>7, <2>1, <2>2, <2>3 DEF WireInv
<1> HIDE DEF c
<1> QED BY <1>2, <1>8, <1>9, <1>10

LEMMA WireStep == WireInv /\ [Next]_vars => WireInv'
<1> SUFFICES ASSUME WireInv, [Next]_vars PROVE WireInv'
  OBVIOUS
<1>1. CASE \E n \in 1 .. Len(source.calls[call]) : Accept(n)
  BY <1>1, AcceptWires
<1>2. CASE FailToWrite \/ UNCHANGED vars
  <2>1. UNCHANGED <<source, call, onset, wire>> /\ (result' = "done" => result = "done")
    BY <1>2 DEF FailToWrite, vars
  <2> QED BY <2>1 DEF WireInv, Before
<1> QED BY <1>1, <1>2 DEF Next

LEMMA WireHolds == Spec => []WireInv
BY WireInit, WireStep, PTL DEF Spec

\* Whatever portions are accepted, what has arrived is the beginning of what was
\* to be sent, and all of it when the sender is done.
THEOREM EachByteArrivesOnce == Spec => []EachByteOnce
<1>1. WireInv => EachByteOnce
  <2> SUFFICES ASSUME WireInv PROVE EachByteOnce
    OBVIOUS
  <2> DEFINE calls == source.calls
             n == Len(calls)
  <2>1. /\ calls \in Seq(Seq(Bytes)) /\ calls # <<>> /\ n \in Nat \ {0}
        /\ call \in 1 .. n /\ wire \in Seq(Bytes)
    BY CallsAre DEF WireInv
  <2>2. PICK f \in Sends(calls) : FlattenSeq(calls) = f[n]
    BY <2>1, WholeIs
  <2>3. IsPrefix(wire, f[call]) /\ (result = "done" => wire = f[n])
    BY <2>2 DEF WireInv
  <2>4. IsPrefix(f[call], f[n])
    BY <2>1, <2>2, SendsBegin
  <2>5. f[call] \in Seq(Bytes) /\ f[n] \in Seq(Bytes)
    <3>1. f \in [1 .. n -> Seq(Bytes)] /\ n \in 1 .. n
      BY <2>1 DEF Sends
    <3> QED BY <2>1, <3>1
  <2>6. IsPrefix(wire, f[n])
    <3> DEFINE t == f[call]
               u == f[n]
    <3>1. /\ Len(wire) <= Len(t) /\ \A j \in 1 .. Len(wire) : wire[j] = t[j]
          /\ Len(t) <= Len(u) /\ \A j \in 1 .. Len(t) : t[j] = u[j]
      <4>1. wire \in Seq(Bytes) /\ t \in Seq(Bytes) /\ u \in Seq(Bytes)
        BY <2>1, <2>5
      <4>2. IsPrefix(wire, t) /\ IsPrefix(t, u)
        BY <2>3, <2>4
      <4> HIDE DEF t, u
      <4> QED BY <4>1, <4>2, BytesPrefixIs
    <3>2. Len(wire) \in Nat /\ Len(t) \in Nat /\ Len(u) \in Nat
      BY <2>1, <2>5
    <3> HIDE DEF t, u
    <3>3. Len(wire) <= Len(u) /\ \A j \in 1 .. Len(wire) : wire[j] = u[j]
      BY <3>1, <3>2
    <3>4. u \in Seq(Bytes)
      BY <2>5 DEF u
    <3> QED BY <2>1, <3>3, <3>4, PrefixIs DEF u
  <2> QED BY <2>2, <2>3, <2>6 DEF EachByteOnce, Whole
<1> QED BY <1>1, WireHolds, PTL

-----------------------------------------------------------------------------
(* Where a literal ends. *)

\* A byte that is not the terminator is in the text.
LEMMA ByteIs ==
    ASSUME NEW s \in Seq(Bytes), NEW i
    PROVE  /\ ByteAt(s, i) \in Bytes
           /\ ByteAt(s, i) # 0 => i \in 1 .. Len(s) /\ ByteAt(s, i) = s[i]
<1>1. CASE i \in DOMAIN s
  <2>1. i \in 1 .. Len(s) /\ s[i] \in Bytes
    BY <1>1
  <2> QED BY <1>1, <2>1 DEF ByteAt
<1>2. CASE i \notin DOMAIN s
  BY <1>2 DEF ByteAt, Bytes
<1> QED BY <1>1, <1>2

LEMMA AfterIs ==
    ASSUME NEW s, NEW q \in ScanState, NEW d
    PROVE  \A r \in AfterEscaped(s, q, d) : r \in ScanState /\ r.at = q.at + 1
<1>1. \A r \in AfterEscaped(s, q, d) :
         \E h \in {0, 2, 4}, e \in BOOLEAN : r = [at |-> q.at + 1, hexa |-> h, esc |-> e]
  <2> DEFINE b == ByteAt(s, q.at) = CR /\ ByteAt(s, q.at + 1) = LF /\ HasLineContinuation(d)
             to(h, e) == [at |-> q.at + 1, hexa |-> h, esc |-> e]
  <2>1. \A r \in AfterEscaped(s, q, d) :
           r = to(4, FALSE) \/ r = to(2, FALSE) \/ r = to(0, FALSE) \/ r = to(0, b)
    BY DEF AfterEscaped
  <2>2. b = TRUE \/ b = FALSE
    OBVIOUS
  <2> HIDE DEF b
  <2>3. \A r \in AfterEscaped(s, q, d) :
           r = to(4, FALSE) \/ r = to(2, FALSE) \/ r = to(0, FALSE) \/ r = to(0, TRUE)
    BY <2>1, <2>2, Zenon
  <2> QED BY <2>3
<1>2. q.at + 1 \in Nat
  BY DEF ScanState
<1> QED BY <1>1, <1>2 DEF ScanState

\* A byte of a literal is behind the one before it.
LEMMA LiteralTurnIs ==
    ASSUME NEW s \in Seq(Bytes), NEW d, NEW q \in ScanState
    PROVE  /\ \A r \in LiteralTurn(s, q, d) : r \in ScanState /\ r.at = q.at + 1
           /\ LiteralTurn(s, q, d) # {} => q.at \in 1 .. Len(s)
           /\ LiteralVerdict(s, q, d) \in Bad .. Len(s)
<1> DEFINE c == ByteAt(s, q.at)
           next == [q EXCEPT !.at = @ + 1]
           hexed == [next EXCEPT !.hexa = @ - 1]
           plain(e) == [next EXCEPT !.esc = e]
<1>1. /\ q.at \in Nat /\ q.hexa \in 0 .. 4 /\ q.esc \in BOOLEAN
      /\ c # 0 => q.at \in 1 .. Len(s)
  BY ByteIs DEF ScanState
<1>2. next \in ScanState /\ next.at = q.at + 1 /\ next.hexa = q.hexa
  BY <1>1 DEF ScanState
<1>3. q.hexa > 0 => hexed \in ScanState /\ hexed.at = q.at + 1
  <2> SUFFICES ASSUME q.hexa > 0 PROVE hexed \in ScanState /\ hexed.at = q.at + 1
    OBVIOUS
  <2>1. next.hexa - 1 \in 0 .. 4
    <3> HIDE DEF next
    <3> QED BY <1>1, <1>2
  <2> HIDE DEF next
  <2>2. hexed \in ScanState /\ hexed.at = next.at
    BY <1>2, <2>1 DEF ScanState
  <2> QED BY <1>2, <2>2
<1>4. \A e \in BOOLEAN : plain(e) \in ScanState /\ plain(e).at = q.at + 1
  BY <1>2 DEF ScanState
<1>5. \A r \in AfterEscaped(s, q, d) : r \in ScanState /\ r.at = q.at + 1
  BY AfterIs
<1>6. \A r \in LiteralTurn(s, q, d) : r \in ScanState /\ r.at = q.at + 1
  <2> TAKE r \in LiteralTurn(s, q, d)
  <2>1. \/ q.hexa > 0 /\ r = hexed
        \/ r \in AfterEscaped(s, q, d)
        \/ r = plain(TRUE) \/ r = plain(FALSE)
    <3> DEFINE e == (c = Backslash)
    <3>1. \/ q.hexa > 0 /\ r = hexed
          \/ r \in AfterEscaped(s, q, d)
          \/ r = plain(e)
      BY DEF LiteralTurn
    <3>2. e = TRUE \/ e = FALSE
      OBVIOUS
    <3> HIDE DEF e, plain, hexed
    <3> QED BY <3>1, <3>2, Zenon
  <2> HIDE DEF hexed, plain
  <2> QED BY <1>3, <1>4, <1>5, <2>1
<1>7. LiteralTurn(s, q, d) # {} => c # 0
  BY DEF LiteralTurn
<1>8. LiteralVerdict(s, q, d) \in {Cut, Bad} \/ (LiteralVerdict(s, q, d) = q.at /\ c # 0)
  BY Zenon DEF LiteralVerdict
<1>9. Len(s) \in Nat
  OBVIOUS
<1> HIDE DEF c
<1> QED BY <1>1, <1>6, <1>7, <1>8, <1>9 DEF Cut, Bad

\* A scan is a loop when its turns go on to bytes farther behind, none of them
\* beyond the n-th.
Scans(n, S) ==
    {l \in [turn : [ScanState -> SUBSET ScanState], verdict : [ScanState -> S]] :
        \A q \in ScanState : \A r \in l.turn[q] : r.at > q.at /\ q.at <= n}

LEMMA ScanTyped ==
    ASSUME NEW n \in Nat, NEW S, NEW l \in Scans(n, S)
    PROVE  /\ \E f : f = [q \in ScanState |->
                 IF l.turn[q] = {} THEN l.verdict[q] ELSE f[Only(l.turn[q])]]
           /\ \A f : f = [q \in ScanState |->
                        IF l.turn[q] = {} THEN l.verdict[q] ELSE f[Only(l.turn[q])]]
                    => f \in [ScanState -> S]
<1> DEFINE D == ScanState
           stop == {q \in D : l.turn[q] = {}}
           next == [q \in D |-> IF q \in stop THEN q ELSE Only(l.turn[q])]
           rank == [q \in D |-> IF q.at <= n THEN n + 1 - q.at ELSE 0]
           k == [stop |-> stop, base |-> l.verdict, next |-> next, rank |-> rank]
<1>1. /\ \A q \in D : l.turn[q] \in SUBSET D /\ \A r \in l.turn[q] : r.at > q.at /\ q.at <= n
      /\ l.verdict \in [D -> S]
  BY DEF Scans
<1>2. \A q \in D \ stop : Only(l.turn[q]) \in l.turn[q]
  BY DEF Only
<1>3. \A q \in D : q.at \in Nat
  BY DEF ScanState
<1> HIDE DEF D
<1>4. next \in [D -> D]
  BY <1>1, <1>2
<1>5. rank \in [D -> Nat]
  BY <1>3
<1>6. \A q \in D \ stop : rank[next[q]] < rank[q]
  <2> TAKE q \in D \ stop
  <2> DEFINE r == next[q]
  <2>1. r = Only(l.turn[q])
    OBVIOUS
  <2>2. r \in l.turn[q] /\ r \in D /\ q \in D
    BY <1>1, <1>2, <2>1
  <2>3. q.at \in Nat /\ r.at \in Nat /\ r.at > q.at /\ q.at <= n
    BY <1>1, <1>3, <2>2
  <2> HIDE DEF r, stop, next
  <2>4. rank[r] = (IF r.at <= n THEN n + 1 - r.at ELSE 0) /\ rank[q] = n + 1 - q.at
    BY <2>2, <2>3
  <2> HIDE DEF rank
  <2>5. rank[r] < rank[q]
    BY <2>3, <2>4
  <2> QED BY <2>5 DEF r
<1>7. stop \in SUBSET D
  OBVIOUS
<1> HIDE DEF stop, next, rank
<1>8. k \in Iterations(D, S) /\ k.stop = stop /\ k.base = l.verdict /\ k.next = next
  BY <1>1, <1>4, <1>5, <1>6, <1>7 DEF Iterations
<1> HIDE DEF k
<1>9. PICK f \in [D -> S] : \A q \in D : f[q] = IF q \in stop THEN l.verdict[q] ELSE f[next[q]]
  BY <1>8, IterationDefined DEF Outcomes
<1>10. \A q \in D : (q \in stop <=> l.turn[q] = {}) /\ (q \notin stop => next[q] = Only(l.turn[q]))
  BY DEF stop, next
<1>11. f = [q \in D |-> IF l.turn[q] = {} THEN l.verdict[q] ELSE f[Only(l.turn[q])]]
  <2>1. \A q \in D : f[q] = IF l.turn[q] = {} THEN l.verdict[q] ELSE f[Only(l.turn[q])]
    BY <1>9, <1>10, Zenon
  <2> QED BY <2>1
<1>12. ASSUME NEW F,
              F = [q \in D |-> IF l.turn[q] = {} THEN l.verdict[q] ELSE F[Only(l.turn[q])]]
       PROVE  F \in [D -> S]
  <2> DEFINE T == {F[q] : q \in D}
  <2>1. F \in [D -> T]
    BY <1>12
  <2>2. \A q \in D : F[q] = IF q \in stop THEN l.verdict[q] ELSE F[next[q]]
    BY <1>10, <1>12
  <2>3. F \in Outcomes(D, T, k)
    <3> HIDE DEF T
    <3> QED BY <1>8, <2>1, <2>2 DEF Outcomes
  <2> HIDE DEF T
  <2> QED BY <1>8, <2>3, IterationTyped
<1> QED BY <1>11, <1>12 DEF D

\* determine_literal_ as a loop.
LEMMA LiteralScans ==
    ASSUME NEW s \in Seq(Bytes), NEW d
    PROVE  /\ [turn |-> [q \in ScanState |-> LiteralTurn(s, q, d)],
               verdict |-> [q \in ScanState |-> LiteralVerdict(s, q, d)]] \in Scans(Len(s), Bad .. Len(s))
           /\ \E F \in [ScanState -> Bad .. Len(s)] :
                 /\ \A q \in ScanState :
                       F[q] = IF LiteralTurn(s, q, d) = {} THEN LiteralVerdict(s, q, d)
                              ELSE F[Only(LiteralTurn(s, q, d))]
                 /\ DetermineLiteral(s, d) =
                       IF s[1] = Quote \/ (s[1] = Apostrophe /\ HasLiteralSq(d))
                       THEN F[[at |-> 2, hexa |-> 0, esc |-> FALSE]] ELSE Bad
<1> DEFINE S == Bad .. Len(s)
           l == [turn |-> [q \in ScanState |-> LiteralTurn(s, q, d)],
                 verdict |-> [q \in ScanState |-> LiteralVerdict(s, q, d)]]
           F == CHOOSE f : f = [q \in ScanState |->
                   IF LiteralTurn(s, q, d) = {} THEN LiteralVerdict(s, q, d)
                   ELSE f[Only(LiteralTurn(s, q, d))]]
<1>1. \A q \in ScanState : /\ \A r \in LiteralTurn(s, q, d) : r \in ScanState /\ r.at > q.at /\ q.at <= Len(s)
                           /\ LiteralVerdict(s, q, d) \in S
  <2> TAKE q \in ScanState
  <2>1. q.at \in Nat /\ q.at + 1 > q.at
    BY DEF ScanState
  <2> QED BY LiteralTurnIs, <2>1
<1>2. l \in Scans(Len(s), S)
  <2>1. /\ l.turn \in [ScanState -> SUBSET ScanState] /\ l.verdict \in [ScanState -> S]
        /\ \A q \in ScanState : l.turn[q] = LiteralTurn(s, q, d)
    BY <1>1
  <2> QED BY <1>1, <2>1 DEF Scans
<1>3. \A q \in ScanState : l.turn[q] = LiteralTurn(s, q, d) /\ l.verdict[q] = LiteralVerdict(s, q, d)
  OBVIOUS
<1> HIDE DEF l, S
<1>4. /\ \E f : f = [q \in ScanState |->
             IF l.turn[q] = {} THEN l.verdict[q] ELSE f[Only(l.turn[q])]]
      /\ \A f : f = [q \in ScanState |->
                    IF l.turn[q] = {} THEN l.verdict[q] ELSE f[Only(l.turn[q])]]
                => f \in [ScanState -> S]
  <2>1. Len(s) \in Nat
    OBVIOUS
  <2> QED BY <1>2, <2>1, ScanTyped
<1> DEFINE Body(f) == [q \in ScanState |->
               IF LiteralTurn(s, q, d) = {} THEN LiteralVerdict(s, q, d)
               ELSE f[Only(LiteralTurn(s, q, d))]]
<1>5. \A f : [q \in ScanState |-> IF l.turn[q] = {} THEN l.verdict[q] ELSE f[Only(l.turn[q])]]
             = Body(f)
  BY <1>3
<1>6. (\E f : f = Body(f)) /\ \A f : f = Body(f) => f \in [ScanState -> S]
  <2> HIDE DEF Body
  <2> QED BY <1>4, <1>5
<1>7. F = Body(F)
  BY <1>6
<1>8. DetermineLiteral(s, d) = IF s[1] = Quote \/ (s[1] = Apostrophe /\ HasLiteralSq(d))
                               THEN F[[at |-> 2, hexa |-> 0, esc |-> FALSE]] ELSE Bad
  BY DEF DetermineLiteral, F
<1> HIDE DEF F
<1>9. F \in [ScanState -> S]
  BY <1>6, <1>7
<1>10. \A q \in ScanState : F[q] = IF LiteralTurn(s, q, d) = {} THEN LiteralVerdict(s, q, d)
                                   ELSE F[Only(LiteralTurn(s, q, d))]
  BY <1>7
<1> QED BY <1>2, <1>8, <1>9, <1>10 DEF S, l

\* A literal ends in the text.
LEMMA LiteralEnds ==
    ASSUME NEW s \in Seq(Bytes), NEW d
    PROVE  DetermineLiteral(s, d) \in Bad .. Len(s)
<1>1. Bad \in Bad .. Len(s) /\ [at |-> 2, hexa |-> 0, esc |-> FALSE] \in ScanState
  BY DEF Bad, ScanState
<1>2. PICK F \in [ScanState -> Bad .. Len(s)] :
        DetermineLiteral(s, d) = IF s[1] = Quote \/ (s[1] = Apostrophe /\ HasLiteralSq(d))
                                 THEN F[[at |-> 2, hexa |-> 0, esc |-> FALSE]] ELSE Bad
  BY LiteralScans
<1> QED BY <1>1, <1>2

-----------------------------------------------------------------------------
(* Words and numbers. *)

\* The characters the scanners ask for.
LEMMA OrdIs ==
    /\ \A c \in DOMAIN Ord : Ord[c] \in 42 .. 125
    /\ {".", "e", "E", "x", "0", "-", "+", "/", "*"} \subseteq DOMAIN Ord
<1>1. DOMAIN Ascii = 1 .. 84
  BY DEF Ascii
<1>2. \A c \in Range(Ascii) : \E i \in 1 .. 84 : Ascii[i] = c
  BY <1>1 DEF Range
<1>3. DOMAIN Ord = Range(Ascii) /\ \A c \in Range(Ascii) : \E i \in 1 .. 84 : Ord[c] = 41 + i
  BY <1>1, <1>2 DEF Ord
<1>4. Ascii[1] = "*" /\ Ascii[2] = "+" /\ Ascii[4] = "-"
      /\ Ascii[5] = "." /\ Ascii[6] = "/" /\ Ascii[7] = "0"
      /\ Ascii[28] = "E" /\ Ascii[60] = "e" /\ Ascii[79] = "x"
  BY DEF Ascii
<1>5. {".", "e", "E", "x", "0", "-", "+", "/", "*"} \subseteq Range(Ascii)
  BY <1>1, <1>4 DEF Range
<1> QED BY <1>3, <1>5

LEMMA MinIs ==
    ASSUME NEW T \in SUBSET Nat, T # {}
    PROVE  Min(T) \in T /\ \A y \in T : Min(T) <= y
<1>1. PICK x \in T : \A y \in T : x <= y
  BY Least
<1> QED BY <1>1 DEF Min

\* A scan over bytes of a kind stops in the text or behind its end.
LEMMA SkipIs ==
    ASSUME NEW s \in Seq(Bytes), NEW i \in 1 .. Len(s) + 1, NEW S, 0 \notin S
    PROVE  /\ SkipOver(s, i, S) \in i .. Len(s) + 1
           /\ ByteAt(s, i) \in S => SkipOver(s, i, S) > i
<1> DEFINE T == {k \in i .. Len(s) + 1 : ByteAt(s, k) \notin S}
<1>1. Len(s) \in Nat
  OBVIOUS
<1>2. Len(s) + 1 \in T
  BY <1>1 DEF ByteAt
<1>3. T \in SUBSET Nat
  BY <1>1
<1>4. Min(T) \in T
  <2> HIDE DEF T
  <2> QED BY <1>2, <1>3, MinIs
<1>5. SkipOver(s, i, S) = Min(T)
  BY DEF SkipOver
<1> HIDE DEF SkipOver
<1>6. Min(T) \in i .. Len(s) + 1 /\ ByteAt(s, Min(T)) \notin S
  BY <1>4
<1> QED BY <1>1, <1>5, <1>6

LEMMA DigitIs ==
    \A b \in Bytes : DigitValue(b) \in Nat /\ (b \in HexDigits => DigitValue(b) <= 15)
BY DEF Bytes, DigitValue, HexDigits, Digits

\* The value of digits, from the first ones on.
LEMMA ValueIs ==
    ASSUME NEW s \in Seq(Bytes), NEW i \in Nat, NEW base \in Nat
    PROVE  /\ ValueOf(s, i, 0, base) = 0
           /\ \A n \in Nat : ValueOf(s, i, n, base) \in Nat
           /\ \A n \in Nat : ValueOf(s, i, n + 1, base)
                                = ValueOf(s, i, n, base) * base + DigitValue(ByteAt(s, i + n))
<1> DEFINE digit(k) == DigitValue(ByteAt(s, i + k - 1))
           Body(f) == [k \in Nat |-> IF k = 0 THEN 0
                                     ELSE f[k - 1] * base + DigitValue(ByteAt(s, i + k - 1))]
           F == CHOOSE f : f = Body(f)
<1>1. \A k \in Nat : digit(k) \in Nat
  BY ByteIs, DigitIs
<1>2. \A k \in Nat, x \in Nat : x * base + digit(k) \in Nat
  <2>1. \A x \in Nat : x * base \in Nat
    OBVIOUS
  <2> TAKE k \in Nat, x \in Nat
  <2> DEFINE y == x * base
  <2>2. y \in Nat /\ digit(k) \in Nat
    BY <1>1, <2>1
  <2> HIDE DEF digit, y
  <2>3. y + digit(k) \in Nat
    BY <2>2
  <2> QED BY <2>3 DEF y
<1>3. \E f : f = Body(f)
  <2> DEFINE r == [stop |-> {0}, base |-> [k \in Nat |-> 0],
                   next |-> [k \in Nat |-> IF k = 0 THEN 0 ELSE k - 1],
                   step |-> [k \in Nat |-> [x \in Nat |-> x * base + digit(k)]],
                   rank |-> [k \in Nat |-> k]]
  <2>1. /\ r.stop = {0} /\ r.base \in [Nat -> Nat] /\ r.next \in [Nat -> Nat]
        /\ r.step \in [Nat -> [Nat -> Nat]] /\ r.rank \in [Nat -> Nat]
    <3>1. r.step \in [Nat -> [Nat -> Nat]]
      <4> DEFINE turn(k, x) == x * base + digit(k)
                 a == [k \in Nat |-> [x \in Nat |-> turn(k, x)]]
      <4>1. \A k \in Nat, x \in Nat : turn(k, x) \in Nat
        BY <1>2
      <4> HIDE DEF turn
      <4>2. a \in [Nat -> [Nat -> Nat]]
        BY <4>1
      <4> QED BY <4>2 DEF turn
    <3>2. /\ r.stop = {0} /\ r.base \in [Nat -> Nat] /\ r.next \in [Nat -> Nat]
          /\ r.rank \in [Nat -> Nat]
      OBVIOUS
    <3> QED BY <3>1, <3>2
  <2>2. r \in Recursions(Nat, Nat)
    <3>1. \A k \in Nat : k # 0 => r.rank[r.next[k]] < r.rank[k]
      OBVIOUS
    <3>2. {0} \in SUBSET Nat
      OBVIOUS
    <3> QED BY <2>1, <3>1, <3>2 DEF Recursions
  <2>3. \A k \in Nat : /\ r.base[k] = 0 /\ (k # 0 => r.next[k] = k - 1)
                       /\ \A x \in Nat : r.step[k][x] = x * base + digit(k)
    OBVIOUS
  <2> HIDE DEF r
  <2>4. PICK f : f \in Solutions(Nat, Nat, r)
    BY <2>2, RecursionDefined
  <2>5. f \in [Nat -> Nat] /\ \A k \in Nat :
           f[k] = IF k \in {0} THEN r.base[k] ELSE r.step[k][f[r.next[k]]]
    BY <2>1, <2>4 DEF Solutions
  <2>6. ASSUME NEW k \in Nat PROVE f[k] = IF k = 0 THEN 0 ELSE f[k - 1] * base + digit(k)
    <3>1. CASE k = 0
      BY <2>3, <2>5, <3>1
    <3>2. CASE k # 0
      <4>1. k - 1 \in Nat /\ f[k - 1] \in Nat
        BY <2>5, <3>2
      <4>2. f[k] = r.step[k][f[k - 1]]
        BY <2>3, <2>5, <3>2
      <4> HIDE DEF digit
      <4> QED BY <2>3, <3>2, <4>1, <4>2
    <3> QED BY <3>1, <3>2
  <2>7. f = Body(f)
    BY <2>5, <2>6
  <2> QED BY <2>7
<1>4. F = Body(F)
  <2> HIDE DEF Body
  <2> QED BY <1>3
<1>5. \A n : ValueOf(s, i, n, base) = F[n]
  BY DEF ValueOf
<1> HIDE DEF F
<1>6. \A k \in Nat : F[k] = IF k = 0 THEN 0 ELSE F[k - 1] * base + digit(k)
  BY <1>4
<1>7. \A n \in Nat : F[n + 1] = F[n] * base + DigitValue(ByteAt(s, i + n))
  <2> TAKE n \in Nat
  <2>1. n + 1 \in Nat /\ n + 1 # 0 /\ (n + 1) - 1 = n /\ i + (n + 1) - 1 = i + n
    OBVIOUS
  <2> HIDE DEF Body
  <2>2. F[n + 1] = F[(n + 1) - 1] * base + digit(n + 1)
    BY <1>6, <2>1
  <2> QED BY <2>1, <2>2
<1>8. \A n \in Nat : F[n] \in Nat
  <2> DEFINE bad == {k \in Nat : F[k] \notin Nat}
  <2> SUFFICES ASSUME bad # {} PROVE FALSE
    OBVIOUS
  <2>1. PICK k \in bad : \A j \in bad : k <= j
    <3>1. bad \subseteq Nat
      OBVIOUS
    <3> HIDE DEF bad
    <3> QED BY <3>1, Least
  <2>2. k \in Nat /\ F[k] \notin Nat
    OBVIOUS
  <2>3. k # 0
    BY <1>6, <2>2
  <2>4. k - 1 \in Nat /\ ~(k <= k - 1)
    BY <2>2, <2>3
  <2>5. F[k - 1] \in Nat
    BY <2>1, <2>4
  <2> HIDE DEF digit
  <2> QED BY <1>2, <1>6, <2>2, <2>3, <2>5
<1>9. \A n \in Nat : n + 1 \in Nat /\ ValueOf(s, i, n, base) = F[n]
                   /\ ValueOf(s, i, n + 1, base) = F[n + 1]
  BY <1>5
<1>10. ValueOf(s, i, 0, base) = 0
  BY <1>5, <1>6
<1> QED BY <1>7, <1>8, <1>9, <1>10

\* What a scan of n bytes may say.
IsScan(r, n) ==
    /\ r.len \in Bad .. n
    /\ r.type \in {"none", "bool", "null", "integer", "float", "string"}
    /\ r.value \in Seq(IF r.type = "integer" THEN WordRange ELSE Bytes)

LEMMA NoVerdict ==
    ASSUME NEW n \in Nat
    PROVE  IsScan(NotYet, n) /\ IsScan(NoLexeme, n)
BY DEF IsScan, NotYet, NoLexeme, Scanned, Cut, Bad

Shifted(a, b) == a * 16 + b

LEMMA ShiftedIs ==
    \A a, b \in Nat : b <= 15 => /\ a <= 15 => Shifted(a, b) <= 255
                                 /\ a <= 255 => Shifted(a, b) <= 4095
                                 /\ a <= 4095 => Shifted(a, b) <= 65535
BY DEF Shifted

\* What m hexadecimal digits may be worth.
Within(v, m) ==
    /\ v \in Nat
    /\ m = 0 => v <= 0
    /\ m = 1 => v <= 15
    /\ m = 2 => v <= 255
    /\ m = 3 => v <= 4095
    /\ m = 4 => v <= 65535

\* Hexadecimal digits: what they are worth takes no more bytes than they do.
LEMMA HexIs ==
    ASSUME NEW s \in Seq(Bytes), NEW i \in Nat, NEW n \in {2, 4}
    PROVE  \E m \in 0 .. n : /\ m > 0 => i + m - 1 <= Len(s)
                            /\ Within(HexValue(s, i, n), m)
<1> DEFINE T == {k \in 0 .. n : k = n \/ ByteAt(s, i + k) \notin HexDigits}
           m == Min(T)
           v(k) == ValueOf(s, i, k, 16)
<1>1. m \in T /\ \A k \in T : m <= k
  <2>1. n \in T /\ T \in SUBSET Nat
    OBVIOUS
  <2> HIDE DEF T
  <2> QED BY <2>1, MinIs
<1>2. m \in 0 .. n /\ \A k \in 0 .. n : k < m => ByteAt(s, i + k) \in HexDigits
  <2> HIDE DEF m
  <2>1. m \in 0 .. n
    BY <1>1
  <2>2. ASSUME NEW k \in 0 .. n, k < m, ByteAt(s, i + k) \notin HexDigits PROVE FALSE
    <3>1. k \in T
      BY <2>2
    <3>2. m <= k /\ n \in Nat
      BY <1>1, <3>1
    <3> HIDE DEF T
    <3> QED BY <2>1, <2>2, <3>2
  <2> HIDE DEF T
  <2> QED BY <2>1, <2>2
<1>3. HexValue(s, i, n) = v(m)
  BY DEF HexValue
<1> HIDE DEF m, T
<1>4. /\ v(0) = 0
      /\ \A k \in Nat : v(k) \in Nat /\ v(k + 1) = v(k) * 16 + DigitValue(ByteAt(s, i + k))
  <2>1. 16 \in Nat
    OBVIOUS
  <2>2. /\ v(0) = 0
        /\ \A k \in Nat : v(k) \in Nat
        /\ \A k \in Nat : v(k + 1) = v(k) * 16 + DigitValue(ByteAt(s, i + k))
    BY <2>1, ValueIs
  <2> HIDE DEF v
  <2> QED BY <2>2
<1> HIDE DEF v
<1>5. \A k \in 0 .. n : k < m => DigitValue(ByteAt(s, i + k)) <= 15 /\ DigitValue(ByteAt(s, i + k)) \in Nat
  BY <1>2, ByteIs, DigitIs
<1>6. m > 0 => i + m - 1 <= Len(s)
  <2> SUFFICES ASSUME m > 0 PROVE i + m - 1 <= Len(s)
    OBVIOUS
  <2>1. m - 1 \in 0 .. n /\ m - 1 < m /\ i + (m - 1) = i + m - 1
    BY <1>2
  <2>2. ByteAt(s, i + (m - 1)) # 0
    <3>1. ByteAt(s, i + (m - 1)) \in HexDigits
      BY <1>2, <2>1
    <3>2. 0 \notin HexDigits
      BY DEF HexDigits, Digits
    <3> QED BY <3>1, <3>2
  <2>3. i + (m - 1) \in 1 .. Len(s)
    BY <2>2, ByteIs
  <2> QED BY <2>1, <2>3
<1> DEFINE x(k) == DigitValue(ByteAt(s, i + k))
<1>7. PICK V \in [0 .. 4 -> Nat] : \A k \in 0 .. 4 : V[k] = v(k)
  <2>1. \A k \in Nat : v(k) \in Nat
    BY <1>4
  <2>2. [k \in 0 .. 4 |-> v(k)] \in [0 .. 4 -> Nat]
    BY <2>1
  <2> QED BY <2>2
<1>8. PICK X \in [0 .. 3 -> Nat] : \A k \in 0 .. 3 : X[k] = x(k)
  <2>1. \A k \in 0 .. 3 : x(k) \in Nat
    BY ByteIs, DigitIs
  <2> HIDE DEF x
  <2>2. [k \in 0 .. 3 |-> x(k)] \in [0 .. 3 -> Nat]
    BY <2>1
  <2> QED BY <2>2
<1>9. V[0] = 0 /\ \A k \in 0 .. 3 : V[k + 1] = V[k] * 16 + X[k]
  <2>1. V[0] = 0
    BY <1>4, <1>7
  <2>2. ASSUME NEW k \in 0 .. 3 PROVE V[k + 1] = V[k] * 16 + X[k]
    <3>1. k \in 0 .. 4 /\ k + 1 \in 0 .. 4 /\ k \in Nat
      OBVIOUS
    <3>2. V[k + 1] = v(k + 1) /\ V[k] = v(k) /\ X[k] = x(k) /\ v(k + 1) = v(k) * 16 + x(k)
      BY <1>4, <1>7, <1>8, <3>1
    <3> HIDE DEF x
    <3> QED BY <3>2
  <2> QED BY <2>1, <2>2
<1>10. \A k \in 0 .. 3 : k < m => X[k] <= 15
  <2> TAKE k \in 0 .. 3
  <2>1. X[k] = x(k)
    BY <1>8
  <2>2. k < m => k \in 0 .. n
    <3>1. n \in Nat /\ m \in 0 .. n
      BY <1>2
    <3> QED BY <3>1
  <2>3. k < m => x(k) <= 15
    BY <1>5, <2>2
  <2> HIDE DEF x
  <2> QED BY <2>1, <2>3
<1>11. V[1] = X[0] /\ V[2] = V[1] * 16 + X[1] /\ V[3] = V[2] * 16 + X[2] /\ V[4] = V[3] * 16 + X[3]
  <2>1. V[0 + 1] = V[0] * 16 + X[0] /\ V[1 + 1] = V[1] * 16 + X[1]
        /\ V[2 + 1] = V[2] * 16 + X[2] /\ V[3 + 1] = V[3] * 16 + X[3]
    BY <1>9
  <2> QED BY <1>9, <2>1
<1>12. /\ m = 0 => V[m] <= 0
       /\ m = 1 => V[m] <= 15
       /\ m = 2 => V[m] <= 255
       /\ m = 3 => V[m] <= 4095
       /\ m = 4 => V[m] <= 65535
  <2>1. m = 1 => X[0] <= 15
    BY <1>10
  <2>2. m = 2 => X[0] <= 15 /\ X[1] <= 15
    BY <1>10
  <2>3. m = 3 => X[0] <= 15 /\ X[1] <= 15 /\ X[2] <= 15
    BY <1>10
  <2>4. m = 4 => X[0] <= 15 /\ X[1] <= 15 /\ X[2] <= 15 /\ X[3] <= 15
    BY <1>10
  <2>5. X[0] \in Nat /\ X[1] \in Nat /\ X[2] \in Nat /\ X[3] \in Nat
    OBVIOUS
  <2>6. V[0] = 0 /\ V[1] \in Nat /\ V[2] \in Nat /\ V[3] \in Nat
    BY <1>9
  <2>7. m = 0 => V[m] <= 0
    BY <2>6
  <2>8. m = 1 => V[m] <= 15
    BY <1>11, <2>1, <2>5
  <2>9. /\ V[1] = X[0] /\ V[2] = Shifted(V[1], X[1])
        /\ V[3] = Shifted(V[2], X[2]) /\ V[4] = Shifted(V[3], X[3])
    BY <1>11 DEF Shifted
  <2>10. X[0] <= 15 => V[1] <= 15
    BY <2>9
  <2>11. X[0] <= 15 /\ X[1] <= 15 => V[2] <= 255
    BY <2>5, <2>6, <2>9, <2>10, ShiftedIs
  <2>12. X[0] <= 15 /\ X[1] <= 15 /\ X[2] <= 15 => V[3] <= 4095
    BY <2>5, <2>6, <2>9, <2>11, ShiftedIs
  <2>13. X[0] <= 15 /\ X[1] <= 15 /\ X[2] <= 15 /\ X[3] <= 15 => V[4] <= 65535
    BY <2>5, <2>6, <2>9, <2>12, ShiftedIs
  <2> QED BY <2>2, <2>3, <2>4, <2>7, <2>8, <2>11, <2>12, <2>13
<1>13. v(m) = V[m] /\ V[m] \in Nat
  BY <1>2, <1>7
<1>14. HexValue(s, i, n) = V[m]
  BY <1>3, <1>13
<1>15. m \in 0 .. n
  BY <1>2
<1>16. Within(HexValue(s, i, n), m)
  BY <1>12, <1>13, <1>14 DEF Within
<1> QED BY <1>6, <1>15, <1>16

\* A word is as long as its keyword or not there.
LEMMA MatchIs ==
    ASSUME NEW s \in Seq(Bytes), NEW S, NEW keyword \in Seq(S)
    PROVE  MatchKeyword(s, keyword) \in Bad .. Len(s)
<1> DEFINE C == Bytes \cup S
<1>1. s \in Seq(C) /\ keyword \in Seq(C)
  OBVIOUS
<1> HIDE DEF C
<1>2. IsPrefix(keyword, s) => Len(keyword) <= Len(s)
  BY <1>1, PrefixIs
<1>3. Len(keyword) \in Nat /\ Len(s) \in Nat
  OBVIOUS
<1> QED BY <1>2, <1>3 DEF MatchKeyword, Cut, Bad

\* What they consist of.
Letters == {"t", "r", "u", "e", "f", "a", "l", "s", "n", "I", "i", "y", "N"}

LEMMA WordIs ==
    /\ True \in Seq({Ord[c] : c \in Letters}) /\ False \in Seq({Ord[c] : c \in Letters})
    /\ Null \in Seq({Ord[c] : c \in Letters})
    /\ Infinity \in Seq({Ord[c] : c \in Letters}) /\ NaN \in Seq({Ord[c] : c \in Letters})
<1>1. \A chars \in Seq(Letters) : Text(chars) \in Seq({Ord[c] : c \in Letters})
  <2> TAKE chars \in Seq(Letters)
  <2>1. DOMAIN chars = 1 .. Len(chars) /\ Len(chars) \in Nat /\ \A i \in DOMAIN chars : chars[i] \in Letters
    OBVIOUS
  <2>2. \A i \in DOMAIN chars : Ord[chars[i]] \in {Ord[c] : c \in Letters}
    BY <2>1
  <2> QED BY <2>1, <2>2 DEF Text
<1>2. True \in Seq({Ord[c] : c \in Letters})
  <2>1. <<"t", "r", "u", "e">> \in Seq(Letters)
    BY DEF Letters
  <2> QED BY <1>1, <2>1 DEF True
<1>3. False \in Seq({Ord[c] : c \in Letters})
  <2>1. <<"f", "a", "l", "s", "e">> \in Seq(Letters)
    BY DEF Letters
  <2> QED BY <1>1, <2>1 DEF False
<1>4. Null \in Seq({Ord[c] : c \in Letters})
  <2>1. <<"n", "u", "l", "l">> \in Seq(Letters)
    BY DEF Letters
  <2> QED BY <1>1, <2>1 DEF Null
<1>5. Infinity \in Seq({Ord[c] : c \in Letters})
  <2>1. <<"I", "n", "f", "i", "n", "i", "t", "y">> \in Seq(Letters)
    BY DEF Letters
  <2> QED BY <1>1, <2>1 DEF Infinity
<1>6. NaN \in Seq({Ord[c] : c \in Letters})
  <2>1. <<"N", "a", "N">> \in Seq(Letters)
    BY DEF Letters
  <2> QED BY <1>1, <2>1 DEF NaN
<1> QED BY <1>2, <1>3, <1>4, <1>5, <1>6

LEMMA WordTyped ==
    ASSUME NEW s \in Seq(Bytes)
    PROVE  IsScan(ParseWord(s), Len(s))
<1> DEFINE m(w) == MatchKeyword(s, w)
<1>1. m(True) \in Bad .. Len(s) /\ m(False) \in Bad .. Len(s) /\ m(Null) \in Bad .. Len(s)
  <2>1. MatchKeyword(s, True) \in Bad .. Len(s)
    BY WordIs, MatchIs
  <2>2. MatchKeyword(s, False) \in Bad .. Len(s)
    BY WordIs, MatchIs
  <2>3. MatchKeyword(s, Null) \in Bad .. Len(s)
    BY WordIs, MatchIs
  <2> QED BY <2>1, <2>2, <2>3
<1>2. \/ ParseWord(s) = Scanned(m(True), "bool", <<1>>)
      \/ ParseWord(s) = Scanned(m(False), "bool", <<0>>)
      \/ ParseWord(s) = Scanned(m(Null), "null", <<>>)
      \/ ParseWord(s) = NoLexeme
  BY DEF ParseWord
<1>3. IsScan(NoLexeme, Len(s))
  BY NoVerdict
<1>4. <<1>> \in Seq(Bytes) /\ <<0>> \in Seq(Bytes) /\ <<>> \in Seq(Bytes)
  BY DEF Bytes
<1>5. \A k \in Bad .. Len(s) : /\ IsScan(Scanned(k, "bool", <<1>>), Len(s))
                               /\ IsScan(Scanned(k, "bool", <<0>>), Len(s))
                               /\ IsScan(Scanned(k, "null", <<>>), Len(s))
  BY <1>4 DEF IsScan, Scanned
<1> QED BY <1>1, <1>2, <1>3, <1>5

\* A number ends in front of what ends it.
LEMMA EndedTyped ==
    ASSUME NEW s \in Seq(Bytes), NEW end \in 1 .. Len(s) + 1,
           NEW type \in {"integer", "float"},
           NEW value \in Seq(IF type = "integer" THEN WordRange ELSE Bytes)
    PROVE  IsScan(Ended(s, end, type, value), Len(s))
<1>1. Len(s) \in Nat
  OBVIOUS
<1>2. \/ Ended(s, end, type, value) = NotYet
      \/ Ended(s, end, type, value) = Scanned(end - 1, type, value)
      \/ Ended(s, end, type, value) = NoLexeme
  BY DEF Ended
<1>3. IsScan(NotYet, Len(s)) /\ IsScan(NoLexeme, Len(s))
  BY <1>1, NoVerdict
<1>4. IsScan(Scanned(end - 1, type, value), Len(s))
  <2>1. end - 1 \in Bad .. Len(s)
    BY <1>1 DEF Bad
  <2> DEFINE V == Seq(IF type = "integer" THEN WordRange ELSE Bytes)
  <2> HIDE DEF V
  <2> QED BY <2>1 DEF IsScan, Scanned, V
<1> QED BY <1>2, <1>3, <1>4

LEMMA DotIs == Ord["."] # 0
<1>1. Ord["."] \in 42 .. 125
  BY OrdIs
<1> QED BY <1>1

LEMMA StrtodIs ==
    ASSUME NEW s \in Seq(Bytes), s # <<>>
    PROVE  StrtodEnd(s) \in 1 .. Len(s) + 1
<1> DEFINE first == IF ByteAt(s, 1) \in {Ord["+"], Ord["-"]} THEN 2 ELSE 1
           int   == SkipOver(s, first, Digits)
           frac  == IF ByteAt(s, int) = Ord["."] THEN SkipOver(s, int + 1, Digits) ELSE int
           some  == int > first \/ frac > int + 1
           power == IF ByteAt(s, frac + 1) \in {Ord["+"], Ord["-"]} THEN frac + 2 ELSE frac + 1
<1>1. Len(s) \in Nat \ {0} /\ 0 \notin Digits
  BY DEF Digits
<1>2. \A i \in 1 .. Len(s) + 1 : SkipOver(s, i, Digits) \in i .. Len(s) + 1
  BY <1>1, SkipIs
<1>3. first \in 1 .. Len(s) + 1
  BY <1>1
<1> HIDE DEF first
<1>4. int \in 1 .. Len(s) + 1
  BY <1>1, <1>2, <1>3
<1> HIDE DEF int
<1>5. frac \in 1 .. Len(s) + 1
  <2>1. CASE ByteAt(s, int) = Ord["."]
    <3>1. int \in 1 .. Len(s)
      <4>1. ByteAt(s, int) # 0
        BY <2>1, DotIs
      <4> QED BY <4>1, ByteIs
    <3>2. int + 1 \in 1 .. Len(s) + 1
      BY <1>1, <3>1
    <3>3. frac = SkipOver(s, int + 1, Digits)
      BY <2>1
    <3> HIDE DEF frac
    <3> QED BY <1>1, <1>2, <3>2, <3>3
  <2>2. CASE ByteAt(s, int) # Ord["."]
    BY <1>4, <2>2
  <2> QED BY <2>1, <2>2
<1> HIDE DEF frac
<1>6. ByteAt(s, power) \in Digits => SkipOver(s, power, Digits) \in 1 .. Len(s) + 1
  <2> HIDE DEF power
  <2> SUFFICES ASSUME ByteAt(s, power) \in Digits
               PROVE  SkipOver(s, power, Digits) \in 1 .. Len(s) + 1
    OBVIOUS
  <2>1. power \in 1 .. Len(s)
    BY <1>1, ByteIs
  <2>2. power \in 1 .. Len(s) + 1
    BY <1>1, <2>1
  <2>3. SkipOver(s, power, Digits) \in power .. Len(s) + 1
    BY <1>2, <2>2
  <2> QED BY <1>1, <2>2, <2>3
<1>7. \/ StrtodEnd(s) = 1
      \/ ByteAt(s, power) \in Digits /\ StrtodEnd(s) = SkipOver(s, power, Digits)
      \/ StrtodEnd(s) = frac
  BY Zenon DEF StrtodEnd, power, frac, int, first
<1> HIDE DEF power
<1> QED BY <1>1, <1>5, <1>6, <1>7

LEMMA FloatTyped ==
    ASSUME NEW s \in Seq(Bytes), s # <<>>, NEW point
    PROVE  IsScan(ParseFloat(s, point), Len(s))
<1>1. IsScan(Ended(s, StrtodEnd(s), "float", <<>>), Len(s))
  <2>1. StrtodEnd(s) \in 1 .. Len(s) + 1
    BY StrtodIs
  <2>2. <<>> \in Seq(IF "float" = "integer" THEN WordRange ELSE Bytes)
    OBVIOUS
  <2>3. "float" \in {"integer", "float"}
    OBVIOUS
  <2> QED BY <2>1, <2>2, <2>3, EndedTyped
<1>2. Len(s) \in Nat
  OBVIOUS
<1>3. ParseFloat(s, point) \in {NotYet, Ended(s, StrtodEnd(s), "float", <<>>)}
  BY Zenon DEF ParseFloat
<1> QED BY <1>1, <1>2, <1>3, NoVerdict

LEMMA IntegerIs ==
    ASSUME NEW magnitude \in Nat, NEW isMinus
    PROVE  /\ Integer(magnitude, isMinus).type \in {"integer", "float"}
           /\ Integer(magnitude, isMinus).value
                 \in Seq(IF Integer(magnitude, isMinus).type = "integer" THEN WordRange ELSE Bytes)
<1> DEFINE v == IF isMinus THEN -magnitude ELSE Signed(magnitude)
           i == Integer(magnitude, isMinus)
<1>1. IntMax \in Nat
  BY WordAssumption
<1>2. CASE magnitude > IF isMinus THEN IntMax + 1 ELSE UIntMax
  <2>1. i = [type |-> "float", value |-> <<>>]
    BY <1>2 DEF Integer
  <2>2. i.type = "float" /\ i.value = <<>>
    BY <2>1
  <2> HIDE DEF i
  <2>3. <<>> \in Seq(IF i.type = "integer" THEN WordRange ELSE Bytes) 
    OBVIOUS
  <2> QED BY <2>2, <2>3 DEF i
<1>3. CASE ~(magnitude > IF isMinus THEN IntMax + 1 ELSE UIntMax)
  <2>1. i = [type |-> "integer", value |-> <<v>>]
    BY <1>3 DEF Integer
  <2>2. v \in WordRange
    BY <1>1, <1>3 DEF WordRange, Signed, UIntMax
  <2> HIDE DEF v
  <2>3. i.type = "integer" /\ i.value = <<v>>
    BY <2>1
  <2>4. <<v>> \in Seq(WordRange)
    BY <2>2
  <2> HIDE DEF i
  <2>5. i.value \in Seq(IF i.type = "integer" THEN WordRange ELSE Bytes)
    BY <2>3, <2>4
  <2> QED BY <2>3, <2>5 DEF i
<1> QED BY <1>2, <1>3

LEMMA ParsedIntegerTyped ==
    ASSUME NEW s \in Seq(Bytes), NEW first \in 1 .. Len(s) + 1, NEW base \in {10, 16},
           NEW isMinus, base = 16 => first <= Len(s)
    PROVE  IsScan(ParseInteger(s, first, base, isMinus), Len(s))
<1> DEFINE end == StrtollEnd(s, first, base)
           m == Magnitude(s, first, end, base)
           i == Integer(m, isMinus)
<1>1. Len(s) \in Nat
  OBVIOUS
<1>2. /\ end \in first .. Len(s) + 1
  <2>1. CASE base = 10
    <3>1. end = SkipOver(s, first, 48 .. 57)
      BY <2>1 DEF StrtollEnd
    <3> HIDE DEF end
    <3>2. 0 \notin 48 .. 57
      OBVIOUS
    <3> QED BY <3>1, <3>2, SkipIs
  <2>2. CASE base = 16
    <3>1. end = IF ByteAt(s, first + 2) \in HexDigits THEN SkipOver(s, first + 2, HexDigits)
                ELSE first + 1
      BY <2>2 DEF StrtollEnd
    <3> HIDE DEF end
    <3>2. CASE ByteAt(s, first + 2) \in HexDigits
      <4>1. 0 \notin HexDigits
        BY DEF HexDigits, Digits
      <4>2. ByteAt(s, first + 2) # 0
        BY <3>2, <4>1
      <4>3. first + 2 \in 1 .. Len(s)
        BY <4>2, ByteIs
      <4>4. first + 2 \in 1 .. Len(s) + 1
        BY <1>1, <4>3
      <4>5. SkipOver(s, first + 2, HexDigits) \in first + 2 .. Len(s) + 1
        BY <4>1, <4>4, SkipIs
      <4>6. end = SkipOver(s, first + 2, HexDigits)
        BY <3>1, <3>2
      <4> QED BY <1>1, <4>5, <4>6
    <3>3. CASE ByteAt(s, first + 2) \notin HexDigits
      BY <1>1, <2>2, <3>1, <3>3
    <3> QED BY <3>2, <3>3
  <2> QED BY <2>1, <2>2
<1> HIDE DEF end
<1>3. m \in Nat
  <2> DEFINE from == IF base = 16 /\ end > first + 1 THEN first + 2 ELSE first
  <2>1. from \in Nat /\ end - from \in Nat /\ base \in Nat
    BY <1>1, <1>2
  <2>2. m = ValueOf(s, from, end - from, base)
    BY DEF Magnitude
  <2> HIDE DEF from, m
  <2> QED BY <2>1, <2>2, ValueIs
<1>4. /\ i.type \in {"integer", "float"}
      /\ i.value \in Seq(IF i.type = "integer" THEN WordRange ELSE Bytes)
  BY <1>3, IntegerIs
<1> HIDE DEF i
<1>5. IsScan(Ended(s, end, i.type, i.value), Len(s))
  <2>1. end \in 1 .. Len(s) + 1
    BY <1>1, <1>2
  <2> QED BY <1>4, <2>1, EndedTyped
<1>6. ParseInteger(s, first, base, isMinus) = Ended(s, end, i.type, i.value)
  BY DEF ParseInteger, i, m, end
<1> QED BY <1>5, <1>6

LEMMA ExtendedTyped ==
    ASSUME NEW s \in Seq(Bytes), NEW i \in 1 .. Len(s)
    PROVE  IsScan(ParseExtended(s, i), Len(s))
<1> DEFINE rest == SubSeq(s, i, Len(s))
           x == MatchKeyword(rest, Infinity)
           y == MatchKeyword(rest, NaN)
           match == IF x # Bad THEN x ELSE y
<1>1. Len(s) \in Nat
  OBVIOUS
<1>2. rest \in Seq(Bytes) /\ Len(rest) = Len(s) - i + 1
  BY <1>1, SubSeqProperties
<1> HIDE DEF rest
<1>3. x \in Bad .. Len(rest) /\ y \in Bad .. Len(rest)
  BY <1>2, WordIs, MatchIs
<1>4. ParseExtended(s, i) = IF match > 0 THEN Scanned(i - 1 + match, "float", <<>>)
                            ELSE Scanned(match, "none", <<>>)
  BY DEF ParseExtended, rest
<1>5. match \in Bad .. Len(rest)
  BY <1>3
<1> HIDE DEF match
<1>6. <<>> \in Seq(Bytes)
  OBVIOUS
<1>7. match > 0 => i - 1 + match \in Bad .. Len(s)
  BY <1>1, <1>2, <1>5 DEF Bad
<1>8. match \in Bad .. Len(s)
  BY <1>1, <1>2, <1>5 DEF Bad
<1>9. \A n \in Bad .. Len(s) : IsScan(Scanned(n, "float", <<>>), Len(s))
                               /\ IsScan(Scanned(n, "none", <<>>), Len(s))
  BY <1>6 DEF IsScan, Scanned
<1> QED BY <1>4, <1>7, <1>8, <1>9

LEMMA NumberTyped ==
    ASSUME NEW s \in Seq(Bytes), s # <<>>, NEW d
    PROVE  IsScan(ParseNumber(s, d), Len(s))
<1> DEFINE isMinus == s[1] = Ord["-"]
           first == IF isMinus \/ (s[1] = Ord["+"] /\ HasExtNum(d)) THEN 2 ELSE 1
           next  == IF ByteAt(s, first) = Ord["0"] THEN first + 1 ELSE SkipOver(s, first, Digits)
           c     == ByteAt(s, next)
           isHex == HasExtNum(d) /\ next = first + 1 /\ s[first] = Ord["0"] /\ c = Ord["x"]
<1>1. Len(s) \in Nat \ {0}
  OBVIOUS
<1>2. first \in 1 .. Len(s) + 1
  BY <1>1
<1>3. next = first => first \in 1 .. Len(s) \/ c = 0
  BY ByteIs
<1>4. next = first + 1 => first \in 1 .. Len(s) \/ c = 0
  <2> HIDE DEF first, next
  <2>1. c # 0 => next \in 1 .. Len(s)
    BY ByteIs
  <2> HIDE DEF c
  <2> QED BY <1>1, <1>2, <2>1
<1>5. \/ ParseNumber(s, d) \in {NotYet, NoLexeme}
      \/ next = first /\ c # 0 /\ ParseNumber(s, d) = ParseExtended(s, first)
      \/ next = first + 1 /\ c # 0 /\ ParseNumber(s, d) = ParseInteger(s, first, 16, isMinus)
      \/ ParseNumber(s, d) = ParseFloat(s, next)
      \/ ParseNumber(s, d) = ParseInteger(s, first, 10, isMinus)
  BY Zenon DEF ParseNumber
<1> HIDE DEF c, next, first, isMinus
<1>6. CASE ParseNumber(s, d) \in {NotYet, NoLexeme}
  BY <1>1, <1>6, NoVerdict
<1>7. CASE next = first /\ c # 0 /\ ParseNumber(s, d) = ParseExtended(s, first)
  BY <1>3, <1>7, ExtendedTyped
<1>8. CASE next = first + 1 /\ c # 0 /\ ParseNumber(s, d) = ParseInteger(s, first, 16, isMinus)
  <2>1. first \in 1 .. Len(s) /\ 16 \in {10, 16} /\ first <= Len(s)
    BY <1>1, <1>4, <1>8
  <2> QED BY <1>2, <1>8, <2>1, ParsedIntegerTyped
<1>9. CASE ParseNumber(s, d) = ParseFloat(s, next)
  BY <1>9, FloatTyped
<1>10. CASE ParseNumber(s, d) = ParseInteger(s, first, 10, isMinus)
  <2>1. 10 \in {10, 16} /\ 10 # 16
    OBVIOUS
  <2> QED BY <1>2, <1>10, <2>1, ParsedIntegerTyped
<1> QED BY <1>5, <1>6, <1>7, <1>8, <1>9, <1>10

LEMMA CommentTyped ==
    ASSUME NEW s \in Seq(Bytes)
    PROVE  DetermineComment(s) \in Bad .. Len(s)
<1> DEFINE closes == {i \in 2 .. Len(s) - 1 : s[i] = Ord["*"] /\ s[i + 1] = Ord["/"]}
           breaks == {i \in 2 .. Len(s) : s[i] \in {CR, LF}}
<1>1. Len(s) \in Nat
  OBVIOUS
<1>2. closes # {} => Min(closes) \in 2 .. Len(s) - 1
  <2>1. closes \in SUBSET Nat /\ closes \subseteq 2 .. Len(s) - 1
    BY <1>1
  <2> HIDE DEF closes
  <2> QED BY <2>1, MinIs
<1>3. breaks # {} => Min(breaks) \in 2 .. Len(s)
  <2>1. breaks \in SUBSET Nat /\ breaks \subseteq 2 .. Len(s)
    BY <1>1
  <2> HIDE DEF breaks
  <2> QED BY <2>1, MinIs
<1>4. \/ DetermineComment(s) \in {Cut, Bad}
      \/ closes # {} /\ DetermineComment(s) = Min(closes) + 1
      \/ breaks # {} /\ DetermineComment(s) = Min(breaks) - 1
  BY DEF DetermineComment
<1> HIDE DEF closes, breaks
<1> QED BY <1>1, <1>2, <1>3, <1>4 DEF Cut, Bad

-----------------------------------------------------------------------------
(* Bare names. *)

\* A character is malformed or takes at least a byte.
LEMMA LoadIs ==
    ASSUME NEW s \in Seq(Bytes), NEW i
    PROVE  /\ StrToUnicode(s, i) # Malformed => StrToUnicode(s, i).len \in 1 .. 6
           /\ StrToUnicode(s, i) = Malformed => i \in 1 .. Len(s)
<1> DEFINE b == ByteAt(s, i)
           n == Announced(b)
           ends == {k \in 1 .. n - 1 : ~IsContinuation(ByteAt(s, i + k))}
           stop == CHOOSE k \in ends : \A l \in ends : k <= l
           load == StrToUnicode(s, i)
<1>1. n \in 0 .. 6
  BY DEF Announced
<1>2. b \in Bytes /\ (b # 0 => i \in 1 .. Len(s))
  BY ByteIs
<1>3. b = 0 => n = 1
  BY DEF Announced
<1> HIDE DEF b, n
<1>4. ends # {} => stop \in 1 .. 6
  <2> SUFFICES ASSUME ends # {} PROVE stop \in 1 .. 6
    OBVIOUS
  <2>1. ends \subseteq Nat /\ ends \subseteq 1 .. 6
    BY <1>1
  <2> HIDE DEF ends
  <2>2. PICK k \in ends : \A l \in ends : k <= l
    BY <2>1, Least
  <2>3. stop \in ends
    BY <2>2
  <2> HIDE DEF stop
  <2> QED BY <2>1, <2>3
<1>5. n = 1 => load = [len |-> 1, code |-> b]
  BY DEF StrToUnicode, n, b
<1>6. \/ load = Malformed
      \/ n = 1 /\ load = [len |-> 1, code |-> b]
      \/ ends # {} /\ load = [len |-> stop, code |-> CodeOf(s, i, stop)]
      \/ n > 1 /\ load = [len |-> n, code |-> CodeOf(s, i, n)]
  <2>1. n = 0 \/ n = 1 \/ (n > 1 /\ ends # {}) \/ (n > 1 /\ ends = {})
    BY <1>1
  <2>2. CASE n = 0
    BY <2>2 DEF StrToUnicode, n, b
  <2>3. CASE n > 1 /\ ends # {}
    <3>1. load = IF ByteAt(s, i + stop) = 0
                 THEN [len |-> stop, code |-> CodeOf(s, i, stop)] ELSE Malformed
      <4>1. n # 0 /\ n # 1 /\ n > 1 /\ ends # {}
        BY <1>1, <2>3
      <4> QED BY <4>1, Zenon DEF StrToUnicode, n, b
    <3> HIDE DEF load, stop, ends
    <3> QED BY <2>3, <3>1
  <2>4. CASE n > 1 /\ ends = {}
    BY <1>1, <2>4 DEF StrToUnicode, n, b
  <2> QED BY <1>5, <2>1, <2>2, <2>3, <2>4
<1> HIDE DEF ends, stop, load
<1>7. load # Malformed => load.len \in 1 .. 6
  BY <1>1, <1>4, <1>6
<1>8. load = Malformed => n # 1
  BY <1>5 DEF Malformed
<1> QED BY <1>2, <1>3, <1>7, <1>8 DEF load

LEMMA IdentTurnIs ==
    ASSUME NEW s \in Seq(Bytes), NEW q \in ScanState
    PROVE  /\ \A r \in IdentTurn(s, q) : r \in ScanState /\ r.at > q.at /\ q.at <= Len(s)
           /\ IdentVerdict(s, q) \in Bad .. Len(s)
<1> DEFINE load == StrToUnicode(s, q.at)
           next == [q EXCEPT !.at = @ + load.len]
           hexed == [next EXCEPT !.hexa = @ - 1]
           coded == [next EXCEPT !.hexa = 4, !.esc = FALSE]
           plain(e) == [next EXCEPT !.esc = e]
<1>1. /\ q.at \in Nat /\ q.hexa \in 0 .. 4 /\ q.esc \in BOOLEAN /\ Len(s) \in Nat
      /\ load # Malformed => load.len \in 1 .. 6
      /\ load = Malformed => q.at \in 1 .. Len(s)
      /\ ByteAt(s, q.at + load.len) # 0 => q.at + load.len \in 1 .. Len(s)
  BY LoadIs, ByteIs DEF ScanState
<1>n. next.at = q.at + load.len
  BY DEF ScanState
<1>2. ASSUME load # Malformed, NEW e \in BOOLEAN
      PROVE  /\ next \in ScanState /\ next.hexa = q.hexa
             /\ plain(e) \in ScanState /\ plain(e).at = q.at + load.len
             /\ coded \in ScanState /\ coded.at = q.at + load.len
  <2> DEFINE k == q.at + load.len
  <2>1. k \in Nat
    BY <1>1, <1>2
  <2> HIDE DEF load
  <2>2. next \in ScanState /\ next.hexa = q.hexa /\ next.at = k
    <3> HIDE DEF k
    <3>1. [q EXCEPT !.at = k] \in ScanState /\ [q EXCEPT !.at = k].hexa = q.hexa
          /\ [q EXCEPT !.at = k].at = k
      BY <2>1 DEF ScanState
    <3> QED BY <3>1 DEF k
  <2> HIDE DEF next, k
  <2>3. plain(e) \in ScanState /\ plain(e).at = k
    BY <2>2, <1>2 DEF ScanState
  <2>4. coded \in ScanState /\ coded.at = k
    <3>1. PICK x : x = [next EXCEPT !.hexa = 4]
      OBVIOUS
    <3>2. x \in ScanState /\ x.at = k
      BY <2>2, <3>1 DEF ScanState
    <3>3. coded = [x EXCEPT !.esc = FALSE]
      BY <3>1
    <3> HIDE DEF coded
    <3> QED BY <3>2, <3>3 DEF ScanState
  <2> QED BY <2>2, <2>3, <2>4 DEF k
<1>3. ASSUME load # Malformed, q.hexa > 0
      PROVE  hexed \in ScanState /\ hexed.at = q.at + load.len
  <2>1. next \in ScanState /\ next.hexa = q.hexa
    BY <1>2, <1>3
  <2> HIDE DEF next
  <2>2. next.hexa - 1 \in 0 .. 4
    BY <1>1, <1>3, <2>1
  <2>3. hexed \in ScanState /\ hexed.at = next.at
    BY <2>1, <2>2 DEF ScanState
  <2> QED BY <1>n, <2>3
<1>4. ASSUME NEW r \in IdentTurn(s, q)
      PROVE  /\ load # Malformed /\ ByteAt(s, next.at) # 0
             /\ \/ q.hexa > 0 /\ r = hexed
                \/ r = coded \/ r = plain(TRUE) \/ r = plain(FALSE)
  <2> DEFINE is(S) == load.len = 1 /\ load.code \in S
             e == is({Backslash})
  <2>1. /\ load # Malformed /\ ByteAt(s, next.at) # 0
        /\ \/ q.hexa > 0 /\ r = hexed
           \/ r = coded \/ r = plain(e)
    BY DEF IdentTurn
  <2>2. e = TRUE \/ e = FALSE
    OBVIOUS
  <2> HIDE DEF e, plain, hexed, coded, load, next
  <2> QED BY <2>1, <2>2, Zenon
<1>5. ASSUME NEW r \in IdentTurn(s, q) PROVE r \in ScanState /\ r.at > q.at /\ q.at <= Len(s)
  <2>1. r \in ScanState /\ r.at = q.at + load.len
    <3> HIDE DEF hexed, plain, coded, load, next
    <3> QED BY <1>2, <1>3, <1>4
  <2>2. q.at + load.len \in 1 .. Len(s) /\ load.len \in 1 .. 6
    <3>1. load # Malformed /\ ByteAt(s, q.at + load.len) # 0
      BY <1>4, <1>n
    <3> HIDE DEF load
    <3> QED BY <1>1, <3>1
  <2> HIDE DEF load
  <2> QED BY <1>1, <2>1, <2>2
<1>6. \/ load = Malformed /\ IdentVerdict(s, q) = q.at - 1
      \/ IdentVerdict(s, q) \in {Cut, Bad}
      \/ load # Malformed /\ ByteAt(s, q.at + load.len) # 0 /\ IdentVerdict(s, q) = q.at - 1
  BY Zenon DEF IdentVerdict
<1>7. IdentVerdict(s, q) \in Bad .. Len(s)
  <2> HIDE DEF load
  <2> QED BY <1>1, <1>6 DEF Cut, Bad
<1> QED BY <1>5, <1>7

\* determine_e5ident_ as a loop.
LEMMA IdentScans ==
    ASSUME NEW s \in Seq(Bytes)
    PROVE  /\ [turn |-> [q \in ScanState |-> IdentTurn(s, q)],
               verdict |-> [q \in ScanState |-> IdentVerdict(s, q)]] \in Scans(Len(s), Bad .. Len(s))
           /\ \E F \in [ScanState -> Bad .. Len(s)] :
                 /\ \A q \in ScanState : F[q] = IF IdentTurn(s, q) = {} THEN IdentVerdict(s, q)
                                                ELSE F[Only(IdentTurn(s, q))]
                 /\ DetermineIdent(s) = F[[at |-> 1, hexa |-> 0, esc |-> FALSE]]
<1> DEFINE S == Bad .. Len(s)
           l == [turn |-> [q \in ScanState |-> IdentTurn(s, q)],
                 verdict |-> [q \in ScanState |-> IdentVerdict(s, q)]]
           Body(f) == [q \in ScanState |->
               IF IdentTurn(s, q) = {} THEN IdentVerdict(s, q) ELSE f[Only(IdentTurn(s, q))]]
           F == CHOOSE f : f = [q \in ScanState |->
                   IF IdentTurn(s, q) = {} THEN IdentVerdict(s, q) ELSE f[Only(IdentTurn(s, q))]]
<1>1. \A q \in ScanState : /\ \A r \in IdentTurn(s, q) : r \in ScanState /\ r.at > q.at /\ q.at <= Len(s)
                           /\ IdentVerdict(s, q) \in S
  BY IdentTurnIs
<1>2. l \in Scans(Len(s), S)
  <2>1. /\ l.turn \in [ScanState -> SUBSET ScanState] /\ l.verdict \in [ScanState -> S]
        /\ \A q \in ScanState : l.turn[q] = IdentTurn(s, q)
    BY <1>1
  <2> QED BY <1>1, <2>1 DEF Scans
<1>3. \A q \in ScanState : l.turn[q] = IdentTurn(s, q) /\ l.verdict[q] = IdentVerdict(s, q)
  OBVIOUS
<1> HIDE DEF l, S
<1>4. /\ \E f : f = [q \in ScanState |->
             IF l.turn[q] = {} THEN l.verdict[q] ELSE f[Only(l.turn[q])]]
      /\ \A f : f = [q \in ScanState |->
                    IF l.turn[q] = {} THEN l.verdict[q] ELSE f[Only(l.turn[q])]]
                => f \in [ScanState -> S]
  <2>1. Len(s) \in Nat
    OBVIOUS
  <2> QED BY <1>2, <2>1, ScanTyped
<1>5. \A f : [q \in ScanState |-> IF l.turn[q] = {} THEN l.verdict[q] ELSE f[Only(l.turn[q])]]
             = Body(f)
  BY <1>3
<1>6. (\E f : f = Body(f)) /\ \A f : f = Body(f) => f \in [ScanState -> S]
  <2> HIDE DEF Body
  <2> QED BY <1>4, <1>5
<1>7. F = Body(F)
  BY <1>6
<1>8. DetermineIdent(s) = F[[at |-> 1, hexa |-> 0, esc |-> FALSE]]
  BY DEF DetermineIdent, F
<1> HIDE DEF F
<1>9. F \in [ScanState -> S]
  BY <1>6, <1>7
<1>10. \A q \in ScanState : F[q] = IF IdentTurn(s, q) = {} THEN IdentVerdict(s, q)
                                   ELSE F[Only(IdentTurn(s, q))]
  BY <1>7
<1> QED BY <1>2, <1>8, <1>9, <1>10 DEF S, l

\* A name ends in the text.
LEMMA IdentEnds ==
    ASSUME NEW s \in Seq(Bytes)
    PROVE  DetermineIdent(s) \in Bad .. Len(s)
<1>1. [at |-> 1, hexa |-> 0, esc |-> FALSE] \in ScanState
  BY DEF ScanState
<1>2. PICK F \in [ScanState -> Bad .. Len(s)] :
        DetermineIdent(s) = F[[at |-> 1, hexa |-> 0, esc |-> FALSE]]
  BY IdentScans
<1> QED BY <1>1, <1>2

-----------------------------------------------------------------------------
(* Decoding in place. *)

\* How many bytes the code takes, at most.
Width(code) == IF code <= 127 THEN 1 ELSE IF code <= 2047 THEN 2 ELSE IF code <= 65535 THEN 3 ELSE 4

Codes == {code \in Nat : code <= 1114111}

LEMMA EncodeIs ==
    ASSUME NEW code \in Codes
    PROVE  /\ Encode(code) \in Seq(Bytes) /\ Len(Encode(code)) \in Nat
           /\ Len(Encode(code)) <= Width(code)
<1>0. code \in Nat /\ code <= 1114111
  BY SMT DEF Codes
<1> DEFINE c(unit) == Continuation(code, unit)
<1>1. c(1) \in Bytes /\ c(64) \in Bytes /\ c(4096) \in Bytes
  BY <1>0, SMT DEF Continuation, Bytes
<1>2. CASE code < 128
  <2>1. Encode(code) = <<code>> /\ code \in Bytes
    BY <1>0, <1>2, SMT DEF Encode, Bytes
  <2>2. Width(code) = 1
    BY <1>0, <1>2, SMT DEF Width
  <2>3. <<code>> \in Seq(Bytes) /\ Len(<<code>>) = 1
    BY <2>1, SMT
  <2> QED BY <2>1, <2>2, <2>3, SMT
<1>3. CASE code >= 128 /\ code < 2048
  <2> DEFINE h == 192 + code \div 64
  <2>1. Encode(code) = <<h, c(1)>>
    BY <1>0, <1>3, SMT DEF Encode
  <2>2. h \in Bytes
    BY <1>0, <1>3, SMT DEF Bytes
  <2> HIDE DEF h, c
  <2>3. <<h, c(1)>> \in Seq(Bytes) /\ Len(<<h, c(1)>>) = 2
    BY <1>1, <2>2, SMT
  <2>4. Width(code) = 2
    BY <1>0, <1>3, SMT DEF Width
  <2> QED BY <2>1, <2>3, <2>4, SMT
<1>4. CASE code >= 2048 /\ code < 65536
  <2> DEFINE h == 224 + code \div 4096
  <2>1. Encode(code) = <<h, c(64), c(1)>>
    BY <1>0, <1>4, SMT DEF Encode
  <2>2. h \in Bytes
    BY <1>0, <1>4, SMT DEF Bytes
  <2> HIDE DEF h, c
  <2>3. <<h, c(64), c(1)>> \in Seq(Bytes) /\ Len(<<h, c(64), c(1)>>) = 3
    BY <1>1, <2>2, SMT
  <2>4. Width(code) = 3
    BY <1>0, <1>4, SMT DEF Width
  <2> QED BY <2>1, <2>3, <2>4, SMT
<1>5. CASE code >= 65536
  <2> DEFINE h == 240 + code \div 262144
  <2>1. Encode(code) = <<h, c(4096), c(64), c(1)>>
    BY <1>0, <1>5, SMT DEF Encode
  <2>2. h \in Bytes
    BY <1>0, <1>5, SMT DEF Bytes
  <2> HIDE DEF h, c
  <2>3. <<h, c(4096), c(64), c(1)>> \in Seq(Bytes) /\ Len(<<h, c(4096), c(64), c(1)>>) = 4
    BY <1>1, <2>2, SMT
  <2>4. Width(code) = 4
    BY <1>0, <1>5, SMT DEF Width
  <2> QED BY <2>1, <2>3, <2>4, SMT
<1> QED BY <1>0, <1>2, <1>3, <1>4, <1>5, SMT

LEMMA CopyIs ==
    ASSUME NEW q \in DecodeState, NEW n \in Nat, NEW bytes \in Seq(Bytes), NEW esc \in BOOLEAN
    PROVE  LET r == Copy(q, n, bytes, esc)
           IN  /\ r \in DecodeState /\ r.src = q.src + n /\ r.dst = q.dst + Len(bytes)
               /\ r.esc = esc /\ r.ok = q.ok /\ Len(r.buf) = Len(q.buf)
               /\ ~q.ahead /\ q.dst + Len(bytes) <= q.src + n => ~r.ahead
<1> DEFINE buf == [i \in DOMAIN q.buf |-> IF i \in q.dst .. q.dst + Len(bytes) - 1
                                          THEN bytes[i - q.dst + 1] ELSE q.buf[i]]
           e == q.ahead \/ q.dst + Len(bytes) > q.src + n
           r(b) == [src |-> q.src + n, dst |-> q.dst + Len(bytes), esc |-> esc, hi |-> q.hi,
                    buf |-> buf, ahead |-> b, ok |-> q.ok]
<1>1. /\ q.src \in Nat /\ q.dst \in Nat /\ q.esc \in BOOLEAN /\ q.hi \in Pending
      /\ q.buf \in Seq(Bytes) /\ q.ahead \in BOOLEAN /\ q.ok \in BOOLEAN /\ Len(bytes) \in Nat
  BY DEF DecodeState
<1>2. buf \in Seq(Bytes) /\ Len(buf) = Len(q.buf)
  <2>1. DOMAIN q.buf = 1 .. Len(q.buf) /\ Len(q.buf) \in Nat /\ DOMAIN bytes = 1 .. Len(bytes)
    BY <1>1
  <2>2. \A i \in 1 .. Len(q.buf) :
           (IF i \in q.dst .. q.dst + Len(bytes) - 1 THEN bytes[i - q.dst + 1] ELSE q.buf[i]) \in Bytes
    <3> TAKE i \in 1 .. Len(q.buf)
    <3>1. CASE i \in q.dst .. q.dst + Len(bytes) - 1
      <4>1. i - q.dst + 1 \in 1 .. Len(bytes)
        BY <1>1, <2>1, <3>1
      <4> QED BY <2>1, <3>1, <4>1
    <3>2. CASE i \notin q.dst .. q.dst + Len(bytes) - 1
      BY <1>1, <3>2
    <3> QED BY <3>1, <3>2
  <2> QED BY <2>1, <2>2
<1> HIDE DEF buf
<1>3. \A b \in BOOLEAN : /\ r(b) \in DecodeState /\ r(b).src = q.src + n
                         /\ r(b).dst = q.dst + Len(bytes) /\ r(b).esc = esc /\ r(b).ok = q.ok
                         /\ r(b).buf = buf /\ r(b).ahead = b
  BY <1>1, <1>2 DEF DecodeState
<1>4. Copy(q, n, bytes, esc) = r(e)
  BY DEF Copy, buf
<1>5. e = TRUE \/ e = FALSE
  OBVIOUS
<1>6. ~q.ahead /\ q.dst + Len(bytes) <= q.src + n => e = FALSE
  BY <1>1
<1> HIDE DEF r, e
<1>7. e \in BOOLEAN
  BY <1>5
<1>8. Copy(q, n, bytes, esc).ahead = e
  BY <1>3, <1>4, <1>7
<1> QED BY <1>2, <1>3, <1>4, <1>6, <1>7, <1>8

\* What is left to read.
Unread(q) ==
    IF ~q.ok THEN 0 ELSE IF q.src <= Len(q.buf) THEN Len(q.buf) + 2 - q.src ELSE 1

\* The text that is written is behind the one that is read, an escape by a byte more.
Behind(q) ==
    /\ q.dst <= q.src /\ q.dst <= Len(q.buf) + 1
    /\ q.esc => q.dst < q.src
    /\ ~q.ahead

\* A step of a decoder.
Advances(q, r) ==
    /\ r \in DecodeState
    /\ Unread(r) < Unread(q)
    /\ Behind(q) => Behind(r)

LEMMA RefuseIs ==
    ASSUME NEW q \in DecodeState, q.ok
    PROVE  Advances(q, Refuse(q))
<1>1. /\ q.src \in Nat /\ q.dst \in Nat /\ Len(q.buf) \in Nat
  BY DEF DecodeState
<1> DEFINE r == Refuse(q)
<1>2. r \in DecodeState /\ ~r.ok /\ r.src = q.src /\ r.dst = q.dst /\ r.buf = q.buf
      /\ r.esc = q.esc /\ r.ahead = q.ahead
  BY DEF Refuse, DecodeState
<1> HIDE DEF r
<1>3. Unread(r) = 0 /\ Unread(q) > 0
  BY <1>1, <1>2 DEF Unread
<1>4. Behind(q) => Behind(r)
  BY <1>2 DEF Behind
<1> QED BY <1>2, <1>3, <1>4 DEF Advances, r

\* Reading n bytes and writing fewer, or in an escape no more.
LEMMA CopyAdvances ==
    ASSUME NEW q \in DecodeState, q.ok, q.src \in 1 .. Len(q.buf),
           NEW n \in Nat \ {0}, NEW bytes \in Seq(Bytes), NEW esc \in BOOLEAN,
           Behind(q) => /\ q.dst + Len(bytes) <= q.src + n
                        /\ q.dst + Len(bytes) <= Len(q.buf) + 1
                        /\ esc => q.dst + Len(bytes) < q.src + n
    PROVE  Advances(q, Copy(q, n, bytes, esc))
<1> DEFINE r == Copy(q, n, bytes, esc)
<1>1. /\ r \in DecodeState /\ r.src = q.src + n /\ r.dst = q.dst + Len(bytes)
      /\ r.esc = esc /\ r.ok = q.ok /\ Len(r.buf) = Len(q.buf)
      /\ ~q.ahead /\ q.dst + Len(bytes) <= q.src + n => ~r.ahead
  BY CopyIs
<1> HIDE DEF r
<1>2. q.src \in Nat /\ q.dst \in Nat /\ Len(q.buf) \in Nat /\ Len(bytes) \in Nat
  BY DEF DecodeState
<1>3. Unread(r) < Unread(q)
  <2>1. Unread(r) = IF r.src <= Len(q.buf) THEN Len(q.buf) + 2 - r.src ELSE 1
    BY <1>1 DEF Unread
  <2>2. Unread(q) = Len(q.buf) + 2 - q.src
    BY DEF Unread
  <2> QED BY <1>1, <1>2, <2>1, <2>2
<1>4. Behind(q) => Behind(r)
  <2> SUFFICES ASSUME Behind(q) PROVE Behind(r)
    OBVIOUS
  <2>1. ~q.ahead
    BY DEF Behind
  <2> QED BY <1>1, <1>2, <2>1 DEF Behind
<1> QED BY <1>1, <1>3, <1>4 DEF Advances, r

LEMMA SurrogatesAre ==
    /\ \A x \in HighSurrogates : x \in Nat /\ x >= 55296 /\ x <= 56319
    /\ \A x \in LowSurrogates : x \in Nat /\ x >= 56320 /\ x <= 57343
BY SMT DEF HighSurrogates, LowSurrogates

LEMMA PairedIs ==
    ASSUME NEW high \in HighSurrogates, NEW low \in LowSurrogates
    PROVE  Paired(high, low) \in Codes
<1>1. high \in Nat /\ high >= 55296 /\ high <= 56319 /\ low \in Nat /\ low >= 56320 /\ low <= 57343
  BY SurrogatesAre, SMT
<1> QED BY <1>1, SMT DEF Paired, Codes

\* The cursors of a decoder that has not stopped.
LEMMA CursorsAre ==
    ASSUME NEW q \in DecodeState
    PROVE  /\ q.src \in Nat /\ q.dst \in Nat /\ Len(q.buf) \in Nat /\ q.buf \in Seq(Bytes)
           /\ q.hi \in Pending /\ q.esc \in BOOLEAN
BY SMT DEF DecodeState

\* Of \uXXXX no more is written than there are digits.
LEMMA UnicodeAdvances ==
    ASSUME NEW q \in DecodeState, q.ok, q.esc, q.src \in 1 .. Len(q.buf)
    PROVE  Advances(q, DecodeUnicode(q))
<1> DEFINE code == HexValue(q.buf, q.src + 1, 4)
           s == q.buf
<1>1. /\ q.src \in Nat /\ q.dst \in Nat /\ Len(s) \in Nat /\ s \in Seq(Bytes)
      /\ q.hi \in Pending
  BY CursorsAre
<1>i. PICK i \in Nat : i = q.src + 1
  BY <1>1
<1>2. PICK m \in 0 .. 4 :
         /\ m > 0 => i + m - 1 <= Len(s)
         /\ code \in Nat
         /\ m = 0 => code <= 0
         /\ m = 1 => code <= 15
         /\ m = 2 => code <= 255
         /\ m = 3 => code <= 4095
         /\ m = 4 => code <= 65535
  <2>1. 4 \in {2, 4} /\ code = HexValue(s, i, 4)
    BY <1>i
  <2> HIDE DEF code, s
  <2> QED BY <1>1, <2>1, HexIs DEF Within
<1> HIDE DEF code
<1> DEFINE k == IF m = 0 THEN 1 ELSE m
<1>k. k \in 1 .. 4 /\ q.src + k <= Len(s) + 1
  BY <1>1, <1>i, <1>2
<1>3. Behind(q) => q.dst < q.src /\ q.dst <= Len(s) + 1
  BY DEF Behind
<1>4. ASSUME NEW r \in DecodeState, r.ok, r.src = q.src, r.dst = q.dst, r.buf = q.buf,
             r.ok = q.ok, r.esc = q.esc, r.ahead = q.ahead,
             NEW bytes \in Seq(Bytes), Len(bytes) <= k
      PROVE  Advances(q, Copy(r, 5, bytes, FALSE))
  <2>1. Unread(r) = Unread(q) /\ (Behind(r) <=> Behind(q))
    BY <1>4, Zenon DEF Unread, Behind
  <2>2. Len(bytes) \in Nat /\ 5 \in Nat \ {0} /\ FALSE \in BOOLEAN
    OBVIOUS
  <2>3. Behind(r) => /\ r.dst + Len(bytes) <= r.src + 5
                     /\ r.dst + Len(bytes) <= Len(r.buf) + 1
    <3> SUFFICES ASSUME Behind(q)
                 PROVE  /\ q.dst + Len(bytes) <= q.src + 5
                        /\ q.dst + Len(bytes) <= Len(s) + 1
      BY <1>4, <2>1
    <3>1. q.dst <= q.src - 1
      BY <1>1, <1>3
    <3>2. Len(bytes) <= k /\ k \in Nat /\ k <= 4 /\ q.src + k <= Len(s) + 1
      BY <1>4, <1>k
    <3> HIDE DEF k
    <3> QED BY <1>1, <2>2, <3>1, <3>2
  <2>4. r.src \in 1 .. Len(r.buf)
    BY <1>4
  <2>5. Advances(r, Copy(r, 5, bytes, FALSE))
    BY <1>4, <2>2, <2>3, <2>4, CopyAdvances
  <2> QED BY <2>1, <2>5 DEF Advances
<1>5. CASE q.hi # 0 /\ code \in LowSurrogates
  <2> DEFINE r == [q EXCEPT !.hi = 0]
             bytes == Encode(Paired(q.hi, code))
  <2>1. r \in DecodeState /\ r.src = q.src /\ r.dst = q.dst /\ r.buf = q.buf
        /\ r.ok = q.ok /\ r.esc = q.esc /\ r.ahead = q.ahead
    <3>1. 0 \in Pending
      BY DEF Pending
    <3> QED BY <3>1 DEF DecodeState
  <2>2. code >= 56320
    BY <1>5, SurrogatesAre
  <2>3. m = 4
    BY <1>2, <2>2
  <2>4. bytes \in Seq(Bytes) /\ Len(bytes) \in Nat /\ Len(bytes) <= 4
    <3>1. q.hi \in HighSurrogates
      BY <1>1, <1>5, SMT DEF Pending
    <3> DEFINE x == Paired(q.hi, code)
    <3>2. x \in Codes
      BY <1>5, <3>1, PairedIs
    <3> HIDE DEF x
    <3>3. /\ Encode(x) \in Seq(Bytes) /\ Len(Encode(x)) \in Nat
          /\ Len(Encode(x)) <= Width(x)
      BY <3>2, EncodeIs
    <3>4. Width(x) \in Nat /\ Width(x) <= 4
      BY DEF Width
    <3>5. Len(Encode(x)) <= 4
      BY <3>3, <3>4
    <3> QED BY <3>3, <3>5 DEF x
  <2>5. DecodeUnicode(q) = Copy(r, 5, bytes, FALSE)
    BY <1>5 DEF DecodeUnicode, code
  <2> HIDE DEF r, bytes
  <2>6. Len(bytes) <= k
    <3>1. k = 4
      BY <2>3
    <3>2. Len(bytes) <= 4
      BY <2>4
    <3> HIDE DEF k
    <3> QED BY <3>1, <3>2, Zenon
  <2> QED BY <1>4, <2>1, <2>4, <2>5, <2>6
<1>6. CASE q.hi # 0 /\ code \notin LowSurrogates
  <2>1. DecodeUnicode(q) = Refuse(q)
    BY <1>6 DEF DecodeUnicode, code
  <2> QED BY <2>1, RefuseIs
<1>7. CASE q.hi = 0 /\ code \in HighSurrogates
  <2> DEFINE r == [q EXCEPT !.hi = code]
  <2>1. r \in DecodeState /\ r.src = q.src /\ r.dst = q.dst /\ r.buf = q.buf
        /\ r.ok = q.ok /\ r.esc = q.esc /\ r.ahead = q.ahead
    <3>1. code \in Pending
      BY <1>7 DEF Pending
    <3> QED BY <3>1 DEF DecodeState
  <2>2. <<>> \in Seq(Bytes) /\ Len(<<>>) = 0
    OBVIOUS
  <2>3. DecodeUnicode(q) = Copy(r, 5, <<>>, FALSE)
    BY <1>7 DEF DecodeUnicode, code
  <2> HIDE DEF r
  <2>4. Len(<<>>) <= k
    BY <1>2, <2>2
  <2> QED BY <1>4, <2>1, <2>2, <2>3, <2>4
<1>8. CASE q.hi = 0 /\ code \notin HighSurrogates
  <2> DEFINE bytes == Encode(code)
  <2>1. bytes \in Seq(Bytes) /\ Len(bytes) <= k
    <3>1. code \in Nat /\ code \in Codes
      BY <1>2, SMT DEF Codes
    <3>2. /\ bytes \in Seq(Bytes) /\ Len(bytes) \in Nat /\ Len(bytes) <= Width(code)
      BY <3>1, EncodeIs
    <3>3. /\ m = 0 => Width(code) = 1
          /\ m = 1 => Width(code) = 1
          /\ m = 2 => Width(code) <= 2
          /\ m = 3 => Width(code) <= 3
          /\ m = 4 => Width(code) <= 3
      BY <1>2, <3>1 DEF Width
    <3>4. Width(code) <= k /\ Width(code) \in Nat
      <4>1. Width(code) \in Nat
        BY DEF Width
      <4>2. m \in Nat /\ m <= 4
        OBVIOUS
      <4> QED BY <3>3, <4>1, <4>2
    <3> HIDE DEF bytes, k
    <3>5. k \in Nat
      BY <1>k
    <3> QED BY <3>2, <3>4, <3>5
  <2>2. DecodeUnicode(q) = Copy(q, 5, bytes, FALSE)
    BY <1>8 DEF DecodeUnicode, code
  <2> HIDE DEF bytes
  <2> QED BY <1>4, <2>1, <2>2
<1> QED BY <1>5, <1>6, <1>7, <1>8

\* One byte for at least one that is read.
LEMMA ByteAdvances ==
    ASSUME NEW q \in DecodeState, q.ok, q.src \in 1 .. Len(q.buf), NEW b \in Bytes
    PROVE  /\ Advances(q, Copy(q, 1, <<b>>, FALSE))
           /\ q.esc => Advances(q, Copy(q, 3, <<b>>, TRUE))
           /\ \A e \in BOOLEAN : q.esc => Advances(q, Copy(q, 1, <<>>, e))
<1>1. /\ q.src \in Nat /\ q.dst \in Nat /\ Len(q.buf) \in Nat
  BY CursorsAre
<1>2. <<b>> \in Seq(Bytes) /\ Len(<<b>>) = 1 /\ <<>> \in Seq(Bytes) /\ Len(<<>>) = 0
  OBVIOUS
<1>3. Behind(q) => q.dst <= q.src /\ q.dst <= Len(q.buf) + 1 /\ (q.esc => q.dst < q.src)
  BY DEF Behind
<1>4. Advances(q, Copy(q, 1, <<b>>, FALSE))
  <2>1. Behind(q) => q.dst + Len(<<b>>) <= q.src + 1 /\ q.dst + Len(<<b>>) <= Len(q.buf) + 1
    BY <1>1, <1>2, <1>3
  <2>2. 1 \in Nat \ {0}
    OBVIOUS
  <2> QED BY <1>2, <2>1, <2>2, CopyAdvances
<1>5. ASSUME q.esc PROVE Advances(q, Copy(q, 3, <<b>>, TRUE))
  <2>1. Behind(q) => /\ q.dst + Len(<<b>>) <= q.src + 3 /\ q.dst + Len(<<b>>) <= Len(q.buf) + 1
                     /\ q.dst + Len(<<b>>) < q.src + 3
    BY <1>1, <1>2, <1>3
  <2>2. 3 \in Nat \ {0}
    OBVIOUS
  <2> QED BY <1>2, <2>1, <2>2, CopyAdvances
<1>6. ASSUME q.esc, NEW e \in BOOLEAN PROVE Advances(q, Copy(q, 1, <<>>, e))
  <2>1. Behind(q) => /\ q.dst + Len(<<>>) <= q.src + 1 /\ q.dst + Len(<<>>) <= Len(q.buf) + 1
                     /\ q.dst + Len(<<>>) < q.src + 1
    BY <1>1, <1>2, <1>3, <1>6
  <2>2. 1 \in Nat \ {0}
    OBVIOUS
  <2> QED BY <1>2, <2>1, <2>2, CopyAdvances
<1> QED BY <1>4, <1>5, <1>6

LEMMA ControlIs == \A c \in DOMAIN ControlOf : ControlOf[c] \in Bytes
<1>1. DOMAIN Escapable = 1 .. 9 /\ \A i \in 1 .. 9 : StandsFor[i] \in Bytes
  BY DEF Escapable, StandsFor, LF, CR, Backslash, Bytes
<1>2. DOMAIN Text(Escapable) = 1 .. 9 /\ \A i \in 1 .. 9 : Text(Escapable)[i] = Ord[Escapable[i]]
  BY <1>1 DEF Text
<1>3. \A c \in Range(Text(Escapable)) : \E i \in 1 .. 9 : Ord[Escapable[i]] = c
  BY <1>2 DEF Range
<1>4. \A c \in Range(Text(Escapable)) : \E i \in 1 .. 9 : ControlOf[c] = StandsFor[i]
  BY <1>1, <1>3 DEF ControlOf
<1>5. DOMAIN ControlOf = Range(Text(Escapable))
  BY DEF ControlOf
<1> QED BY <1>1, <1>4, <1>5

LEMMA PlainAdvances ==
    ASSUME NEW q \in DecodeState, q.ok, q.src \in 1 .. Len(q.buf)
    PROVE  Advances(q, DecodePlain(q))
<1>1. q.buf \in Seq(Bytes)
  BY CursorsAre
<1>2. ByteAt(q.buf, q.src) \in Bytes
  BY <1>1, ByteIs
<1>3. DecodePlain(q) \in {Refuse(q), Copy(q, 1, <<ByteAt(q.buf, q.src)>>, FALSE)}
  BY Zenon DEF DecodePlain
<1> QED BY <1>2, <1>3, RefuseIs, ByteAdvances

LEMMA EscapedAdvances ==
    ASSUME NEW q \in DecodeState, q.ok, q.esc, q.src \in 1 .. Len(q.buf), NEW quote \in Bytes
    PROVE  Advances(q, DecodeEscaped(q, quote)) /\ Advances(q, DecodeHexa(q))
<1> DEFINE c == q.buf[q.src]
           e == c = CR /\ ByteAt(q.buf, q.src + 1) = LF
           v == HexValue(q.buf, q.src + 1, 2)
<1>1. q.buf \in Seq(Bytes) /\ q.src \in Nat /\ Len(q.buf) \in Nat
  BY CursorsAre
<1>2. ByteAt(q.buf, q.dst) \in Bytes
  BY <1>1, ByteIs
<1>3. \/ DecodeEscaped(q, quote) = Refuse(q)
      \/ DecodeEscaped(q, quote) = Copy(q, 1, <<>>, e)
      \/ c \in DOMAIN ControlOf /\ DecodeEscaped(q, quote) = Copy(q, 1, <<ControlOf[c]>>, FALSE)
      \/ DecodeEscaped(q, quote) = Copy(q, 1, <<quote>>, FALSE)
      \/ DecodeEscaped(q, quote) = Copy(q, 1, <<ByteAt(q.buf, q.dst)>>, FALSE)
  BY Zenon DEF DecodeEscaped
<1>4. e = TRUE \/ e = FALSE
  OBVIOUS
<1> HIDE DEF e
<1>5. Advances(q, DecodeEscaped(q, quote))
  <2>1. e \in BOOLEAN
    BY <1>4
  <2>2. CASE DecodeEscaped(q, quote) = Refuse(q)
    BY <2>2, RefuseIs
  <2>3. CASE DecodeEscaped(q, quote) = Copy(q, 1, <<>>, e)
    BY <1>2, <2>1, <2>3, ByteAdvances
  <2>4. CASE c \in DOMAIN ControlOf /\ DecodeEscaped(q, quote) = Copy(q, 1, <<ControlOf[c]>>, FALSE)
    <3>1. ControlOf[c] \in Bytes
      BY <2>4, ControlIs
    <3> QED BY <2>4, <3>1, ByteAdvances
  <2>5. CASE DecodeEscaped(q, quote) = Copy(q, 1, <<quote>>, FALSE)
    BY <2>5, ByteAdvances
  <2>6. CASE DecodeEscaped(q, quote) = Copy(q, 1, <<ByteAt(q.buf, q.dst)>>, FALSE)
    BY <1>2, <2>6, ByteAdvances
  <2> QED BY <1>3, <2>2, <2>3, <2>4, <2>5, <2>6
<1>6. v \in Bytes
  <2>1. q.src + 1 \in Nat /\ 2 \in {2, 4}
    BY <1>1
  <2>2. PICK m \in 0 .. 2 :
           /\ v \in Nat
           /\ m = 0 => v <= 0
           /\ m = 1 => v <= 15
           /\ m = 2 => v <= 255
    BY <1>1, <2>1, HexIs DEF Within
  <2> HIDE DEF v
  <2> QED BY <2>2 DEF Bytes
<1>7. DecodeHexa(q) = Copy(q, 3, <<v>>, TRUE)
  BY DEF DecodeHexa
<1> QED BY <1>5, <1>6, <1>7, ByteAdvances

LEMMA BackslashAdvances ==
    ASSUME NEW q \in DecodeState, q.ok, q.src \in 1 .. Len(q.buf), ~q.esc
    PROVE  Advances(q, [q EXCEPT !.src = @ + 1, !.esc = TRUE])
<1> DEFINE r == [q EXCEPT !.src = @ + 1, !.esc = TRUE]
<1>0. PICK k \in Nat : k = q.src + 1
  BY CursorsAre
<1>1. PICK x : x = [q EXCEPT !.src = k]
  OBVIOUS
<1>2. /\ x \in DecodeState /\ x.src = k /\ x.dst = q.dst /\ x.buf = q.buf
      /\ x.ok = q.ok /\ x.ahead = q.ahead
  BY <1>1 DEF DecodeState
<1>3. r = [x EXCEPT !.esc = TRUE]
  BY <1>0, <1>1
<1> HIDE DEF r
<1>4. /\ r \in DecodeState /\ r.src = q.src + 1 /\ r.dst = q.dst /\ r.buf = q.buf
      /\ r.ok = q.ok /\ r.ahead = q.ahead /\ r.esc
  BY <1>0, <1>2, <1>3 DEF DecodeState
<1>5. q.src \in Nat /\ q.dst \in Nat /\ Len(q.buf) \in Nat
  BY CursorsAre
<1>6. Unread(r) < Unread(q)
  BY <1>4, <1>5 DEF Unread
<1>7. Behind(q) => Behind(r)
  BY <1>4, <1>5 DEF Behind
<1> QED BY <1>4, <1>6, <1>7 DEF Advances, r

\* What decodes: where it stops, and a step from everywhere else.
Decoders ==
    {l \in [stop : SUBSET DecodeState, turn : [DecodeState -> DecodeState]] :
        \A q \in DecodeState \ l.stop : Advances(q, l.turn[q])}

LEMMA DecodedIs ==
    ASSUME NEW l \in Decoders
    PROVE  /\ \E f : f = [q \in DecodeState |-> IF q \in l.stop THEN q ELSE f[l.turn[q]]]
           /\ \A f : f = [q \in DecodeState |-> IF q \in l.stop THEN q ELSE f[l.turn[q]]]
                     => /\ f \in [DecodeState -> DecodeState]
                        /\ \A q \in DecodeState : Behind(q) => Behind(f[q])
<1> DEFINE D == DecodeState
           rank == [q \in D |-> Unread(q)]
           same == [q \in D |-> q]
           k == [stop |-> l.stop, base |-> same, next |-> l.turn, rank |-> rank]
<1>1. /\ l.stop \in SUBSET D /\ l.turn \in [D -> D]
      /\ \A q \in D \ l.stop : Advances(q, l.turn[q])
  BY DEF Decoders
<1>2. rank \in [D -> Nat]
  <2>1. \A q \in D : Unread(q) \in Nat
    <3> TAKE q \in D
    <3>1. q.src \in Nat /\ Len(q.buf) \in Nat
      BY CursorsAre
    <3> QED BY <3>1 DEF Unread
  <2> QED BY <2>1
<1>3. \A q \in D : rank[q] = Unread(q)
  OBVIOUS
<1>4. same \in [D -> D] /\ \A q \in D : same[q] = q
  OBVIOUS
<1> HIDE DEF D, rank, same
<1>5. \A q \in D \ l.stop : rank[l.turn[q]] < rank[q]
  <2> TAKE q \in D \ l.stop
  <2>1. Advances(q, l.turn[q]) /\ l.turn[q] \in D
    BY <1>1
  <2> QED BY <1>3, <2>1 DEF Advances
<1>6. k \in Iterations(D, D) /\ k.stop = l.stop /\ k.base = same /\ k.next = l.turn
  BY <1>1, <1>2, <1>4, <1>5 DEF Iterations
<1> HIDE DEF k
<1>7. \E f : f = [q \in D |-> IF q \in l.stop THEN q ELSE f[l.turn[q]]]
  <2>1. PICK f \in [D -> D] : \A q \in D : f[q] = IF q \in l.stop THEN same[q] ELSE f[l.turn[q]]
    BY <1>6, IterationDefined DEF Outcomes
  <2>2. \A q \in D : f[q] = IF q \in l.stop THEN q ELSE f[l.turn[q]]
    BY <1>4, <2>1
  <2>3. f = [q \in D |-> IF q \in l.stop THEN q ELSE f[l.turn[q]]]
    BY <2>2
  <2> QED BY <2>3
<1>8. ASSUME NEW F, F = [q \in D |-> IF q \in l.stop THEN q ELSE F[l.turn[q]]]
      PROVE  F \in [D -> D] /\ \A q \in D : Behind(q) => Behind(F[q])
  <2> DEFINE T == {F[q] : q \in D}
  <2>1. F \in [D -> T]
    BY <1>8
  <2>2. \A q \in D : F[q] = IF q \in l.stop THEN same[q] ELSE F[l.turn[q]]
    BY <1>4, <1>8
  <2>3. F \in Outcomes(D, T, k)
    <3> HIDE DEF T
    <3> QED BY <1>6, <2>1, <2>2 DEF Outcomes
  <2>4. F \in [D -> D]
    <3> HIDE DEF T
    <3> QED BY <1>6, <2>3, IterationTyped
  <2> DEFINE G == {q \in D : Behind(q) => Behind(F[q])}
  <2>5. ASSUME NEW q \in D, \A r \in D : rank[r] < rank[q] => r \in G PROVE q \in G
    <3>1. CASE q \in l.stop
      <4>1. F[q] = q
        BY <1>8, <3>1
      <4> QED BY <4>1
    <3>2. CASE q \notin l.stop
      <4>1. F[q] = F[l.turn[q]] /\ l.turn[q] \in D /\ Advances(q, l.turn[q])
        BY <1>1, <1>8, <3>2
      <4>2. l.turn[q] \in G
        BY <1>5, <2>5, <3>2, <4>1
      <4>3. Behind(q) => Behind(l.turn[q])
        BY <4>1 DEF Advances
      <4>4. Behind(q) => Behind(F[q])
        BY <4>1, <4>2, <4>3
      <4> QED BY <4>4
    <3> QED BY <3>1, <3>2
  <2>6. G \in SUBSET D
    OBVIOUS
  <2> HIDE DEF G
  <2>7. G = D
    BY <1>2, <2>5, <2>6, RankInduction
  <2> QED BY <2>4, <2>7 DEF G
<1> QED BY <1>7, <1>8 DEF D

LEMMA ByteTurnIs ==
    ASSUME NEW q \in DecodeState, NEW quote \in Bytes, ByteAt(q.buf, q.src) # 0, ~Stops(q)
    PROVE  Advances(q, DecodeByte(q, quote))
<1>1. q.ok /\ q.buf \in Seq(Bytes)
  BY CursorsAre DEF Stops
<1>2. q.src \in 1 .. Len(q.buf)
  BY <1>1, ByteIs
<1>3. \/ q.esc /\ DecodeByte(q, quote) = DecodeUnicode(q)
      \/ q.esc /\ DecodeByte(q, quote) = DecodeHexa(q)
      \/ q.esc /\ DecodeByte(q, quote) = DecodeEscaped(q, quote)
      \/ ~q.esc /\ DecodeByte(q, quote) = [q EXCEPT !.src = @ + 1, !.esc = TRUE]
      \/ DecodeByte(q, quote) = DecodePlain(q)
  BY Zenon DEF DecodeByte
<1> QED BY <1>1, <1>2, <1>3, UnicodeAdvances, EscapedAdvances, BackslashAdvances, PlainAdvances

LEMMA NameTurnIs ==
    ASSUME NEW q \in DecodeState, ~Stops(q)
    PROVE  Advances(q, DecodeNameByte(q))
<1>1. q.ok /\ q.buf \in Seq(Bytes)
  BY CursorsAre DEF Stops
<1>2. \/ DecodeNameByte(q) = Refuse(q)
      \/ q.src \in DOMAIN q.buf /\ q.esc /\ DecodeNameByte(q) = DecodeUnicode(q)
      \/ q.src \in DOMAIN q.buf /\ ~q.esc /\ DecodeNameByte(q) = [q EXCEPT !.src = @ + 1, !.esc = TRUE]
      \/ q.src \in DOMAIN q.buf /\ DecodeNameByte(q) = DecodePlain(q)
  BY Zenon DEF DecodeNameByte
<1>3. q.src \in DOMAIN q.buf => q.src \in 1 .. Len(q.buf)
  BY <1>1
<1> QED BY <1>1, <1>2, <1>3, RefuseIs, UnicodeAdvances, BackslashAdvances, PlainAdvances

\* What has been decoded.
IsDecoded(r) == r.ok \in BOOLEAN /\ r.ahead = FALSE /\ r.bytes \in Seq(Bytes)

LEMMA FromIs ==
    ASSUME NEW buf \in Seq(Bytes), NEW i \in Nat \ {0}, i <= Len(buf) + 1
    PROVE  DecodeFrom(buf, i) \in DecodeState /\ Behind(DecodeFrom(buf, i))
BY DEF DecodeFrom, DecodeState, Behind, Pending

LEMMA WrittenIs ==
    ASSUME NEW q \in DecodeState, Behind(q), NEW i \in Nat \ {0}
    PROVE  SubSeq(q.buf, i, q.dst - 1) \in Seq(Bytes) /\ q.ahead = FALSE
<1>1. q.dst \in Nat /\ Len(q.buf) \in Nat /\ q.buf \in Seq(Bytes)
  BY CursorsAre
<1>2. q.dst - 1 <= Len(q.buf)
  BY <1>1 DEF Behind
<1>3. q.ahead \in BOOLEAN /\ ~q.ahead
  BY DEF DecodeState, Behind
<1> QED BY <1>1, <1>2, <1>3, SubSeqProperties

\* The decoder of a literal between such quotes.
LiteralDecoder(quote) ==
    CHOOSE f : f = [q \in DecodeState |->
        IF ByteAt(q.buf, q.src) = 0 \/ Stops(q) THEN q ELSE f[DecodeByte(q, quote)]]

LEMMA LiteralDecodes ==
    ASSUME NEW quote \in Bytes, NEW F, F = LiteralDecoder(quote)
    PROVE  /\ F = [q \in DecodeState |->
                      IF ByteAt(q.buf, q.src) = 0 \/ Stops(q) THEN q ELSE F[DecodeByte(q, quote)]]
           /\ F \in [DecodeState -> DecodeState]
           /\ \A q \in DecodeState : Behind(q) => Behind(F[q])
<1> DEFINE l == [stop |-> {q \in DecodeState : ByteAt(q.buf, q.src) = 0 \/ Stops(q)},
                 turn |-> [q \in DecodeState |-> IF ByteAt(q.buf, q.src) = 0 \/ Stops(q) THEN q
                                                 ELSE DecodeByte(q, quote)]]
           Body(f) == [q \in DecodeState |->
               IF ByteAt(q.buf, q.src) = 0 \/ Stops(q) THEN q ELSE f[DecodeByte(q, quote)]]
<1>2. \A q \in DecodeState : ~(ByteAt(q.buf, q.src) = 0 \/ Stops(q)) => Advances(q, DecodeByte(q, quote))
  BY ByteTurnIs
<1>3. l \in Decoders
  <2>1. l.turn \in [DecodeState -> DecodeState]
    BY <1>2 DEF Advances
  <2>2. \A q \in DecodeState \ l.stop : Advances(q, l.turn[q])
    BY <1>2
  <2> QED BY <2>1, <2>2 DEF Decoders
<1>4. \A q \in DecodeState : /\ q \in l.stop <=> ByteAt(q.buf, q.src) = 0 \/ Stops(q)
                             /\ q \notin l.stop => l.turn[q] = DecodeByte(q, quote)
  OBVIOUS
<1> HIDE DEF l
<1>5. /\ \E f : f = [q \in DecodeState |-> IF q \in l.stop THEN q ELSE f[l.turn[q]]]
      /\ \A f : f = [q \in DecodeState |-> IF q \in l.stop THEN q ELSE f[l.turn[q]]]
                => /\ f \in [DecodeState -> DecodeState]
                   /\ \A q \in DecodeState : Behind(q) => Behind(f[q])
  BY <1>3, DecodedIs
<1>6. \A f : [q \in DecodeState |-> IF q \in l.stop THEN q ELSE f[l.turn[q]]] = Body(f)
  BY <1>4
<1>7. /\ \E f : f = Body(f)
      /\ \A f : f = Body(f) => /\ f \in [DecodeState -> DecodeState]
                               /\ \A q \in DecodeState : Behind(q) => Behind(f[q])
  <2> HIDE DEF Body
  <2> QED BY <1>5, <1>6
<1>8. F = Body(F)
  BY <1>7 DEF LiteralDecoder
<1> QED BY <1>7, <1>8

LiteralOf(end) ==
    [ok |-> end.ok /\ end.hi = 0, ahead |-> end.ahead, bytes |-> SubSeq(end.buf, 2, end.dst - 1)]

LEMMA LiteralReads ==
    ASSUME NEW s, NEW len
    PROVE  DecodeLiteral(s, len) = LiteralOf(LiteralDecoder(s[1])[DecodeFrom([s EXCEPT ![len] = 0], 2)])
BY DEF DecodeLiteral, LiteralDecoder, LiteralOf

LEMMA LiteralDecoded ==
    ASSUME NEW s \in Seq(Bytes), NEW len \in 1 .. Len(s)
    PROVE  IsDecoded(DecodeLiteral(s, len))
<1>1. PICK buf : buf = [s EXCEPT ![len] = 0]
  OBVIOUS
<1>2. PICK start : start = DecodeFrom(buf, 2)
  OBVIOUS
<1>3. start \in DecodeState /\ Behind(start)
  <2>1. buf \in Seq(Bytes) /\ Len(buf) = Len(s)
    BY <1>1 DEF Bytes
  <2>2. 2 \in Nat \ {0} /\ 2 <= Len(buf) + 1
    BY <2>1
  <2> QED BY <1>2, <2>1, <2>2, FromIs
<1>4. PICK end : end = LiteralDecoder(s[1])[start]
  OBVIOUS
<1>5. end \in DecodeState /\ Behind(end)
  <2>1. s[1] \in Bytes
    <3>1. Len(s) \in Nat /\ 1 \in 1 .. Len(s)
      OBVIOUS
    <3> QED BY <3>1
  <2> QED BY <1>3, <1>4, <2>1, LiteralDecodes
<1>6. DecodeLiteral(s, len) = LiteralOf(end)
  BY <1>1, <1>2, <1>4, LiteralReads
<1>7. SubSeq(end.buf, 2, end.dst - 1) \in Seq(Bytes) /\ end.ahead = FALSE
  <2>1. 2 \in Nat \ {0}
    OBVIOUS
  <2> QED BY <1>5, <2>1, WrittenIs
<1> DEFINE b == end.ok /\ end.hi = 0
<1>8. b \in BOOLEAN
  BY <1>5 DEF DecodeState
<1> HIDE DEF b
<1>9. DecodeLiteral(s, len) = [ok |-> b, ahead |-> end.ahead,
                               bytes |-> SubSeq(end.buf, 2, end.dst - 1)]
  BY <1>6 DEF b, LiteralOf
<1> QED BY <1>7, <1>8, <1>9 DEF IsDecoded

LEMMA NameDecoded ==
    ASSUME NEW s \in Seq(Bytes)
    PROVE  IsDecoded(DecodeIdent(s))
<1> DEFINE l == [stop |-> {q \in DecodeState : Stops(q) \/ ByteAt(q.buf, q.src) \in NameEnds},
                 turn |-> [q \in DecodeState |->
                    IF Stops(q) \/ ByteAt(q.buf, q.src) \in NameEnds THEN q ELSE DecodeNameByte(q)]]
           Body(f) == [q \in DecodeState |->
               IF Stops(q) \/ ByteAt(q.buf, q.src) \in NameEnds THEN q ELSE f[DecodeNameByte(q)]]
           F == CHOOSE f : f = [q \in DecodeState |->
               IF Stops(q) \/ ByteAt(q.buf, q.src) \in NameEnds THEN q ELSE f[DecodeNameByte(q)]]
           start == DecodeFrom(s, 1)
<1>1. \A q \in DecodeState : ~Stops(q) => Advances(q, DecodeNameByte(q))
  BY NameTurnIs
<1>2. l \in Decoders
  <2>1. l.turn \in [DecodeState -> DecodeState]
    BY <1>1 DEF Advances
  <2>2. \A q \in DecodeState \ l.stop : Advances(q, l.turn[q])
    BY <1>1
  <2> QED BY <2>1, <2>2 DEF Decoders
<1>3. \A q \in DecodeState : /\ q \in l.stop <=> Stops(q) \/ ByteAt(q.buf, q.src) \in NameEnds
                             /\ q \notin l.stop => l.turn[q] = DecodeNameByte(q)
  OBVIOUS
<1> HIDE DEF l
<1>4. /\ \E f : f = [q \in DecodeState |-> IF q \in l.stop THEN q ELSE f[l.turn[q]]]
      /\ \A f : f = [q \in DecodeState |-> IF q \in l.stop THEN q ELSE f[l.turn[q]]]
                => /\ f \in [DecodeState -> DecodeState]
                   /\ \A q \in DecodeState : Behind(q) => Behind(f[q])
  BY <1>2, DecodedIs
<1>5. \A f : [q \in DecodeState |-> IF q \in l.stop THEN q ELSE f[l.turn[q]]] = Body(f)
  BY <1>3
<1>6. /\ \E f : f = Body(f)
      /\ \A f : f = Body(f) => /\ f \in [DecodeState -> DecodeState]
                               /\ \A q \in DecodeState : Behind(q) => Behind(f[q])
  <2> HIDE DEF Body
  <2> QED BY <1>4, <1>5
<1>7. F = Body(F)
  BY <1>6
<1> HIDE DEF F
<1>8. start \in DecodeState /\ Behind(start)
  <2>1. 1 \in Nat \ {0} /\ 1 <= Len(s) + 1
    OBVIOUS
  <2> QED BY <2>1, FromIs
<1> DEFINE end == F[start]
<1>9. end \in DecodeState /\ Behind(end)
  BY <1>6, <1>7, <1>8
<1>10. DecodeIdent(s) = [ok |-> end.ok, ahead |-> end.ahead,
                         bytes |-> SubSeq(end.buf, 1, end.dst - 1)]
  BY DEF DecodeIdent, F
<1> HIDE DEF end
<1>11. SubSeq(end.buf, 1, end.dst - 1) \in Seq(Bytes) /\ end.ahead = FALSE
  <2>1. 1 \in Nat \ {0}
    OBVIOUS
  <2> QED BY <1>9, <2>1, WrittenIs
<1>12. end.ok \in BOOLEAN
  BY <1>9 DEF DecodeState
<1> QED BY <1>10, <1>11, <1>12 DEF IsDecoded

-----------------------------------------------------------------------------
(* A scan of whatever has arrived. *)

LEMMA ScanIs ==
    ASSUME NEW s \in Seq(Bytes), s # <<>>, NEW kind, NEW d
    PROVE  IsScan(Scan(kind, d, s), Len(s)) /\ Scan(kind, d, s).ahead = FALSE
<1> DEFINE r == Scan(kind, d, s)
           len == EndOf(kind, d, s)
<1>1. Len(s) \in Nat \ {0}
  OBVIOUS
<1>2. len \in Bad .. Len(s)
  <2>1. Cut \in Bad .. Len(s)
    BY <1>1 DEF Cut, Bad
  <2>2. len = DetermineLiteral(s, d) \/ len = DetermineIdent(s) \/ len = DetermineComment(s) \/ len = Cut
    BY DEF EndOf
  <2> HIDE DEF len
  <2> QED BY <2>1, <2>2, LiteralEnds, IdentEnds, CommentTyped
<1>3. \/ r = Verdict(ParseWord(s))
      \/ r = Verdict(ParseNumber(s, d))
      \/ len > 0 /\ r = Decoding(len, DecodeLiteral(s, len))
      \/ len > 0 /\ r = Decoding(len, DecodeIdent(s))
      \/ r = Verdict(Scanned(len, "none", <<>>))
  BY Zenon DEF Scan
<1> HIDE DEF len, r
<1> DEFINE Good(x) == IsScan(x, Len(s)) /\ x.ahead = FALSE
<1>4. IsScan(ParseWord(s), Len(s)) => Good(Verdict(ParseWord(s)))
  BY DEF Verdict, IsScan
<1>5. IsScan(ParseNumber(s, d), Len(s)) => Good(Verdict(ParseNumber(s, d)))
  BY DEF Verdict, IsScan
<1>6. Good(Verdict(Scanned(len, "none", <<>>)))
  <2>1. <<>> \in Seq(Bytes)
    OBVIOUS
  <2> QED BY <1>2, <2>1 DEF IsScan, Scanned, Verdict
<1>7. Bad \in Bad .. Len(s)
  BY <1>1 DEF Bad
<1>8. IsDecoded(DecodeIdent(s)) => Good(Decoding(len, DecodeIdent(s)))
  BY <1>2, <1>7 DEF Decoding, IsDecoded, IsScan
<1>9. IsDecoded(DecodeLiteral(s, len)) => Good(Decoding(len, DecodeLiteral(s, len)))
  BY <1>2, <1>7 DEF Decoding, IsDecoded, IsScan
<1>10. len > 0 => IsDecoded(DecodeLiteral(s, len))
  <2> SUFFICES ASSUME len > 0 PROVE IsDecoded(DecodeLiteral(s, len))
    OBVIOUS
  <2>1. len \in 1 .. Len(s)
    BY <1>1, <1>2 DEF Bad
  <2> QED BY <2>1, LiteralDecoded
<1>11. IsScan(ParseWord(s), Len(s)) /\ IsScan(ParseNumber(s, d), Len(s)) /\ IsDecoded(DecodeIdent(s))
  BY WordTyped, NumberTyped, NameDecoded
<1> HIDE DEF Good
<1>12. Good(r)
  BY <1>3, <1>4, <1>5, <1>6, <1>8, <1>9, <1>10, <1>11
<1> QED BY <1>12 DEF Good, r

ScanInv ==
    /\ source.kind \in SourceKinds
    /\ wire \in Seq(Bytes)
    /\ result \in {"sending", "done", "failed"}
    /\ IsScan(scan, Len(wire)) /\ scan.ahead = FALSE
    /\ seen \in 0 .. Len(wire)

LEMMA ScanInit == Init => ScanInv
<1> SUFFICES ASSUME Init PROVE ScanInv
  OBVIOUS
<1>1. source.kind \in SourceKinds
  BY SourcesAssumption DEF Init
<1>2. wire \in Seq(Bytes) /\ Len(wire) = 0 /\ wire = <<>>
  BY DEF Init
<1>3. scan = Verdict(NotYet) /\ IsScan(NotYet, 0)
  BY NoVerdict DEF Init
<1>4. IsScan(scan, 0) /\ scan.ahead = FALSE
  BY <1>3 DEF Verdict, IsScan
<1> QED BY <1>1, <1>2, <1>4 DEF Init, ScanInv

LEMMA ScanStep == WireInv /\ ScanInv /\ [Next]_vars => ScanInv'
<1> SUFFICES ASSUME WireInv, ScanInv, [Next]_vars PROVE ScanInv'
  OBVIOUS
<1>1. CASE \E n \in 1 .. Len(source.calls[call]) : Accept(n)
  <2>1. PICK n \in 1 .. Len(source.calls[call]) : Accept(n)
    BY <1>1
  <2> DEFINE p == SubSeq(source.calls[call], onset + 1, onset + n)
  <2>2. /\ wire' = wire \o p /\ result' \in {result, "done"} /\ UNCHANGED source
        /\ IF scan.len = Cut
           THEN scan' = Scan(source.kind, source.dialect, wire') /\ seen' = Len(wire')
           ELSE UNCHANGED <<scan, seen>>
    BY <2>1 DEF Accept, Arrive
  <2>3. p \in Seq(Bytes) /\ Len(p) = n /\ n \in Nat \ {0}
    <3>1. /\ source.calls[call] \in Seq(Bytes) /\ onset \in Nat
          /\ onset + n <= Len(source.calls[call])
      BY <2>1, CallsAre DEF Accept, WireInv
    <3> QED BY <3>1, PortionFits, SubSeqProperties
  <2> HIDE DEF p
  <2>4. wire' \in Seq(Bytes) /\ Len(wire') = Len(wire) + n /\ Len(wire) \in Nat
    <3>1. wire \in Seq(Bytes)
      BY DEF ScanInv
    <3>2. wire \o p \in Seq(Bytes) /\ Len(wire \o p) = Len(wire) + Len(p)
      BY <2>3, <3>1, ConcatProperties
    <3>3. Len(wire') = Len(wire \o p) /\ wire' \in Seq(Bytes)
      BY <2>2, <3>2, Zenon
    <3>4. Len(wire) \in Nat
      BY <3>1
    <3> QED BY <2>3, <3>2, <3>3, <3>4
  <2>5. wire' # <<>>
    BY <2>3, <2>4
  <2>6. CASE scan.len = Cut
    <3>1. IsScan(scan', Len(wire')) /\ scan'.ahead = FALSE
      <4>1. PICK w : w = wire'
        OBVIOUS
      <4>2. w \in Seq(Bytes) /\ w # <<>> /\ scan' = Scan(source.kind, source.dialect, w)
        BY <2>2, <2>4, <2>5, <2>6, <4>1
      <4>3. IsScan(Scan(source.kind, source.dialect, w), Len(w))
            /\ Scan(source.kind, source.dialect, w).ahead = FALSE
        BY <4>2, ScanIs
      <4> QED BY <4>1, <4>2, <4>3
    <3>2. seen' \in 0 .. Len(wire')
      BY <2>2, <2>4, <2>6
    <3> QED BY <2>2, <2>4, <3>1, <3>2 DEF ScanInv
  <2>7. CASE scan.len # Cut
    <3>1. scan' = scan /\ seen' = seen
      BY <2>2, <2>7
    <3>2. IsScan(scan, Len(wire'))
      <4>1. scan.len \in Bad .. Len(wire) /\ scan.len \in Bad .. Len(wire')
        BY <2>3, <2>4 DEF ScanInv, IsScan, Bad
      <4> QED BY <4>1 DEF ScanInv, IsScan
    <3>3. seen \in 0 .. Len(wire')
      BY <2>3, <2>4 DEF ScanInv
    <3> QED BY <2>2, <2>4, <3>1, <3>2, <3>3 DEF ScanInv
  <2> QED BY <2>6, <2>7
<1>2. CASE FailToWrite
  BY <1>2 DEF FailToWrite, ScanInv, IsScan
<1>3. CASE UNCHANGED vars
  BY <1>3 DEF vars, ScanInv, IsScan
<1> QED BY <1>1, <1>2, <1>3 DEF Next

LEMMA ScanHolds == Spec => []ScanInv
<1>1. Spec => []WireInv
  BY WireHolds
<1> QED BY <1>1, ScanInit, ScanStep, PTL DEF Spec

\* Everything has its type: what a scan says of a lexeme that may go on is at no
\* byte that has not arrived, and its integers are words.
THEOREM TypeCorrect == Spec => []TypeOK
<1>1. WireInv /\ ScanInv => TypeOK
  <2> SUFFICES ASSUME WireInv, ScanInv PROVE TypeOK
    OBVIOUS
  <2>1. /\ call \in DOMAIN source.calls /\ onset \in 0 .. Len(source.calls[call])
    BY CallsAre DEF WireInv
  <2>2. scan.ahead \in BOOLEAN
    BY DEF ScanInv
  <2> QED BY <2>1, <2>2 DEF TypeOK, ScanInv, IsScan
<1> QED BY <1>1, WireHolds, ScanHolds, PTL

\* A decoder never writes over what it has still to read, whatever the text.
THEOREM DecodersStayBehind == Spec => []DecodeStaysBehind
<1>1. ScanInv => DecodeStaysBehind
  BY DEF ScanInv, DecodeStaysBehind
<1> QED BY <1>1, ScanHolds, PTL

-----------------------------------------------------------------------------
(* A text of which more arrives. *)

\* A text that goes on: without terminators, as in a descriptor's stream.
Begins(s, w) ==
    /\ s \in Seq(Bytes) /\ w \in Seq(Bytes) /\ s # <<>> /\ Len(s) <= Len(w)
    /\ \A i \in 1 .. Len(s) : w[i] = s[i] /\ s[i] # 0

\* A byte that has arrived stays.
LEMMA ByteStays ==
    ASSUME NEW s, NEW w, Begins(s, w), NEW i
    PROVE  /\ i \in 1 .. Len(s) => ByteAt(s, i) = s[i] /\ ByteAt(s, i) # 0
           /\ ByteAt(s, i) # 0 => i \in 1 .. Len(s) /\ ByteAt(w, i) = ByteAt(s, i)
           /\ i \in Nat /\ i <= Len(s) => ByteAt(w, i) = ByteAt(s, i)
           /\ ByteAt(s, i) \in Bytes
<1>1. /\ s \in Seq(Bytes) /\ w \in Seq(Bytes) /\ Len(s) <= Len(w)
      /\ Len(s) \in Nat /\ Len(w) \in Nat /\ DOMAIN s = 1 .. Len(s) /\ DOMAIN w = 1 .. Len(w)
  BY DEF Begins
<1>2. ASSUME i \in 1 .. Len(s) PROVE ByteAt(s, i) = s[i] /\ ByteAt(s, i) # 0 /\ ByteAt(w, i) = ByteAt(s, i)
  <2>1. i \in 1 .. Len(w)
    BY <1>1, <1>2
  <2>2. w[i] = s[i] /\ s[i] # 0
    BY <1>2 DEF Begins
  <2> QED BY <1>1, <1>2, <2>1, <2>2 DEF ByteAt
<1>3. ByteAt(s, i) # 0 => i \in 1 .. Len(s)
  BY <1>1 DEF ByteAt
<1>4. ByteAt(s, i) \in Bytes
  BY <1>1, ByteIs
<1>5. ASSUME i \in Nat, i <= Len(s), i \notin 1 .. Len(s) PROVE ByteAt(w, i) = ByteAt(s, i)
  <2>1. i = 0
    BY <1>1, <1>5
  <2>2. i \notin DOMAIN s /\ i \notin DOMAIN w
    BY <1>1, <2>1
  <2> QED BY <2>2 DEF ByteAt
<1> QED BY <1>2, <1>3, <1>4, <1>5

LEMMA SkipWhere ==
    ASSUME NEW s \in Seq(Bytes), NEW i \in 1 .. Len(s) + 1, NEW S, 0 \notin S
    PROVE  /\ SkipOver(s, i, S) \in i .. Len(s) + 1
           /\ ByteAt(s, SkipOver(s, i, S)) \notin S
           /\ \A j \in i .. SkipOver(s, i, S) - 1 : ByteAt(s, j) \in S
           /\ \A k \in i .. Len(s) + 1 :
                 ByteAt(s, k) \notin S /\ (\A j \in i .. k - 1 : ByteAt(s, j) \in S)
                 => k = SkipOver(s, i, S)
<1> DEFINE T == {k \in i .. Len(s) + 1 : ByteAt(s, k) \notin S}
<1>1. Len(s) \in Nat /\ i \in Nat /\ i <= Len(s) + 1
  OBVIOUS
<1>2. Len(s) + 1 \in T
  BY <1>1 DEF ByteAt
<1>3. T \in SUBSET Nat /\ T \subseteq i .. Len(s) + 1
  BY <1>1
<1>4. \A k \in i .. Len(s) + 1 : k \in T <=> ByteAt(s, k) \notin S
  OBVIOUS
<1>5. PICK m : m = Min(T)
  OBVIOUS
<1> HIDE DEF T
<1>6. m \in T /\ \A y \in T : m <= y
  BY <1>2, <1>3, <1>5, MinIs
<1>7. SkipOver(s, i, S) = m
  BY <1>5 DEF SkipOver, T
<1>8. m \in i .. Len(s) + 1 /\ ByteAt(s, m) \notin S
  BY <1>3, <1>4, <1>6
<1>9. ASSUME NEW j \in i .. m - 1 PROVE ByteAt(s, j) \in S
  <2>1. j \in i .. Len(s) + 1 /\ ~(m <= j)
    BY <1>1, <1>8
  <2> QED BY <1>4, <1>6, <2>1
<1>10. ASSUME NEW k \in i .. Len(s) + 1, ByteAt(s, k) \notin S,
              \A j \in i .. k - 1 : ByteAt(s, j) \in S
       PROVE  k = m
  <2>1. m <= k
    BY <1>4, <1>6, <1>10
  <2>2. ~(m < k)
    <3> SUFFICES ASSUME m < k PROVE FALSE
      OBVIOUS
    <3>1. m \in i .. k - 1
      BY <1>1, <1>8
    <3> QED BY <1>8, <1>10, <3>1
  <2> QED BY <1>1, <1>8, <2>1, <2>2
<1> QED BY <1>7, <1>8, <1>9, <1>10

\* A scan over bytes of a kind that has found another byte stays there.
LEMMA SkipStays ==
    ASSUME NEW s, NEW w, Begins(s, w), NEW i \in 1 .. Len(s) + 1, NEW S, 0 \notin S,
           ByteAt(s, SkipOver(s, i, S)) # 0
    PROVE  SkipOver(w, i, S) = SkipOver(s, i, S)
<1>1. /\ s \in Seq(Bytes) /\ w \in Seq(Bytes) /\ Len(s) <= Len(w) /\ Len(s) \in Nat /\ Len(w) \in Nat
  BY DEF Begins
<1>2. PICK k : k = SkipOver(s, i, S)
  OBVIOUS
<1>3. /\ k \in i .. Len(s) + 1 /\ ByteAt(s, k) \notin S /\ \A j \in i .. k - 1 : ByteAt(s, j) \in S
  BY <1>1, <1>2, SkipWhere
<1>4. ByteAt(w, k) = ByteAt(s, k)
  BY <1>2, ByteStays
<1>5. ASSUME NEW j \in i .. k - 1 PROVE ByteAt(w, j) \in S
  <2>1. ByteAt(s, j) \in S /\ ByteAt(s, j) # 0
    BY <1>3
  <2> QED BY <2>1, ByteStays
<1>6. i \in 1 .. Len(w) + 1 /\ k \in i .. Len(w) + 1
  BY <1>1, <1>3
<1>7. k = SkipOver(w, i, S)
  BY <1>1, <1>3, <1>4, <1>5, <1>6, SkipWhere
<1> QED BY <1>2, <1>7

\* What a loop says from each of its states, and two loops that go on alike
\* wherever the first one is not cut.
IsLoop(F, l) ==
    \A q \in ScanState : F[q] = IF l.turn[q] = {} THEN l.verdict[q] ELSE F[Only(l.turn[q])]

GoesAlike(l, m) ==
    \A q \in ScanState : \/ l.turn[q] = {} /\ l.verdict[q] = Cut
                         \/ m.turn[q] = l.turn[q] /\ m.verdict[q] = l.verdict[q]

\* Two scans that go on alike, unless the first one is cut, end alike.
LEMMA ScansAgree ==
    ASSUME NEW n \in Nat, NEW S, NEW l \in Scans(n, S), NEW T, NEW m, NEW F, NEW H,
           GoesAlike(l, m), IsLoop(F, l), IsLoop(H, m)
    PROVE  \A q \in ScanState : F[q] # Cut => H[q] = F[q]
<1> DEFINE D == ScanState
           rank == [q \in D |-> IF q.at <= n THEN n + 1 - q.at ELSE 0]
           G == {q \in D : F[q] # Cut => H[q] = F[q]}
<1>1. \A q \in D : l.turn[q] \in SUBSET D /\ \A r \in l.turn[q] : r.at > q.at /\ q.at <= n
  BY DEF Scans
<1>2. \A q \in D : q.at \in Nat
  BY DEF ScanState
<1>3. rank \in [D -> Nat] /\ \A q \in D : rank[q] = IF q.at <= n THEN n + 1 - q.at ELSE 0
  BY <1>2
<1> HIDE DEF rank, D
<1>4. ASSUME NEW q \in D, \A r \in D : rank[r] < rank[q] => r \in G PROVE q \in G
  <2> SUFFICES ASSUME F[q] # Cut PROVE H[q] = F[q]
    OBVIOUS
  <2>1. CASE l.turn[q] = {}
    BY <2>1 DEF D, GoesAlike, IsLoop
  <2>2. CASE l.turn[q] # {}
    <3>1. m.turn[q] = l.turn[q]
      BY <2>2 DEF D, GoesAlike
    <3>2. PICK r : r = Only(l.turn[q])
      OBVIOUS
    <3>3. r \in l.turn[q]
      BY <2>2, <3>2 DEF Only
    <3>4. r \in D /\ r.at > q.at /\ q.at <= n /\ r.at \in Nat /\ q.at \in Nat
      BY <1>1, <1>2, <3>3
    <3>5. rank[r] = (IF r.at <= n THEN n + 1 - r.at ELSE 0) /\ rank[q] = n + 1 - q.at
      BY <1>3, <3>4
    <3>6. rank[r] < rank[q]
      BY <3>4, <3>5
    <3>7. F[q] = F[r] /\ H[q] = H[r]
      BY <2>2, <3>1, <3>2 DEF D, IsLoop
    <3>8. F[r] # Cut => H[r] = F[r]
      BY <1>4, <3>4, <3>6
    <3> QED BY <3>7, <3>8
  <2> QED BY <2>1, <2>2
<1>5. G \in SUBSET D
  OBVIOUS
<1> HIDE DEF G
<1>6. G = D
  BY <1>3, <1>4, <1>5, RankInduction
<1> QED BY <1>6 DEF G, D

\* One digit more.
ValueNext(v, base, b) == v * base + DigitValue(b)

LEMMA ValueStep ==
    ASSUME NEW s \in Seq(Bytes), NEW i \in Nat, NEW m \in Nat, NEW base \in Nat,
           NEW k, k = m + 1, NEW j, j = i + m
    PROVE  ValueOf(s, i, k, base) = ValueNext(ValueOf(s, i, m, base), base, ByteAt(s, j))
BY ValueIs DEF ValueNext

LEMMA ValueTurn ==
    ASSUME NEW s \in Seq(Bytes), NEW w \in Seq(Bytes), NEW i \in Nat, NEW m \in Nat,
           NEW base \in Nat, NEW k, k = m + 1, ByteAt(w, i + m) = ByteAt(s, i + m),
           ValueOf(w, i, m, base) = ValueOf(s, i, m, base)
    PROVE  ValueOf(w, i, k, base) = ValueOf(s, i, k, base)
<1>1. PICK j : j = i + m
  OBVIOUS
<1>2. ValueOf(s, i, k, base) = ValueNext(ValueOf(s, i, m, base), base, ByteAt(s, j))
  BY <1>1, ValueStep
<1>3. ValueOf(w, i, k, base) = ValueNext(ValueOf(w, i, m, base), base, ByteAt(w, j))
  BY <1>1, ValueStep
<1> QED BY <1>1, <1>2, <1>3

\* The value of digits depends on nothing else.
LEMMA ValueStays ==
    ASSUME NEW s \in Seq(Bytes), NEW w \in Seq(Bytes), NEW i \in Nat, NEW n \in Nat,
           NEW base \in Nat, \A j \in i .. i + n - 1 : ByteAt(w, j) = ByteAt(s, j)
    PROVE  ValueOf(w, i, n, base) = ValueOf(s, i, n, base)
<1> DEFINE bad == {k \in Nat : k <= n /\ ValueOf(w, i, k, base) # ValueOf(s, i, k, base)}
<1> SUFFICES ASSUME bad # {} PROVE FALSE
  OBVIOUS
<1>2. PICK k \in bad : \A j \in bad : k <= j
  <2>1. bad \subseteq Nat
    OBVIOUS
  <2> HIDE DEF bad
  <2> QED BY <2>1, Least
<1>3. k \in Nat /\ k <= n /\ ValueOf(w, i, k, base) # ValueOf(s, i, k, base)
  OBVIOUS
<1>4. k # 0
  BY <1>3, ValueIs
<1>5. PICK m : m = k - 1
  OBVIOUS
<1>6. m \in Nat /\ m + 1 = k /\ m <= n /\ ~(k <= m) /\ i + m \in i .. i + n - 1
  BY <1>3, <1>4, <1>5
<1>7. ValueOf(w, i, m, base) = ValueOf(s, i, m, base)
  BY <1>2, <1>6
<1>8. ByteAt(w, i + m) = ByteAt(s, i + m)
  BY <1>6
<1> HIDE DEF bad
<1>9. k = m + 1
  BY <1>6
<1>10. ValueOf(w, i, k, base) = ValueOf(s, i, k, base)
  BY <1>6, <1>7, <1>8, <1>9, ValueTurn
<1> QED BY <1>3, <1>10

\* An end that was seen.
LEMMA EndedStays ==
    ASSUME NEW s, NEW w, Begins(s, w), NEW end, NEW type, NEW value,
           ByteAt(s, end) # 0
    PROVE  Ended(w, end, type, value) = Ended(s, end, type, value)
<1>1. ByteAt(w, end) = ByteAt(s, end)
  BY ByteStays
<1> QED BY <1>1 DEF Ended

\* Characters differ in their codes, and only digits have those of digits.
Numerals == {"0", "1", "2", "3", "4", "5", "6", "7", "8", "9"}

LEMMA MarksAre ==
    /\ \A a, b \in DOMAIN Ord : a # b => Ord[a] # Ord[b]
    /\ \A a \in DOMAIN Ord \ Numerals : Ord[a] \notin Digits
    /\ \A a \in DOMAIN Ord : Ord[a] # 0 /\ Ord[a] # Bad
    /\ \A a \in DOMAIN Ord : \E i \in 1 .. 84 : Ord[a] = 41 + i /\ Ascii[i] = a
<1>1. DOMAIN Ascii = 1 .. 84
  BY DEF Ascii
<1>2. \A c \in Range(Ascii) : \E i \in 1 .. 84 : Ascii[i] = c
  BY <1>1 DEF Range
<1>3. DOMAIN Ord = Range(Ascii)
      /\ \A c \in Range(Ascii) : \E i \in 1 .. 84 : Ord[c] = 41 + i /\ Ascii[i] = c
  BY <1>1, <1>2 DEF Ord
<1>4. \A a, b \in DOMAIN Ord : a # b => Ord[a] # Ord[b]
  BY <1>3
<1>5. /\ Ascii[7] = "0" /\ Ascii[8] = "1" /\ Ascii[9] = "2" /\ Ascii[10] = "3" /\ Ascii[11] = "4"
      /\ Ascii[12] = "5" /\ Ascii[13] = "6" /\ Ascii[14] = "7" /\ Ascii[15] = "8" /\ Ascii[16] = "9"
  BY DEF Ascii
<1>6. \A i \in 7 .. 16 : Ascii[i] \in Numerals
  <2>1. \A i \in 7 .. 16 : i = 7 \/ i = 8 \/ i = 9 \/ i = 10 \/ i = 11 \/ i = 12 \/ i = 13
                           \/ i = 14 \/ i = 15 \/ i = 16
    OBVIOUS
  <2> QED BY <1>5, <2>1 DEF Numerals
<1>7. ASSUME NEW a \in DOMAIN Ord, a \notin Numerals PROVE Ord[a] \notin Digits
  <2>1. PICK i \in 1 .. 84 : Ord[a] = 41 + i /\ Ascii[i] = a
    BY <1>3
  <2>2. i \notin 7 .. 16
    BY <1>6, <1>7, <2>1
  <2> QED BY <2>1, <2>2 DEF Digits
<1>8. \A a \in DOMAIN Ord : Ord[a] # 0 /\ Ord[a] # Bad
  BY OrdIs DEF Bad
<1> QED BY <1>3, <1>4, <1>7, <1>8

LEMMA EndedCut ==
    ASSUME NEW s, NEW end, NEW type, NEW value, Ended(s, end, type, value).len # Cut
    PROVE  ByteAt(s, end) # 0
<1>1. NotYet.len = Cut
  BY DEF NotYet, Scanned
<1> SUFFICES ASSUME ByteAt(s, end) = 0 PROVE FALSE
  OBVIOUS
<1>2. Ended(s, end, type, value) = NotYet
  <2>1. 0 \notin Range(NumberEnds) \cup Spaces
    <3>1. NumberEnds = Text(<<Ascii[52], Ascii[84], Ascii[3]>>)
      BY Zenon DEF NumberEnds, Ascii
    <3>2. DOMAIN Ord = Range(Ascii) /\ DOMAIN Ascii = 1 .. 84
      BY DEF Ord, Ascii
    <3>3. Ascii[52] \in DOMAIN Ord /\ Ascii[84] \in DOMAIN Ord /\ Ascii[3] \in DOMAIN Ord
      BY <3>2 DEF Range
    <3>4. \A c \in Range(NumberEnds) : \E a \in DOMAIN Ord : c = Ord[a]
      BY <3>1, <3>3 DEF Text, Range
    <3> QED BY <3>4, MarksAre DEF Spaces
  <2> QED BY <2>1 DEF Ended
<1> QED BY <1>1, <1>2

-----------------------------------------------------------------------------
(* Words, comments and numbers stay. *)

\* A keyword that has matched, or has been ruled out.
LEMMA MatchStays ==
    ASSUME NEW S, NEW s \in Seq(S), NEW w \in Seq(S), NEW keyword \in Seq(S),
           Len(s) <= Len(w), \A i \in 1 .. Len(s) : w[i] = s[i],
           MatchKeyword(s, keyword) # Cut
    PROVE  MatchKeyword(w, keyword) = MatchKeyword(s, keyword)
<1>1. Len(s) \in Nat /\ Len(w) \in Nat /\ Len(keyword) \in Nat
  OBVIOUS
<1>2. ~IsPrefix(s, keyword)
  BY DEF MatchKeyword
<1>3. IsPrefix(keyword, s) <=> IsPrefix(keyword, w)
  <2>1. ASSUME IsPrefix(keyword, s) PROVE IsPrefix(keyword, w)
    <3>1. Len(keyword) <= Len(s) /\ \A i \in 1 .. Len(keyword) : keyword[i] = s[i]
      BY <2>1, PrefixIs
    <3>2. Len(keyword) <= Len(w) /\ \A i \in 1 .. Len(keyword) : keyword[i] = w[i]
      BY <1>1, <3>1
    <3> QED BY <3>2, PrefixIs
  <2>2. ASSUME IsPrefix(keyword, w) PROVE IsPrefix(keyword, s)
    <3>1. Len(keyword) <= Len(w) /\ \A i \in 1 .. Len(keyword) : keyword[i] = w[i]
      BY <2>2, PrefixIs
    <3>2. CASE Len(keyword) <= Len(s)
      <4>1. \A i \in 1 .. Len(keyword) : keyword[i] = s[i]
        BY <1>1, <3>1, <3>2
      <4> QED BY <3>2, <4>1, PrefixIs
    <3>3. CASE Len(s) < Len(keyword)
      <4>1. Len(s) <= Len(keyword) /\ \A i \in 1 .. Len(s) : s[i] = keyword[i]
        BY <1>1, <3>1, <3>3
      <4> QED BY <1>2, <4>1, PrefixIs
    <3> QED BY <1>1, <3>2, <3>3
  <2> QED BY <2>1, <2>2
<1>4. ~IsPrefix(w, keyword)
  <2> SUFFICES ASSUME IsPrefix(w, keyword) PROVE FALSE
    OBVIOUS
  <2>1. Len(w) <= Len(keyword) /\ \A i \in 1 .. Len(w) : w[i] = keyword[i]
    BY PrefixIs
  <2>2. Len(s) <= Len(keyword) /\ \A i \in 1 .. Len(s) : s[i] = keyword[i]
    BY <1>1, <2>1
  <2> QED BY <1>2, <2>2, PrefixIs
<1> QED BY <1>2, <1>3, <1>4, Zenon DEF MatchKeyword

LEMMA KeywordStays ==
    ASSUME NEW s \in Seq(Bytes), NEW w \in Seq(Bytes), NEW S, NEW keyword \in Seq(S),
           Len(s) <= Len(w), \A i \in 1 .. Len(s) : w[i] = s[i]
    PROVE  MatchKeyword(s, keyword) # Cut => MatchKeyword(w, keyword) = MatchKeyword(s, keyword)
<1> DEFINE C == Bytes \cup S
<1>1. s \in Seq(C) /\ w \in Seq(C) /\ keyword \in Seq(C)
  OBVIOUS
<1> HIDE DEF C
<1> QED BY <1>1, MatchStays

\* A keyword that has not been ruled out has the first letter in common.
LEMMA KeywordBegins ==
    ASSUME NEW s \in Seq(Bytes), s # <<>>, NEW S, NEW keyword \in Seq(S), keyword # <<>>,
           MatchKeyword(s, keyword) # Bad
    PROVE  s[1] = keyword[1]
<1> DEFINE C == Bytes \cup S
<1>1. s \in Seq(C) /\ keyword \in Seq(C) /\ Len(s) \in Nat \ {0} /\ Len(keyword) \in Nat \ {0}
  OBVIOUS
<1> HIDE DEF C
<1>2. IsPrefix(s, keyword) \/ IsPrefix(keyword, s)
  BY DEF MatchKeyword
<1>3. 1 \in 1 .. Len(s) /\ 1 \in 1 .. Len(keyword)
  BY <1>1
<1>4. IsPrefix(s, keyword) => \A i \in 1 .. Len(s) : s[i] = keyword[i]
  BY <1>1, PrefixIs
<1>5. IsPrefix(keyword, s) => \A i \in 1 .. Len(keyword) : keyword[i] = s[i]
  BY <1>1, PrefixIs
<1> QED BY <1>2, <1>3, <1>4, <1>5

\* At most one of the keywords has not been ruled out.
LEMMA WordsDiffer ==
    ASSUME NEW s \in Seq(Bytes), s # <<>>
    PROVE  LET t == MatchKeyword(s, True)
               f == MatchKeyword(s, False)
               n == MatchKeyword(s, Null)
           IN  ~(t # Bad /\ f # Bad) /\ ~(t # Bad /\ n # Bad) /\ ~(f # Bad /\ n # Bad)
<1> DEFINE C == {Ord[c] : c \in Letters}
<1>1. True \in Seq(C) /\ False \in Seq(C) /\ Null \in Seq(C)
  BY WordIs
<1>2. True[1] = Ord["t"] /\ False[1] = Ord["f"] /\ Null[1] = Ord["n"]
      /\ True # <<>> /\ False # <<>> /\ Null # <<>>
  BY DEF True, False, Null, Text
<1>3. Ord["t"] # Ord["f"] /\ Ord["t"] # Ord["n"] /\ Ord["f"] # Ord["n"]
  <2>1. {"t", "f", "n"} \subseteq DOMAIN Ord
    <3>1. Ascii[75] = "t" /\ Ascii[61] = "f" /\ Ascii[69] = "n" /\ DOMAIN Ascii = 1 .. 84
      BY DEF Ascii
    <3>2. DOMAIN Ord = Range(Ascii)
      BY DEF Ord
    <3> QED BY <3>1, <3>2 DEF Range
  <2> QED BY <2>1, MarksAre
<1> HIDE DEF C
<1>4. /\ MatchKeyword(s, True) # Bad => s[1] = Ord["t"]
      /\ MatchKeyword(s, False) # Bad => s[1] = Ord["f"]
      /\ MatchKeyword(s, Null) # Bad => s[1] = Ord["n"]
  BY <1>1, <1>2, KeywordBegins
<1> QED BY <1>3, <1>4

LEMMA WordStays ==
    ASSUME NEW s, NEW w, Begins(s, w), ParseWord(s).len # Cut
    PROVE  ParseWord(w) = ParseWord(s)
<1> DEFINE C == {Ord[c] : c \in Letters}
           t(u) == MatchKeyword(u, True)
           f(u) == MatchKeyword(u, False)
           n(u) == MatchKeyword(u, Null)
<1>1. /\ s \in Seq(Bytes) /\ w \in Seq(Bytes) /\ Len(s) <= Len(w) /\ s # <<>> /\ w # <<>>
      /\ \A i \in 1 .. Len(s) : w[i] = s[i]
  BY DEF Begins
<1>2. True \in Seq(C) /\ False \in Seq(C) /\ Null \in Seq(C)
  BY WordIs
<1> HIDE DEF C
<1>3. (t(s) # Cut => t(w) = t(s)) /\ (f(s) # Cut => f(w) = f(s)) /\ (n(s) # Cut => n(w) = n(s))
  BY <1>1, <1>2, KeywordStays
<1>4. \A u \in {s, w} :
         /\ t(u) # Bad => ParseWord(u) = Scanned(t(u), "bool", <<1>>)
         /\ f(u) # Bad => ParseWord(u) = Scanned(f(u), "bool", <<0>>)
         /\ n(u) # Bad => ParseWord(u) = Scanned(n(u), "null", <<>>)
         /\ t(u) = Bad /\ f(u) = Bad /\ n(u) = Bad => ParseWord(u) = NoLexeme
  <2> TAKE u \in {s, w}
  <2>1. ~(t(u) # Bad /\ f(u) # Bad) /\ ~(t(u) # Bad /\ n(u) # Bad) /\ ~(f(u) # Bad /\ n(u) # Bad)
    BY <1>1, WordsDiffer
  <2> QED BY <2>1 DEF ParseWord
<1> HIDE DEF t, f, n
<1>6. \A k : Scanned(k, "bool", <<1>>).len = k /\ Scanned(k, "bool", <<0>>).len = k
             /\ Scanned(k, "null", <<>>).len = k
  BY DEF Scanned
<1>7. t(s) # Cut /\ f(s) # Cut /\ n(s) # Cut
  <2>1. Bad # Cut
    BY DEF Bad, Cut
  <2> QED BY <1>4, <1>6, <2>1
<1>8. t(w) = t(s) /\ f(w) = f(s) /\ n(w) = n(s)
  BY <1>3, <1>7
<1> QED BY <1>4, <1>8

LEMMA CommentStays ==
    ASSUME NEW s, NEW w, Begins(s, w), DetermineComment(s) # Cut
    PROVE  DetermineComment(w) = DetermineComment(s)
<1> DEFINE closes(t) == {i \in 2 .. Len(t) - 1 : t[i] = Ord["*"] /\ t[i + 1] = Ord["/"]}
           breaks(t) == {i \in 2 .. Len(t) : t[i] \in {CR, LF}}
           IsStar(t) == ByteAt(t, 2) = Ord["*"]
           IsSlash(t) == ByteAt(t, 2) = Ord["/"]
<1>1. /\ s \in Seq(Bytes) /\ w \in Seq(Bytes) /\ Len(s) <= Len(w) /\ Len(s) \in Nat /\ Len(w) \in Nat
      /\ \A i \in 1 .. Len(s) : w[i] = s[i]
  BY DEF Begins
<1>2. \A t : DetermineComment(t) =
             IF IsStar(t) THEN (IF closes(t) = {} THEN Cut ELSE Min(closes(t)) + 1)
             ELSE IF IsSlash(t) THEN (IF breaks(t) = {} THEN Cut ELSE Min(breaks(t)) - 1)
             ELSE IF ByteAt(t, 2) = 0 THEN Cut ELSE Bad
  <2> TAKE t
  <2>1. Ord["*"] # Ord["/"] /\ Ord["*"] # 0 /\ Ord["/"] # 0
    BY OrdIs, MarksAre
  <2> QED BY <2>1 DEF DetermineComment
<1>3. ByteAt(s, 2) # 0
  <2>1. Ord["*"] # 0 /\ Ord["/"] # 0
    <3>1. Ord["*"] \in 42 .. 125 /\ Ord["/"] \in 42 .. 125
      BY OrdIs
    <3> QED BY <3>1
  <2> SUFFICES ASSUME ByteAt(s, 2) = 0 PROVE FALSE
    OBVIOUS
  <2>2. ~IsStar(s) /\ ~IsSlash(s)
    BY <2>1
  <2> HIDE DEF IsStar, IsSlash, closes, breaks
  <2> QED BY <1>2, <2>2
<1>4. ByteAt(w, 2) = ByteAt(s, 2)
  BY <1>3, ByteStays
<1>5. ASSUME closes(s) # {} PROVE closes(w) # {} /\ Min(closes(w)) = Min(closes(s))
  <2>1. closes(s) \in SUBSET Nat /\ closes(w) \in SUBSET Nat
    BY <1>1
  <2>2. \A i \in closes(s) : i \in closes(w)
    <3> TAKE i \in closes(s)
    <3>1. i \in 2 .. Len(s) - 1 /\ s[i] = Ord["*"] /\ s[i + 1] = Ord["/"]
      OBVIOUS
    <3>2. i \in 1 .. Len(s) /\ i + 1 \in 1 .. Len(s) /\ i \in 2 .. Len(w) - 1
      BY <1>1, <3>1
    <3>3. w[i] = s[i] /\ w[i + 1] = s[i + 1]
      BY <1>1, <3>2
    <3> QED BY <3>1, <3>2, <3>3
  <2>3. \A i \in closes(w) : i \in closes(s) \/ Len(s) - 1 < i
    <3> TAKE i \in closes(w)
    <3>1. i \in 2 .. Len(w) - 1 /\ w[i] = Ord["*"] /\ w[i + 1] = Ord["/"]
      OBVIOUS
    <3> SUFFICES ASSUME i <= Len(s) - 1 PROVE i \in closes(s)
      BY <1>1, <3>1
    <3>2. i \in 1 .. Len(s) /\ i + 1 \in 1 .. Len(s) /\ i \in 2 .. Len(s) - 1
      BY <1>1, <3>1
    <3>3. w[i] = s[i] /\ w[i + 1] = s[i + 1]
      BY <1>1, <3>2
    <3> QED BY <3>1, <3>2, <3>3
  <2>4. \A i \in closes(s) : i <= Len(s) - 1
    BY <1>1
  <2>5. PICK a, b : a = closes(s) /\ b = closes(w)
    OBVIOUS
  <2> HIDE DEF closes
  <2>6. b # {} /\ a # {}
    BY <1>5, <2>2, <2>5
  <2>7. Min(a) \in a /\ Min(b) \in b /\ (\A y \in a : Min(a) <= y) /\ \A y \in b : Min(b) <= y
    BY <2>1, <2>5, <2>6, MinIs
  <2>8. Min(a) \in Nat /\ Min(b) \in Nat /\ Min(b) <= Min(a)
    BY <2>1, <2>2, <2>5, <2>7
  <2>9. Min(b) \in a
    BY <1>1, <2>3, <2>4, <2>5, <2>7, <2>8
  <2>10. Min(a) <= Min(b)
    BY <2>7, <2>9
  <2> QED BY <2>5, <2>6, <2>8, <2>10
<1>6. ASSUME breaks(s) # {} PROVE breaks(w) # {} /\ Min(breaks(w)) = Min(breaks(s))
  <2>1. breaks(s) \in SUBSET Nat /\ breaks(w) \in SUBSET Nat
    BY <1>1
  <2>2. \A i \in breaks(s) : i \in breaks(w)
    BY <1>1
  <2>3. \A i \in breaks(w) : i \in breaks(s) \/ Len(s) < i
    BY <1>1
  <2>4. \A i \in breaks(s) : i <= Len(s)
    BY <1>1
  <2>5. PICK a, b : a = breaks(s) /\ b = breaks(w)
    OBVIOUS
  <2> HIDE DEF breaks
  <2>6. b # {} /\ a # {}
    BY <1>6, <2>2, <2>5
  <2>7. Min(a) \in a /\ Min(b) \in b /\ (\A y \in a : Min(a) <= y) /\ \A y \in b : Min(b) <= y
    BY <2>1, <2>5, <2>6, MinIs
  <2>8. Min(a) \in Nat /\ Min(b) \in Nat /\ Min(b) <= Min(a)
    BY <2>1, <2>2, <2>5, <2>7
  <2>9. Min(b) \in a
    BY <1>1, <2>3, <2>4, <2>5, <2>7, <2>8
  <2>10. Min(a) <= Min(b)
    BY <2>7, <2>9
  <2> QED BY <2>5, <2>6, <2>8, <2>10
<1>7. (IsStar(w) <=> IsStar(s)) /\ (IsSlash(w) <=> IsSlash(s))
  BY <1>4
<1> HIDE DEF closes, breaks, IsStar, IsSlash
<1>8. CASE IsStar(s)
  <2>1. closes(s) # {}
    BY <1>2, <1>8
  <2> QED BY <1>2, <1>5, <1>7, <1>8, <2>1
<1>9. CASE ~IsStar(s) /\ IsSlash(s)
  <2>1. breaks(s) # {}
    BY <1>2, <1>9
  <2> QED BY <1>2, <1>6, <1>7, <1>9, <2>1
<1>10. CASE ~IsStar(s) /\ ~IsSlash(s)
  BY <1>2, <1>3, <1>4, <1>7, <1>10
<1> QED BY <1>8, <1>9, <1>10

\* The parts strtod reads.
FirstOf(s) == IF ByteAt(s, 1) \in {Ord["+"], Ord["-"]} THEN 2 ELSE 1
IntEnd(s) == SkipOver(s, FirstOf(s), Digits)
FracEnd(s) == IF ByteAt(s, IntEnd(s)) = Ord["."] THEN SkipOver(s, IntEnd(s) + 1, Digits) ELSE IntEnd(s)
HasDigits(s) == IntEnd(s) > FirstOf(s) \/ FracEnd(s) > IntEnd(s) + 1
PowerAt(s) == IF ByteAt(s, FracEnd(s) + 1) \in {Ord["+"], Ord["-"]} THEN FracEnd(s) + 2 ELSE FracEnd(s) + 1
HasPower(s) == ByteAt(s, FracEnd(s)) \in {Ord["e"], Ord["E"]} /\ ByteAt(s, PowerAt(s)) \in Digits

LEMMA StrtodReads ==
    ASSUME NEW s
    PROVE  StrtodEnd(s) = IF ~HasDigits(s) THEN 1
                          ELSE IF HasPower(s) THEN SkipOver(s, PowerAt(s), Digits) ELSE FracEnd(s)
BY Zenon DEF StrtodEnd, HasDigits, HasPower, PowerAt, FracEnd, IntEnd, FirstOf

Marks == {Ord["."], Ord["e"], Ord["E"]}
SignMarks == {Ord["+"], Ord["-"]}

LEMMA MarksDiffer ==
    /\ Marks \cap SignMarks = {} /\ Marks \cap Digits = {} /\ SignMarks \cap Digits = {}
    /\ Ord["."] \notin {Ord["e"], Ord["E"]} /\ 0 \notin Marks \cup SignMarks \cup Digits
<1>1. {".", "e", "E", "+", "-"} \subseteq DOMAIN Ord /\ {".", "e", "E", "+", "-"} \cap Numerals = {}
  BY OrdIs DEF Numerals
<1>2. 0 \notin Digits
  BY DEF Digits
<1> QED BY <1>1, <1>2, MarksAre DEF Marks, SignMarks

\* Where a fraction or an exponent begins that has not been cut there.
PointAt(s, point) ==
    /\ point \in 1 .. Len(s) /\ s[point] \in Marks
    /\ s[point] = Ord["."] => ByteAt(s, point + 1) # 0
    /\ s[point] \in {Ord["e"], Ord["E"]}
       => SkipOver(s, point + 1, Digits \cup SignMarks) # Len(s) + 1

\* The text ends in the exponent behind a fraction.
ExponentCut(s) ==
    /\ \E i \in 1 .. Len(s) : s[i] = Ord["."]
    /\ s[Len(s)] \in {Ord["e"], Ord["E"]} \cup SignMarks

\* The end of the digits before the point has been seen.
LEMMA IntStays ==
    ASSUME NEW s, NEW w, Begins(s, w), NEW point, PointAt(s, point), ByteAt(s, StrtodEnd(s)) # 0
    PROVE  /\ FirstOf(w) = FirstOf(s) /\ FirstOf(s) \in {1, 2} /\ FirstOf(s) <= Len(s)
           /\ FirstOf(s) = 2 => s[1] \in SignMarks
           /\ IntEnd(w) = IntEnd(s) /\ IntEnd(s) \in FirstOf(s) .. Len(s)
           /\ ByteAt(s, IntEnd(s)) # 0
           /\ \A j \in FirstOf(s) .. IntEnd(s) - 1 : s[j] \in Digits
<1>1. /\ s \in Seq(Bytes) /\ w \in Seq(Bytes) /\ Len(s) \in Nat \ {0} /\ 1 \in 1 .. Len(s)
      /\ 0 \notin Digits
  BY DEF Begins, Digits
<1>2. PICK first, int, dot : first = FirstOf(s) /\ int = IntEnd(s) /\ dot = Ord["."]
  OBVIOUS
<1>3. ByteAt(w, 1) = ByteAt(s, 1) /\ ByteAt(s, 1) = s[1]
  BY <1>1, ByteStays
<1>4. FirstOf(w) = first /\ first \in {1, 2} /\ first <= Len(s) + 1 /\ (first = 2 => s[1] \in SignMarks)
  BY <1>1, <1>2, <1>3 DEF FirstOf, SignMarks
<1>5. first \in 1 .. Len(s) + 1
  BY <1>1, <1>4
<1>6. int = SkipOver(s, first, Digits)
  BY <1>2 DEF IntEnd
<1>7. /\ int \in first .. Len(s) + 1 /\ ByteAt(s, int) \notin Digits
      /\ \A j \in first .. int - 1 : ByteAt(s, j) \in Digits
  BY <1>1, <1>5, <1>6, SkipWhere
<1>8. ByteAt(s, int) # 0
  <2> SUFFICES ASSUME ByteAt(s, int) = 0 PROVE FALSE
    OBVIOUS
  <2>1. int \notin 1 .. Len(s)
    BY ByteStays
  <2>2. int = Len(s) + 1
    BY <1>1, <1>4, <1>7, <2>1
  <2>3. FracEnd(s) = int
    <3>1. ByteAt(s, int) # dot
      BY <1>2, MarksDiffer DEF Marks
    <3> QED BY <1>2, <3>1 DEF FracEnd
  <2>4. ~HasPower(s)
    BY <2>3, MarksDiffer DEF HasPower, Marks
  <2>5. ~HasDigits(s)
    <3> SUFFICES ASSUME HasDigits(s) PROVE FALSE
      OBVIOUS
    <3>1. StrtodEnd(s) = int
      BY <2>3, <2>4, StrtodReads
    <3> QED BY <3>1
  <2>6. ~(int > first)
    BY <1>2, <2>5 DEF HasDigits
  <2>7. first = 2 /\ Len(s) = 1
    <3>1. PICK n : n = Len(s)
      OBVIOUS
    <3>2. n \in Nat \ {0} /\ int = n + 1 /\ first \in {1, 2}
      BY <1>1, <1>4, <2>2, <3>1
    <3>3. int >= first
      BY <1>7, <3>2
    <3>4. int = first
      BY <2>6, <3>2, <3>3
    <3>5. first = 2 /\ n = 1
      BY <3>2, <3>4
    <3> QED BY <3>1, <3>5
  <2>8. point = 1 /\ s[1] \in Marks /\ s[1] \in SignMarks
    BY <1>4, <2>7 DEF PointAt
  <2> QED BY <2>8, MarksDiffer
<1>9. SkipOver(w, first, Digits) = int
  BY <1>1, <1>5, <1>6, <1>8, SkipStays
<1>10. IntEnd(w) = int
  BY <1>2, <1>4, <1>9 DEF IntEnd
<1>11. int \in 1 .. Len(s)
  BY <1>8, ByteStays
<1>12. int \in first .. Len(s) /\ first <= Len(s)
  BY <1>1, <1>4, <1>7, <1>11
<1>13. \A j \in first .. int - 1 : s[j] \in Digits
  <2> TAKE j \in first .. int - 1
  <2>1. j \in 1 .. Len(s)
    BY <1>1, <1>4, <1>12
  <2> QED BY <1>7, <2>1, ByteStays
<1> QED BY <1>2, <1>4, <1>8, <1>10, <1>12, <1>13

\* And so has the end of those behind it.
LEMMA FracStays ==
    ASSUME NEW s, NEW w, Begins(s, w), NEW point, PointAt(s, point), ByteAt(s, StrtodEnd(s)) # 0
    PROVE  /\ FracEnd(w) = FracEnd(s) /\ FracEnd(s) \in IntEnd(s) .. Len(s)
           /\ ByteAt(s, FracEnd(s)) # 0
           /\ HasDigits(w) <=> HasDigits(s)
           /\ \A j \in 1 .. FracEnd(s) - 1 : s[j] \notin {Ord["e"], Ord["E"]}
<1>1. /\ s \in Seq(Bytes) /\ w \in Seq(Bytes) /\ Len(s) \in Nat \ {0} /\ 1 \in 1 .. Len(s)
      /\ 0 \notin Digits
  BY DEF Begins, Digits
<1>2. PICK first, int, frac, dot :
        first = FirstOf(s) /\ int = IntEnd(s) /\ frac = FracEnd(s) /\ dot = Ord["."]
  OBVIOUS
<1>3. /\ FirstOf(w) = first /\ first \in {1, 2} /\ first <= Len(s) /\ (first = 2 => s[1] \in SignMarks)
      /\ IntEnd(w) = int /\ int \in first .. Len(s) /\ ByteAt(s, int) # 0
      /\ \A j \in first .. int - 1 : s[j] \in Digits
  BY <1>2, IntStays
<1>4. int \in 1 .. Len(s) /\ ByteAt(s, int) = s[int] /\ ByteAt(w, int) = ByteAt(s, int)
  BY <1>3, ByteStays
<1>5. CASE s[int] # dot
  <2>1. frac = int /\ FracEnd(w) = int
    BY <1>2, <1>3, <1>4, <1>5 DEF FracEnd
  <2>2. HasDigits(w) <=> HasDigits(s)
    BY <1>2, <1>3, <2>1 DEF HasDigits
  <2>3. \A j \in 1 .. frac - 1 : s[j] \notin {Ord["e"], Ord["E"]}
    <3> TAKE j \in 1 .. frac - 1
    <3>1. CASE j < first
      <4>1. first = 2 /\ j = 1
        BY <1>1, <1>3, <3>1
      <4> QED BY <1>3, <4>1, MarksDiffer DEF Marks
    <3>2. CASE ~(j < first)
      <4>1. j \in first .. int - 1
        BY <1>1, <1>3, <2>1, <3>2
      <4> QED BY <1>3, <4>1, MarksDiffer DEF Marks
    <3> QED BY <3>1, <3>2
  <2>4. int \in int .. Len(s)
    BY <1>4
  <2> QED BY <1>2, <1>3, <2>1, <2>2, <2>3, <2>4
<1>6. CASE s[int] = dot
  <2>1. frac = SkipOver(s, int + 1, Digits)
    BY <1>2, <1>4, <1>6 DEF FracEnd
  <2>2. int + 1 \in 1 .. Len(s) + 1
    BY <1>1, <1>4
  <2>3. /\ frac \in int + 1 .. Len(s) + 1 /\ ByteAt(s, frac) \notin Digits
        /\ \A j \in int + 1 .. frac - 1 : ByteAt(s, j) \in Digits
    BY <1>1, <2>1, <2>2, SkipWhere
  <2>4. ByteAt(s, frac) # 0
    <3> SUFFICES ASSUME ByteAt(s, frac) = 0 PROVE FALSE
      OBVIOUS
    <3>1. frac \notin 1 .. Len(s)
      BY ByteStays
    <3>2. frac = Len(s) + 1
      BY <1>1, <1>4, <2>3, <3>1
    <3>3. ~HasPower(s)
      BY <1>2, MarksDiffer DEF HasPower, Marks
    <3>4. ~HasDigits(s)
      <4> SUFFICES ASSUME HasDigits(s) PROVE FALSE
        OBVIOUS
      <4>1. StrtodEnd(s) = frac
        BY <1>2, <3>3, StrtodReads
      <4> QED BY <4>1
    <3>5. ~(int > first) /\ ~(frac > int + 1)
      BY <1>2, <3>4 DEF HasDigits
    <3>6. int = first /\ int = Len(s)
      BY <1>1, <1>3, <2>3, <3>2, <3>5
    <3>7. point = int
      <4>1. point \in 1 .. Len(s) /\ s[point] \in Marks
        BY DEF PointAt
      <4>2. ~(point < first)
        <5> SUFFICES ASSUME point < first PROVE FALSE
          OBVIOUS
        <5>1. first = 2 /\ point = 1
          BY <1>1, <1>3, <4>1
        <5> QED BY <1>3, <4>1, <5>1, MarksDiffer
      <4> QED BY <1>1, <1>3, <3>6, <4>1, <4>2
    <3>8. ByteAt(s, int + 1) # 0
      BY <1>2, <1>6, <3>7 DEF PointAt
    <3>9. int + 1 \in 1 .. Len(s)
      BY <3>8, ByteStays
    <3> QED BY <1>1, <3>6, <3>9
  <2>5. SkipOver(w, int + 1, Digits) = frac
    BY <1>1, <2>1, <2>2, <2>4, SkipStays
  <2>6. FracEnd(w) = frac
    BY <1>2, <1>3, <1>4, <1>6, <2>5 DEF FracEnd
  <2>7. HasDigits(w) <=> HasDigits(s)
    BY <1>2, <1>3, <2>6 DEF HasDigits
  <2>8. frac \in 1 .. Len(s)
    BY <2>4, ByteStays
  <2>9. \A j \in 1 .. frac - 1 : s[j] \notin {Ord["e"], Ord["E"]}
    <3> TAKE j \in 1 .. frac - 1
    <3>1. CASE j < first
      <4>1. first = 2 /\ j = 1
        BY <1>1, <1>3, <3>1
      <4> QED BY <1>3, <4>1, MarksDiffer DEF Marks
    <3>2. CASE ~(j < first) /\ j < int
      <4>1. j \in first .. int - 1
        BY <1>1, <1>3, <3>2
      <4> QED BY <1>3, <4>1, MarksDiffer DEF Marks
    <3>3. CASE j = int
      BY <1>2, <1>6, <3>3, MarksDiffer
    <3>4. CASE int < j
      <4>1. j \in int + 1 .. frac - 1 /\ j \in 1 .. Len(s)
        BY <1>1, <1>4, <2>8, <3>4
      <4>2. s[j] \in Digits
        BY <2>3, <4>1, ByteStays
      <4> QED BY <4>2, MarksDiffer DEF Marks
    <3> QED BY <1>1, <1>3, <3>1, <3>2, <3>3, <3>4
  <2>10. frac \in int .. Len(s)
    BY <1>1, <1>4, <2>3, <2>8
  <2> QED BY <1>2, <2>4, <2>6, <2>7, <2>9, <2>10
<1> QED BY <1>5, <1>6

\* What strtod takes for a number is that number when more follows.
LEMMA StrtodStays ==
    ASSUME NEW s, NEW w, Begins(s, w), NEW point, PointAt(s, point), ~ExponentCut(s),
           ByteAt(s, StrtodEnd(s)) # 0
    PROVE  StrtodEnd(w) = StrtodEnd(s)
<1>1. /\ s \in Seq(Bytes) /\ w \in Seq(Bytes) /\ Len(s) \in Nat \ {0} /\ Len(s) \in 1 .. Len(s)
      /\ 0 \notin Digits
  BY DEF Begins, Digits
<1>2. PICK frac, power : frac = FracEnd(s) /\ power = PowerAt(s)
  OBVIOUS
<1>3. /\ FracEnd(w) = frac /\ frac \in 1 .. Len(s) /\ ByteAt(s, frac) # 0
      /\ HasDigits(w) <=> HasDigits(s)
      /\ \A j \in 1 .. frac - 1 : s[j] \notin {Ord["e"], Ord["E"]}
  <2>1. /\ FracEnd(w) = frac /\ ByteAt(s, frac) # 0
        /\ HasDigits(w) <=> HasDigits(s)
        /\ \A j \in 1 .. frac - 1 : s[j] \notin {Ord["e"], Ord["E"]}
    BY <1>2, FracStays
  <2>2. frac \in 1 .. Len(s)
    BY <2>1, ByteStays
  <2> QED BY <2>1, <2>2
<1>4. ByteAt(w, frac) = ByteAt(s, frac) /\ ByteAt(s, frac) = s[frac]
  BY <1>3, ByteStays
<1>5. CASE ~HasDigits(s)
  BY <1>3, <1>5, StrtodReads
<1>6. CASE HasDigits(s) /\ s[frac] \notin {Ord["e"], Ord["E"]}
  <2>1. ~HasPower(s) /\ ~HasPower(w)
    BY <1>2, <1>3, <1>4, <1>6 DEF HasPower
  <2> QED BY <1>2, <1>3, <1>6, <2>1, StrtodReads
<1>7. CASE HasDigits(s) /\ s[frac] \in {Ord["e"], Ord["E"]}
  <2>1. ASSUME \A i \in 1 .. Len(s) : s[i] # Ord["."]
        PROVE  /\ point >= frac /\ s[point] \in {Ord["e"], Ord["E"]} /\ point \in 1 .. Len(s)
               /\ SkipOver(s, point + 1, Digits \cup SignMarks) # Len(s) + 1
    <3>1. s[point] \in {Ord["e"], Ord["E"]} /\ point \in 1 .. Len(s)
      BY <2>1 DEF PointAt, Marks
    <3>2. ~(point <= frac - 1)
      BY <1>3, <3>1
    <3> QED BY <1>1, <1>3, <3>1, <3>2 DEF PointAt
  <2>2. ByteAt(s, frac + 1) # 0
    <3> SUFFICES ASSUME ByteAt(s, frac + 1) = 0 PROVE FALSE
      OBVIOUS
    <3>1. frac + 1 \notin 1 .. Len(s)
      BY ByteStays
    <3>2. frac = Len(s)
      BY <1>1, <1>3, <3>1
    <3>3. \A i \in 1 .. Len(s) : s[i] # Ord["."]
      BY <1>7, <3>2 DEF ExponentCut
    <3>4. point = Len(s)
      BY <1>1, <2>1, <3>2, <3>3
    <3>5. 0 \notin Digits \cup SignMarks /\ Len(s) + 1 \in 1 .. Len(s) + 1
      BY <1>1, MarksDiffer
    <3>6. SkipOver(s, Len(s) + 1, Digits \cup SignMarks) \in Len(s) + 1 .. Len(s) + 1
      BY <1>1, <3>5, SkipWhere
    <3>7. SkipOver(s, Len(s) + 1, Digits \cup SignMarks) = Len(s) + 1
      BY <1>1, <3>6
    <3> QED BY <2>1, <3>3, <3>4, <3>7
  <2>3. ByteAt(w, frac + 1) = ByteAt(s, frac + 1) /\ frac + 1 \in 1 .. Len(s)
    BY <2>2, ByteStays
  <2>4. PowerAt(w) = power /\ power \in {frac + 1, frac + 2}
    BY <1>2, <1>3, <2>3 DEF PowerAt
  <2>5. ByteAt(s, power) # 0
    <3> SUFFICES ASSUME ByteAt(s, power) = 0 PROVE FALSE
      OBVIOUS
    <3>1. power = frac + 2 /\ ByteAt(s, frac + 1) \in SignMarks
      BY <1>2, <2>2, <2>4 DEF PowerAt, SignMarks
    <3>2. power \notin 1 .. Len(s)
      BY ByteStays
    <3>3. frac + 1 = Len(s)
      BY <1>1, <1>3, <2>3, <3>1, <3>2
    <3>4. s[Len(s)] \in SignMarks
      BY <2>3, <3>1, <3>3, ByteStays
    <3>5. \A i \in 1 .. Len(s) : s[i] # Ord["."]
      BY <3>4 DEF ExponentCut
    <3>6. point # Len(s)
      BY <2>1, <3>4, <3>5, MarksDiffer DEF Marks
    <3>7. point + 1 = Len(s)
      BY <1>1, <1>3, <2>1, <3>3, <3>5, <3>6
    <3>8. 0 \notin Digits \cup SignMarks /\ Len(s) \in 1 .. Len(s) + 1
      BY <1>1, MarksDiffer
    <3>9. PICK k : k = SkipOver(s, Len(s), Digits \cup SignMarks)
      OBVIOUS
    <3>10. k \in Len(s) .. Len(s) + 1 /\ ByteAt(s, k) \notin Digits \cup SignMarks
      BY <1>1, <3>8, <3>9, SkipWhere
    <3>11. k # Len(s)
      BY <1>1, <3>4, <3>10, ByteStays
    <3>12. k = Len(s) + 1
      BY <1>1, <3>10, <3>11
    <3> QED BY <2>1, <3>5, <3>7, <3>9, <3>12
  <2>6. ByteAt(w, power) = ByteAt(s, power) /\ power \in 1 .. Len(s)
    BY <2>5, ByteStays
  <2>7. HasPower(w) <=> HasPower(s)
    BY <1>2, <1>3, <1>4, <2>4, <2>6 DEF HasPower
  <2>8. HasPower(s) => SkipOver(w, power, Digits) = SkipOver(s, power, Digits)
    <3> SUFFICES ASSUME HasPower(s) PROVE SkipOver(w, power, Digits) = SkipOver(s, power, Digits)
      OBVIOUS
    <3>1. StrtodEnd(s) = SkipOver(s, power, Digits)
      BY <1>2, <1>7, StrtodReads
    <3>2. power \in 1 .. Len(s) + 1
      BY <1>1, <2>6
    <3> QED BY <1>1, <3>1, <3>2, SkipStays
  <2> QED BY <1>2, <1>3, <1>7, <2>4, <2>7, <2>8, StrtodReads
<1> QED BY <1>5, <1>6, <1>7

\* A fraction or an exponent that has been taken, or refused.
LEMMA FloatStays ==
    ASSUME NEW s, NEW w, Begins(s, w), NEW point \in 1 .. Len(s), s[point] \in Marks,
           ~ExponentCut(s), ParseFloat(s, point).len # Cut
    PROVE  ParseFloat(w, point) = ParseFloat(s, point)
<1> DEFINE E == {Ord["e"], Ord["E"]}
           D == Digits \cup {Ord["+"], Ord["-"]}
           End(t) == Ended(t, StrtodEnd(t), "float", <<>>)
           NoFraction(t) == ByteAt(t, point) = Ord["."] /\ ByteAt(t, point + 1) = 0
           NoExponent(t) == ByteAt(t, point) \in E /\ SkipOver(t, point + 1, D) = Len(t) + 1
<1>1. /\ s \in Seq(Bytes) /\ w \in Seq(Bytes) /\ Len(s) \in Nat /\ Len(w) \in Nat /\ Len(s) <= Len(w)
      /\ 0 \notin D /\ D = Digits \cup SignMarks
  BY MarksDiffer DEF Begins, SignMarks
<1>2. \A t : ParseFloat(t, point) = IF NoFraction(t) THEN NotYet
                                    ELSE IF NoExponent(t) THEN NotYet ELSE End(t)
  BY DEF ParseFloat
<1>3. ~NoFraction(s) /\ ~NoExponent(s) /\ End(s).len # Cut
  <2>1. NotYet.len = Cut
    BY DEF NotYet, Scanned
  <2> HIDE DEF NoFraction, NoExponent, End
  <2> QED BY <1>2, <2>1
<1>4. ByteAt(s, point) = s[point] /\ ByteAt(w, point) = ByteAt(s, point)
  BY ByteStays
<1>5. ~NoFraction(w)
  <2> SUFFICES ASSUME s[point] = Ord["."] PROVE ByteAt(w, point + 1) # 0
    BY <1>4
  <2>1. ByteAt(s, point + 1) # 0
    BY <1>3, <1>4
  <2> QED BY <2>1, ByteStays
<1>6. ~NoExponent(w) /\ (s[point] \in E => SkipOver(s, point + 1, D) # Len(s) + 1)
  <2> HIDE DEF D, E
  <2> SUFFICES ASSUME s[point] \in E
               PROVE SkipOver(w, point + 1, D) # Len(w) + 1 /\ SkipOver(s, point + 1, D) # Len(s) + 1
    BY <1>4
  <2>1. PICK k : k = SkipOver(s, point + 1, D)
    OBVIOUS
  <2>2. point + 1 \in 1 .. Len(s) + 1
    BY <1>1
  <2>3. k \in point + 1 .. Len(s) + 1
    BY <1>1, <2>1, <2>2, SkipWhere
  <2>4. k # Len(s) + 1
    BY <1>3, <1>4, <2>1
  <2>5. k \in 1 .. Len(s)
    BY <1>1, <2>3, <2>4
  <2>6. SkipOver(w, point + 1, D) = k
    BY <1>1, <2>1, <2>2, <2>5, ByteStays, SkipStays
  <2> QED BY <1>1, <2>1, <2>4, <2>5, <2>6
<1>7. ByteAt(s, StrtodEnd(s)) # 0
  <2>1. PICK end : end = StrtodEnd(s)
    OBVIOUS
  <2> QED BY <1>3, <2>1, EndedCut
<1>8. PointAt(s, point)
  <2> HIDE DEF D
  <2> QED BY <1>1, <1>3, <1>4, <1>6 DEF PointAt
<1>9. StrtodEnd(w) = StrtodEnd(s)
  BY <1>7, <1>8, StrtodStays
<1>10. End(w) = End(s)
  <2>1. PICK end : end = StrtodEnd(s)
    OBVIOUS
  <2> QED BY <1>7, <1>9, <2>1, EndedStays
<1> HIDE DEF NoFraction, NoExponent, End
<1> QED BY <1>2, <1>3, <1>5, <1>6, <1>10

\* An integer that has been taken, or refused.
LEMMA IntegerStays ==
    ASSUME NEW s, NEW w, Begins(s, w), NEW first \in 1 .. Len(s), NEW base \in {10, 16},
           NEW isMinus, base = 16 => ByteAt(s, first + 2) # 0,
           ParseInteger(s, first, base, isMinus).len # Cut
    PROVE  ParseInteger(w, first, base, isMinus) = ParseInteger(s, first, base, isMinus)
<1>1. /\ s \in Seq(Bytes) /\ w \in Seq(Bytes) /\ Len(s) \in Nat
      /\ 48 .. 57 = Digits /\ 0 \notin Digits /\ 0 \notin HexDigits
  BY DEF Begins, Digits, HexDigits
<1>2. PICK end : end = StrtollEnd(s, first, base)
  OBVIOUS
<1>3. ByteAt(s, end) # 0
  <2>1. PICK i : i = Integer(Magnitude(s, first, end, base), isMinus)
    OBVIOUS
  <2>2. ParseInteger(s, first, base, isMinus) = Ended(s, end, i.type, i.value)
    BY <1>2, <2>1 DEF ParseInteger
  <2> QED BY <2>2, EndedCut
<1>4. end \in 1 .. Len(s)
  BY <1>3, ByteStays
<1>5. StrtollEnd(w, first, base) = end /\ end >= first
  <2>1. CASE base = 10
    <3>1. \A t : StrtollEnd(t, first, base) = SkipOver(t, first, Digits)
      <4>1. base <= 10 /\ 48 .. 47 + base = Digits
        BY <1>1, <2>1
      <4> QED BY <4>1, Zenon DEF StrtollEnd
    <3>2. SkipOver(w, first, Digits) = SkipOver(s, first, Digits)
      <4>1. first \in 1 .. Len(s) + 1
        BY <1>1
      <4> QED BY <1>1, <1>2, <1>3, <3>1, <4>1, SkipStays
    <3>3. end \in first .. Len(s) + 1
      <4>1. first \in 1 .. Len(s) + 1
        BY <1>1
      <4> QED BY <1>1, <1>2, <3>1, <4>1, SkipWhere
    <3> QED BY <1>1, <1>2, <3>1, <3>2, <3>3
  <2>2. CASE base = 16
    <3>1. ByteAt(w, first + 2) = ByteAt(s, first + 2) /\ first + 2 \in 1 .. Len(s)
      BY <2>2, ByteStays
    <3>2. \A t : StrtollEnd(t, first, base) = IF ByteAt(t, first + 2) \in HexDigits
                                             THEN SkipOver(t, first + 2, HexDigits) ELSE first + 1
      BY <2>2 DEF StrtollEnd
    <3>3. CASE ByteAt(s, first + 2) \in HexDigits
      <4>1. end = SkipOver(s, first + 2, HexDigits)
        BY <1>2, <3>2, <3>3
      <4>2. first + 2 \in 1 .. Len(s) + 1
        BY <1>1, <3>1
      <4>3. SkipOver(w, first + 2, HexDigits) = end
        BY <1>1, <1>3, <4>1, <4>2, SkipStays
      <4>4. end \in first + 2 .. Len(s) + 1
        BY <1>1, <4>1, <4>2, SkipWhere
      <4> QED BY <1>1, <3>1, <3>2, <3>3, <4>3, <4>4
    <3>4. CASE ByteAt(s, first + 2) \notin HexDigits
      <4>1. end = first + 1
        BY <1>2, <3>2, <3>4
      <4> QED BY <3>1, <3>2, <3>4, <4>1
    <3> QED BY <3>3, <3>4
  <2> QED BY <2>1, <2>2
<1>6. Magnitude(w, first, end, base) = Magnitude(s, first, end, base)
  <2>1. PICK from : from = IF base = 16 /\ end > first + 1 THEN first + 2 ELSE first
    OBVIOUS
  <2>2. from \in Nat /\ end - from \in Nat /\ from + (end - from) <= Len(s) + 1 /\ base \in Nat
    BY <1>1, <1>4, <1>5, <2>1
  <2>3. \A t : Magnitude(t, first, end, base) = ValueOf(t, from, end - from, base)
    BY <2>1 DEF Magnitude
  <2>4. PICK n \in Nat : n = end - from /\ from + n - 1 <= Len(s)
    BY <1>1, <2>2
  <2>5. ASSUME NEW j \in from .. from + n - 1 PROVE ByteAt(w, j) = ByteAt(s, j)
    <3>1. j \in Nat /\ j <= Len(s)
      <4>1. from \in Nat /\ n \in Nat /\ Len(s) \in Nat /\ from + n - 1 <= Len(s)
        BY <1>1, <2>2, <2>4
      <4>2. j \in Int /\ from <= j /\ j <= from + n - 1
        BY <4>1
      <4> QED BY <4>1, <4>2
    <3> QED BY <3>1, ByteStays
  <2>6. ValueOf(w, from, n, base) = ValueOf(s, from, n, base)
    <3>1. s \in Seq(Bytes) /\ w \in Seq(Bytes) /\ from \in Nat /\ n \in Nat /\ base \in Nat
      BY <1>1, <2>2
    <3>2. \A j \in from .. from + n - 1 : ByteAt(w, j) = ByteAt(s, j)
      BY <2>5
    <3> QED BY <3>1, <3>2, ValueStays
  <2> QED BY <2>3, <2>4, <2>6
<1>7. PICK i : i = Integer(Magnitude(s, first, end, base), isMinus)
  OBVIOUS
<1>8. /\ ParseInteger(s, first, base, isMinus) = Ended(s, end, i.type, i.value)
      /\ ParseInteger(w, first, base, isMinus) = Ended(w, end, i.type, i.value)
  BY <1>2, <1>5, <1>6, <1>7 DEF ParseInteger
<1> QED BY <1>3, <1>8, EndedStays

\* Infinity or NaN.
LEMMA ExtendedStays ==
    ASSUME NEW s, NEW w, Begins(s, w), NEW i \in 1 .. Len(s), ParseExtended(s, i).len # Cut
    PROVE  ParseExtended(w, i) = ParseExtended(s, i)
<1> DEFINE C == {Ord[c] : c \in Letters}
<1>1. /\ s \in Seq(Bytes) /\ w \in Seq(Bytes) /\ Len(s) \in Nat /\ Len(w) \in Nat /\ Len(s) <= Len(w)
      /\ \A j \in 1 .. Len(s) : w[j] = s[j]
  BY DEF Begins
<1>2. PICK a, b : a = SubSeq(s, i, Len(s)) /\ b = SubSeq(w, i, Len(w))
  OBVIOUS
<1>3. /\ a \in Seq(Bytes) /\ b \in Seq(Bytes) /\ Len(a) = Len(s) - i + 1 /\ Len(b) = Len(w) - i + 1
      /\ \A j \in 1 .. Len(a) : a[j] = s[i + j - 1]
      /\ \A j \in 1 .. Len(b) : b[j] = w[i + j - 1]
  BY <1>1, <1>2
<1>4. Len(a) <= Len(b) /\ \A j \in 1 .. Len(a) : b[j] = a[j]
  <2>1. Len(a) <= Len(b)
    BY <1>1, <1>3
  <2>2. ASSUME NEW j \in 1 .. Len(a) PROVE b[j] = a[j]
    <3>1. j \in 1 .. Len(b) /\ i + j - 1 \in 1 .. Len(s)
      BY <1>1, <1>3
    <3> QED BY <1>1, <1>3, <3>1
  <2> QED BY <2>1, <2>2
<1>5. Infinity \in Seq(C) /\ NaN \in Seq(C)
  BY WordIs
<1> HIDE DEF C
<1>6. /\ MatchKeyword(a, Infinity) # Cut => MatchKeyword(b, Infinity) = MatchKeyword(a, Infinity)
      /\ MatchKeyword(a, NaN) # Cut => MatchKeyword(b, NaN) = MatchKeyword(a, NaN)
  BY <1>3, <1>4, <1>5, KeywordStays
<1> DEFINE match(r) == IF MatchKeyword(r, Infinity) # Bad THEN MatchKeyword(r, Infinity)
                       ELSE MatchKeyword(r, NaN)
           Says(m) == IF m > 0 THEN Scanned(i - 1 + m, "float", <<>>) ELSE Scanned(m, "none", <<>>)
<1>7. ParseExtended(s, i) = Says(match(a)) /\ ParseExtended(w, i) = Says(match(b))
  BY <1>2 DEF ParseExtended
<1>8. match(a) # Cut
  <2>1. Says(Cut).len = Cut
    BY DEF Cut, Scanned
  <2> HIDE DEF match, Says
  <2> QED BY <1>7, <2>1
<1>9. match(b) = match(a)
  <2>1. Bad # Cut
    BY DEF Bad, Cut
  <2> QED BY <1>6, <1>8, <2>1
<1> HIDE DEF match, Says
<1> QED BY <1>7, <1>9

\* The parts of a number.
NumberFirst(s, d) == IF s[1] = Ord["-"] \/ (s[1] = Ord["+"] /\ HasExtNum(d)) THEN 2 ELSE 1
NumberNext(s, d) ==
    IF ByteAt(s, NumberFirst(s, d)) = Ord["0"] THEN NumberFirst(s, d) + 1
    ELSE SkipOver(s, NumberFirst(s, d), Digits)

NumberVerdict(s, d, isMinus, first, next, c) ==
    LET isHex == HasExtNum(d) /\ next = first + 1 /\ s[first] = Ord["0"] /\ c = Ord["x"] IN
    IF c = 0 THEN NotYet
    ELSE IF next = first /\ ~(c = Ord["."] /\ HasExtNum(d))
    THEN IF HasExtNum(d) THEN ParseExtended(s, first) ELSE NoLexeme
    ELSE IF c \in Digits THEN NoLexeme
    ELSE IF isHex
    THEN IF ByteAt(s, next + 1) = 0 THEN NotYet ELSE ParseInteger(s, first, 16, isMinus)
    ELSE IF c = Ord["."]
    THEN IF ByteAt(s, next + 1) \in Digits \cup {0} \/ HasAbbrDecimal(d)
         THEN ParseFloat(s, next) ELSE NoLexeme
    ELSE IF c \in {Ord["e"], Ord["E"]} THEN ParseFloat(s, next)
    ELSE ParseInteger(s, first, 10, isMinus)

LEMMA NumberReads ==
    ASSUME NEW s, NEW d
    PROVE  ParseNumber(s, d) =
           NumberVerdict(s, d, s[1] = Ord["-"], NumberFirst(s, d), NumberNext(s, d),
                         ByteAt(s, NumberNext(s, d)))
BY Zenon DEF ParseNumber, NumberVerdict, NumberNext, NumberFirst

\* A number that has been taken, or refused, stays one, unless it was cut in the
\* exponent behind a fraction.
LEMMA NumberStays ==
    ASSUME NEW s, NEW w, Begins(s, w), NEW d, ~ExponentCut(s), ParseNumber(s, d).len # Cut
    PROVE  ParseNumber(w, d) = ParseNumber(s, d)
<1>1. /\ s \in Seq(Bytes) /\ w \in Seq(Bytes) /\ Len(s) \in Nat \ {0} /\ Len(w) \in Nat
      /\ Len(s) <= Len(w) /\ 0 \notin Digits /\ 1 \in 1 .. Len(s) /\ w[1] = s[1]
  BY DEF Begins, Digits
<1>2. PICK first, next, c : first = NumberFirst(s, d) /\ next = NumberNext(s, d) /\ c = ByteAt(s, next)
  OBVIOUS
<1>3. PICK isMinus : isMinus = (s[1] = Ord["-"])
  OBVIOUS
<1>4. ParseNumber(s, d) = NumberVerdict(s, d, isMinus, first, next, c)
  BY <1>2, <1>3, NumberReads
<1>5. NotYet.len = Cut
  BY DEF NotYet, Scanned
<1>6. c # 0
  <2> SUFFICES ASSUME c = 0 PROVE FALSE
    OBVIOUS
  <2>1. NumberVerdict(s, d, isMinus, first, next, c) = NotYet
    BY DEF NumberVerdict
  <2> QED BY <1>4, <1>5, <2>1
<1>7. next \in 1 .. Len(s) /\ ByteAt(w, next) = c /\ s[next] = c
  BY <1>2, <1>6, ByteStays
<1>8. first \in {1, 2} /\ NumberFirst(w, d) = first
  BY <1>1, <1>2 DEF NumberFirst
<1>9. first \in 1 .. Len(s) + 1 /\ first \in Nat
  BY <1>1, <1>8
<1>10. /\ next = IF ByteAt(s, first) = Ord["0"] THEN first + 1 ELSE SkipOver(s, first, Digits)
       /\ NumberNext(w, d) = IF ByteAt(w, first) = Ord["0"] THEN first + 1 ELSE SkipOver(w, first, Digits)
  BY <1>2, <1>8 DEF NumberNext
<1>11. first \in 1 .. Len(s) /\ next >= first
  <2>1. SkipOver(s, first, Digits) \in first .. Len(s) + 1
    BY <1>1, <1>9, SkipWhere
  <2>2. next >= first
    BY <1>9, <1>10, <2>1
  <2> QED BY <1>1, <1>7, <1>9, <2>2
<1>12. ByteAt(w, first) = ByteAt(s, first) /\ w[first] = s[first]
  BY <1>11, ByteStays DEF Begins
<1>13. NumberNext(w, d) = next
  <2>1. CASE ByteAt(s, first) = Ord["0"]
    BY <1>10, <1>12, <2>1
  <2>2. CASE ByteAt(s, first) # Ord["0"]
    <3>1. SkipOver(w, first, Digits) = SkipOver(s, first, Digits)
      BY <1>1, <1>2, <1>6, <1>9, <1>10, <2>2, SkipStays
    <3> QED BY <1>10, <1>12, <2>2, <3>1
  <2> QED BY <2>1, <2>2
<1>14. ParseNumber(w, d) = NumberVerdict(w, d, isMinus, first, next, c)
  <2>1. isMinus = (w[1] = Ord["-"]) /\ NumberFirst(w, d) = first /\ NumberNext(w, d) = next
        /\ ByteAt(w, NumberNext(w, d)) = c
    BY <1>1, <1>3, <1>7, <1>8, <1>13
  <2> QED BY <2>1, NumberReads
<1>15. /\ ParseExtended(s, first).len # Cut => ParseExtended(w, first) = ParseExtended(s, first)
       /\ ParseInteger(s, first, 10, isMinus).len # Cut
          => ParseInteger(w, first, 10, isMinus) = ParseInteger(s, first, 10, isMinus)
  BY <1>11, ExtendedStays, IntegerStays
<1>16. next = first + 1 /\ ByteAt(s, next + 1) # 0 /\ ParseInteger(s, first, 16, isMinus).len # Cut
       => ParseInteger(w, first, 16, isMinus) = ParseInteger(s, first, 16, isMinus)
  <2> SUFFICES ASSUME next = first + 1, ByteAt(s, next + 1) # 0, ParseInteger(s, first, 16, isMinus).len # Cut
               PROVE  ParseInteger(w, first, 16, isMinus) = ParseInteger(s, first, 16, isMinus)
    OBVIOUS
  <2>1. ByteAt(s, first + 2) # 0
    <3>1. next + 1 = first + 2
      BY <1>9
    <3> QED BY <3>1
  <2> QED BY <1>11, <2>1, IntegerStays
<1>17. c \in Marks /\ ParseFloat(s, next).len # Cut => ParseFloat(w, next) = ParseFloat(s, next)
  BY <1>7, FloatStays
<1>18. ByteAt(s, next + 1) # 0 => ByteAt(w, next + 1) = ByteAt(s, next + 1)
  BY ByteStays
<1>19. c = Ord["."] /\ ByteAt(s, next + 1) = 0 => ParseFloat(s, next) = NotYet
  BY <1>2 DEF ParseFloat
<1>20. NumberVerdict(w, d, isMinus, first, next, c) = NumberVerdict(s, d, isMinus, first, next, c)
  <2> DEFINE isHex == HasExtNum(d) /\ next = first + 1 /\ s[first] = Ord["0"] /\ c = Ord["x"]
             outcome(t) ==
               IF c = 0 THEN NotYet
               ELSE IF next = first /\ ~(c = Ord["."] /\ HasExtNum(d))
               THEN IF HasExtNum(d) THEN ParseExtended(t, first) ELSE NoLexeme
               ELSE IF c \in Digits THEN NoLexeme
               ELSE IF isHex
               THEN IF ByteAt(t, next + 1) = 0 THEN NotYet ELSE ParseInteger(t, first, 16, isMinus)
               ELSE IF c = Ord["."]
               THEN IF ByteAt(t, next + 1) \in Digits \cup {0} \/ HasAbbrDecimal(d)
                    THEN ParseFloat(t, next) ELSE NoLexeme
               ELSE IF c \in {Ord["e"], Ord["E"]} THEN ParseFloat(t, next)
               ELSE ParseInteger(t, first, 10, isMinus)
  <2>1. NumberVerdict(s, d, isMinus, first, next, c) = outcome(s)
    BY Zenon DEF NumberVerdict
  <2>2. NumberVerdict(w, d, isMinus, first, next, c) = outcome(w)
    BY <1>12, Zenon DEF NumberVerdict
  <2>3. outcome(s).len # Cut
    BY <1>4, <2>1
  <2>4. CASE next = first /\ ~(c = Ord["."] /\ HasExtNum(d))
    <3>1. \A t : outcome(t) = IF HasExtNum(d) THEN ParseExtended(t, first) ELSE NoLexeme
      BY <1>6, <2>4
    <3> HIDE DEF outcome
    <3> QED BY <1>15, <2>1, <2>2, <2>3, <3>1
  <2>5. CASE ~(next = first /\ ~(c = Ord["."] /\ HasExtNum(d)))
    <3>1. CASE c \in Digits
      <4>1. \A t : outcome(t) = NoLexeme
        BY <1>6, <2>5, <3>1
      <4> HIDE DEF outcome
      <4> QED BY <2>1, <2>2, <4>1
    <3>2. CASE c \notin Digits /\ isHex
      <4>1. \A t : outcome(t) = IF ByteAt(t, next + 1) = 0 THEN NotYet ELSE ParseInteger(t, first, 16, isMinus)
        BY <1>6, <2>5, <3>2
      <4>2. next = first + 1
        BY <3>2
      <4> HIDE DEF outcome, isHex
      <4>3. ByteAt(s, next + 1) # 0
        BY <1>5, <2>3, <4>1
      <4> QED BY <1>16, <1>18, <2>1, <2>2, <2>3, <4>1, <4>2, <4>3
    <3>3. CASE c \notin Digits /\ ~isHex /\ c = Ord["."]
      <4>1. \A t : outcome(t) = IF ByteAt(t, next + 1) \in Digits \cup {0} \/ HasAbbrDecimal(d)
                                THEN ParseFloat(t, next) ELSE NoLexeme
        BY <1>6, <2>5, <3>3
      <4> HIDE DEF outcome, isHex
      <4>2. ByteAt(s, next + 1) # 0
        <5> SUFFICES ASSUME ByteAt(s, next + 1) = 0 PROVE FALSE
          OBVIOUS
        <5>1. outcome(s) = ParseFloat(s, next)
          BY <4>1
        <5> QED BY <1>5, <1>19, <2>3, <3>3, <5>1
      <4>3. c \in Marks
        BY <3>3 DEF Marks
      <4> QED BY <1>17, <1>18, <2>1, <2>2, <2>3, <4>1, <4>2, <4>3
    <3>4. CASE c \notin Digits /\ ~isHex /\ c # Ord["."] /\ c \in {Ord["e"], Ord["E"]}
      <4>1. \A t : outcome(t) = ParseFloat(t, next)
        BY <1>6, <2>5, <3>4
      <4>2. c \in Marks
        BY <3>4 DEF Marks
      <4> HIDE DEF outcome, isHex
      <4> QED BY <1>17, <2>1, <2>2, <2>3, <4>1, <4>2
    <3>5. CASE c \notin Digits /\ ~isHex /\ c # Ord["."] /\ c \notin {Ord["e"], Ord["E"]}
      <4>1. \A t : outcome(t) = ParseInteger(t, first, 10, isMinus)
        BY <1>6, <2>5, <3>5
      <4> HIDE DEF outcome, isHex
      <4> QED BY <1>15, <2>1, <2>2, <2>3, <4>1
    <3> HIDE DEF outcome, isHex
    <3> QED BY <3>1, <3>2, <3>3, <3>4, <3>5
  <2> QED BY <2>4, <2>5
<1> QED BY <1>4, <1>14, <1>20

-----------------------------------------------------------------------------
(* Where literals and names end stays. *)

\* AfterEscaped, of the bytes it reads.
After(q, d, c, n, quote) ==
    LET to(k, hexa, esc) == [at |-> q.at + k, hexa |-> hexa, esc |-> esc]
    IN  CASE c = Ord["u"] -> {to(1, 4, FALSE)}
          [] c = Ord["x"] -> IF HasHexaEscape(d) THEN {to(1, 2, FALSE)} ELSE {}
          [] c \in Range(Text(<<"/", "b", "f", "n", "r", "t">>)) \cup {Backslash, quote} ->
               {to(1, 0, FALSE)}
          [] c = Ord["v"] -> IF HasExtEscape(d) THEN {to(1, 0, FALSE)} ELSE {}
          [] c = Ord["0"] -> IF HasExtEscape(d) /\ n \notin Digits
                             THEN {to(1, 0, FALSE)} ELSE {}
          [] c \in {CR, LF} ->
               IF AllowsLiteralCntl(d) \/ HasLineContinuation(d)
               THEN {to(1, 0, c = CR /\ n = LF /\ HasLineContinuation(d))} ELSE {}
          [] OTHER -> {}

LEMMA AfterReads ==
    ASSUME NEW s, NEW q, NEW d
    PROVE  AfterEscaped(s, q, d) = After(q, d, ByteAt(s, q.at), ByteAt(s, q.at + 1), s[1])
BY Zenon DEF AfterEscaped, After

LEMMA AfterStays ==
    ASSUME NEW q, NEW d, NEW c, NEW n, NEW m, NEW quote,
           ~(c = Ord["0"] /\ HasExtEscape(d)), ~(c = CR /\ HasLineContinuation(d))
    PROVE  After(q, d, c, m, quote) = After(q, d, c, n, quote)
<1>1. (c = CR /\ n = LF /\ HasLineContinuation(d)) = (c = CR /\ m = LF /\ HasLineContinuation(d))
  OBVIOUS
<1>2. c = Ord["0"] => ~(HasExtEscape(d) /\ n \notin Digits) /\ ~(HasExtEscape(d) /\ m \notin Digits)
  OBVIOUS
<1> QED BY <1>1, <1>2 DEF After

\* One byte of a literal is read alike, unless the text is cut there.
LEMMA LiteralTurnStays ==
    ASSUME NEW s, NEW w, Begins(s, w), NEW d, NEW q \in ScanState
    PROVE  \/ LiteralTurn(s, q, d) = {} /\ LiteralVerdict(s, q, d) = Cut
           \/ LiteralTurn(w, q, d) = LiteralTurn(s, q, d) /\ LiteralVerdict(w, q, d) = LiteralVerdict(s, q, d)
<1>1. w[1] = s[1] /\ q.at \in Nat /\ q.hexa \in 0 .. 4
  BY DEF Begins, ScanState
<1>2. PICK c, n, m : c = ByteAt(s, q.at) /\ n = ByteAt(s, q.at + 1) /\ m = ByteAt(w, q.at + 1)
  OBVIOUS
<1>3. CASE c = 0
  <2>1. LiteralTurn(s, q, d) = {}
    BY <1>2, <1>3 DEF LiteralTurn
  <2>2. LiteralVerdict(s, q, d) = Cut
    BY <1>2, <1>3 DEF LiteralVerdict
  <2> QED BY <2>1, <2>2
<1>4. CASE c # 0 /\ q.hexa = 0 /\ q.esc /\ NeedsNext(s, q, d)
  <2>1. LiteralTurn(s, q, d) = {}
    BY <1>2, <1>4 DEF LiteralTurn
  <2>2. LiteralVerdict(s, q, d) = Cut
    BY <1>4 DEF LiteralVerdict
  <2> QED BY <2>1, <2>2
<1>5. CASE c # 0 /\ ~(q.hexa = 0 /\ q.esc /\ NeedsNext(s, q, d))
  <2>1. ByteAt(w, q.at) = c
    BY <1>2, <1>5, ByteStays
  <2>2. n # 0 => m = n
    BY <1>2, ByteStays
  <2>3. q.hexa = 0 /\ q.esc => ~NeedsNext(w, q, d) /\ AfterEscaped(w, q, d) = AfterEscaped(s, q, d)
    <3> SUFFICES ASSUME q.hexa = 0, q.esc
                 PROVE  ~NeedsNext(w, q, d) /\ AfterEscaped(w, q, d) = AfterEscaped(s, q, d)
      OBVIOUS
    <3>1. ~NeedsNext(s, q, d)
      BY <1>5
    <3>2. AfterEscaped(s, q, d) = After(q, d, c, n, s[1]) /\ AfterEscaped(w, q, d) = After(q, d, c, m, s[1])
      BY <1>1, <1>2, <2>1, AfterReads
    <3>3. CASE n # 0
      <4>1. m = n
        BY <2>2, <3>3
      <4>2. ~NeedsNext(w, q, d)
        BY <1>2, <3>3, <4>1 DEF NeedsNext
      <4> QED BY <3>2, <4>1, <4>2
    <3>4. CASE n = 0
      <4>1. ~(c = Ord["0"] /\ HasExtEscape(d)) /\ ~(c = CR /\ HasLineContinuation(d))
        BY <1>2, <3>1, <3>4 DEF NeedsNext
      <4>2. ~NeedsNext(w, q, d)
        BY <2>1, <4>1 DEF NeedsNext
      <4> QED BY <3>2, <4>1, <4>2, AfterStays
    <3> QED BY <3>3, <3>4
  <2>4. q.hexa > 0 <=> q.hexa # 0
    BY <1>1
  <2>5. LiteralTurn(w, q, d) = LiteralTurn(s, q, d)
    <3>1. CASE q.hexa > 0
      BY <1>2, <2>1, <3>1, Zenon DEF LiteralTurn
    <3>2. CASE ~(q.hexa > 0) /\ q.esc
      <4>1. q.hexa = 0
        BY <2>4, <3>2
      <4>2. ~NeedsNext(s, q, d) /\ ~NeedsNext(w, q, d) /\ AfterEscaped(w, q, d) = AfterEscaped(s, q, d)
        BY <1>5, <2>3, <3>2, <4>1
      <4> QED BY <1>2, <2>1, <3>2, <4>2, Zenon DEF LiteralTurn
    <3>3. CASE ~(q.hexa > 0) /\ ~q.esc
      BY <1>1, <1>2, <2>1, <3>3, Zenon DEF LiteralTurn
    <3> QED BY <3>1, <3>2, <3>3
  <2>6. LiteralVerdict(w, q, d) = LiteralVerdict(s, q, d)
    BY <1>1, <1>2, <1>5, <2>1, <2>3, Zenon DEF LiteralVerdict
  <2> QED BY <2>5, <2>6
<1> QED BY <1>3, <1>4, <1>5

\* Where a literal ends, or that it is none, once it has been found.
LEMMA LiteralStays ==
    ASSUME NEW s, NEW w, Begins(s, w), NEW d, DetermineLiteral(s, d) # Cut
    PROVE  DetermineLiteral(w, d) = DetermineLiteral(s, d)
<1>1. s \in Seq(Bytes) /\ w \in Seq(Bytes) /\ w[1] = s[1] /\ Len(s) \in Nat
  BY DEF Begins
<1> DEFINE l(t) == [turn |-> [q \in ScanState |-> LiteralTurn(t, q, d)],
                    verdict |-> [q \in ScanState |-> LiteralVerdict(t, q, d)]]
           start == [at |-> 2, hexa |-> 0, esc |-> FALSE]
           opens == s[1] = Quote \/ (s[1] = Apostrophe /\ HasLiteralSq(d))
<1>2. PICK F : /\ \A q \in ScanState : F[q] = IF LiteralTurn(s, q, d) = {} THEN LiteralVerdict(s, q, d)
                                              ELSE F[Only(LiteralTurn(s, q, d))]
               /\ DetermineLiteral(s, d) = IF opens THEN F[start] ELSE Bad
  BY <1>1, LiteralScans
<1>3. PICK H : /\ \A q \in ScanState : H[q] = IF LiteralTurn(w, q, d) = {} THEN LiteralVerdict(w, q, d)
                                              ELSE H[Only(LiteralTurn(w, q, d))]
               /\ DetermineLiteral(w, d) = IF opens THEN H[start] ELSE Bad
  <2>1. PICK H : /\ \A q \in ScanState : H[q] = IF LiteralTurn(w, q, d) = {} THEN LiteralVerdict(w, q, d)
                                                ELSE H[Only(LiteralTurn(w, q, d))]
                 /\ DetermineLiteral(w, d) = IF w[1] = Quote \/ (w[1] = Apostrophe /\ HasLiteralSq(d))
                                             THEN H[start] ELSE Bad
    BY <1>1, LiteralScans
  <2> QED BY <1>1, <2>1
<1>4. PICK a, b : a = l(s) /\ b = l(w)
  OBVIOUS
<1>5. /\ \A q \in ScanState : a.turn[q] = LiteralTurn(s, q, d) /\ a.verdict[q] = LiteralVerdict(s, q, d)
      /\ \A q \in ScanState : b.turn[q] = LiteralTurn(w, q, d) /\ b.verdict[q] = LiteralVerdict(w, q, d)
  BY <1>4
<1>6. PICK n, S : n \in Nat /\ a \in Scans(n, S)
  BY <1>1, <1>4, LiteralScans
<1> HIDE DEF l
<1>7. GoesAlike(a, b)
  <2> SUFFICES ASSUME NEW q \in ScanState
               PROVE  \/ a.turn[q] = {} /\ a.verdict[q] = Cut
                      \/ b.turn[q] = a.turn[q] /\ b.verdict[q] = a.verdict[q]
    BY DEF GoesAlike
  <2>1. \/ LiteralTurn(s, q, d) = {} /\ LiteralVerdict(s, q, d) = Cut
        \/ LiteralTurn(w, q, d) = LiteralTurn(s, q, d) /\ LiteralVerdict(w, q, d) = LiteralVerdict(s, q, d)
    BY LiteralTurnStays
  <2>2. CASE LiteralTurn(s, q, d) = {} /\ LiteralVerdict(s, q, d) = Cut
    BY <1>5, <2>2
  <2>3. CASE LiteralTurn(w, q, d) = LiteralTurn(s, q, d) /\ LiteralVerdict(w, q, d) = LiteralVerdict(s, q, d)
    BY <1>5, <2>3
  <2> QED BY <2>1, <2>2, <2>3
<1>8. IsLoop(F, a) /\ IsLoop(H, b)
  BY <1>2, <1>3, <1>5 DEF IsLoop
<1>9. \A q \in ScanState : F[q] # Cut => H[q] = F[q]
  BY <1>6, <1>7, <1>8, ScansAgree
<1>10. start \in ScanState
  BY DEF ScanState
<1> HIDE DEF start, opens
<1> QED BY <1>2, <1>3, <1>9, <1>10

\* A code is made of the bytes it takes.
LEMMA CodeStays ==
    ASSUME NEW s, NEW w, NEW i \in Nat, NEW n \in Nat,
           \A j \in i .. i + n - 1 : ByteAt(w, j) = ByteAt(s, j)
    PROVE  CodeOf(w, i, n) = CodeOf(s, i, n)
<1> DEFINE g(t) == [k \in 1 .. n |-> ByteAt(t, i + k - 1)]
           head(t) == HeadBits(ByteAt(t, i), Announced(ByteAt(t, i)))
           Body(t, f) == [k \in 1 .. n |-> IF k = 1 THEN head(t)
                                           ELSE f[k - 1] * 64 + (ByteAt(t, i + k - 1) % 64)]
<1>1. \A k \in 1 .. n : ByteAt(w, i + k - 1) = ByteAt(s, i + k - 1)
  OBVIOUS
<1>2. n # 0 => head(w) = head(s)
  <2>1. n # 0 => i \in i .. i + n - 1
    OBVIOUS
  <2> QED BY <2>1
<1> HIDE DEF head
<1>3. \A f : Body(w, f) = Body(s, f)
  <2> TAKE f
  <2>1. \A k \in 1 .. n : (IF k = 1 THEN head(w) ELSE f[k - 1] * 64 + (ByteAt(w, i + k - 1) % 64))
                          = (IF k = 1 THEN head(s) ELSE f[k - 1] * 64 + (ByteAt(s, i + k - 1) % 64))
    BY <1>1, <1>2
  <2> QED BY <2>1
<1> HIDE DEF Body
<1>4. (CHOOSE f : f = Body(w, f)) = (CHOOSE f : f = Body(s, f))
  BY <1>3
<1>5. CodeOf(w, i, n) = (CHOOSE f : f = Body(w, f))[n] /\ CodeOf(s, i, n) = (CHOOSE f : f = Body(s, f))[n]
  BY DEF CodeOf, Body, head
<1> QED BY <1>4, <1>5

\* Where a sequence of n bytes is broken off.
BreaksIn(s, i, n) == {k \in 1 .. n - 1 : ~IsContinuation(ByteAt(s, i + k))}
FirstBreak(s, i, n) == CHOOSE k \in BreaksIn(s, i, n) : \A l \in BreaksIn(s, i, n) : k <= l

LEMMA LoadReads ==
    ASSUME NEW s, NEW i, NEW n, n = Announced(ByteAt(s, i)), NEW stop, stop = FirstBreak(s, i, n)
    PROVE  /\ n \in 0 .. 6
           /\ n = 0 => StrToUnicode(s, i) = Malformed
           /\ n = 1 => StrToUnicode(s, i) = [len |-> 1, code |-> ByteAt(s, i)]
           /\ n > 1 /\ BreaksIn(s, i, n) # {} =>
                 StrToUnicode(s, i) = IF ByteAt(s, i + stop) = 0
                                      THEN [len |-> stop, code |-> CodeOf(s, i, stop)] ELSE Malformed
           /\ n > 1 /\ BreaksIn(s, i, n) = {} =>
                 StrToUnicode(s, i) = IF IsValidCode(CodeOf(s, i, n), n)
                                      THEN [len |-> n, code |-> CodeOf(s, i, n)] ELSE Malformed
<1>1. n \in 0 .. 6
  BY DEF Announced
<1>2. n = 0 => StrToUnicode(s, i) = Malformed
  BY DEF StrToUnicode
<1>3. n = 1 => StrToUnicode(s, i) = [len |-> 1, code |-> ByteAt(s, i)]
  BY DEF StrToUnicode
<1>4. ASSUME n > 1, BreaksIn(s, i, n) # {}
      PROVE  StrToUnicode(s, i) = IF ByteAt(s, i + stop) = 0
                                  THEN [len |-> stop, code |-> CodeOf(s, i, stop)] ELSE Malformed
  <2>1. n # 0 /\ n # 1 /\ n > 1
    BY <1>1, <1>4
  <2> QED BY <1>4, <2>1, Zenon DEF StrToUnicode, FirstBreak, BreaksIn
<1>5. ASSUME n > 1, BreaksIn(s, i, n) = {}
      PROVE  StrToUnicode(s, i) = IF IsValidCode(CodeOf(s, i, n), n)
                                  THEN [len |-> n, code |-> CodeOf(s, i, n)] ELSE Malformed
  <2>1. n # 0 /\ n # 1 /\ n > 1
    BY <1>1, <1>5
  <2> QED BY <1>5, <2>1, Zenon DEF StrToUnicode, BreaksIn
<1> QED BY <1>1, <1>2, <1>3, <1>4, <1>5

\* A character that has been loaded, and has a byte behind it, or is malformed.
LEMMA LoadStays ==
    ASSUME NEW s, NEW w, Begins(s, w), NEW i \in Nat,
           StrToUnicode(s, i) = Malformed \/ ByteAt(s, i + StrToUnicode(s, i).len) # 0
    PROVE  StrToUnicode(w, i) = StrToUnicode(s, i)
<1>1. s \in Seq(Bytes) /\ w \in Seq(Bytes) /\ Len(s) \in Nat
  BY DEF Begins
<1>2. PICK n, stop, load : /\ n = Announced(ByteAt(s, i)) /\ stop = FirstBreak(s, i, n)
                           /\ load = StrToUnicode(s, i)
  OBVIOUS
<1>3. n \in 0 .. 6
  BY <1>2, LoadReads
<1>4. i <= Len(s)
  <2> SUFFICES ASSUME ~(i <= Len(s)) PROVE FALSE
    OBVIOUS
  <2>1. ByteAt(s, i) = 0 /\ ByteAt(s, i + 1) = 0
    <3>1. i \notin 1 .. Len(s) /\ i + 1 \notin 1 .. Len(s)
      BY <1>1
    <3> QED BY <1>1, <3>1 DEF ByteAt
  <2>2. n = 1
    BY <1>2, <2>1 DEF Announced
  <2>3. load = [len |-> 1, code |-> ByteAt(s, i)]
    BY <1>2, <2>2, LoadReads
  <2>4. load # Malformed /\ load.len = 1
    BY <2>3 DEF Malformed
  <2> QED BY <1>2, <2>1, <2>4
<1>5. ByteAt(w, i) = ByteAt(s, i)
  BY <1>4, ByteStays
<1>6. n = Announced(ByteAt(w, i))
  BY <1>2, <1>5
<1>7. CASE n \in {0, 1}
  BY <1>2, <1>5, <1>6, <1>7, LoadReads
<1>8. CASE n > 1 /\ BreaksIn(s, i, n) = {}
  <2>1. \A k \in 1 .. n - 1 : IsContinuation(ByteAt(s, i + k))
    BY <1>8 DEF BreaksIn
  <2>2. \A k \in 1 .. n - 1 : ByteAt(s, i + k) # 0
    BY <2>1 DEF IsContinuation
  <2>3. \A k \in 1 .. n - 1 : ByteAt(w, i + k) = ByteAt(s, i + k)
    BY <2>2, ByteStays
  <2>4. BreaksIn(w, i, n) = {}
    BY <2>1, <2>3 DEF BreaksIn
  <2>5. CodeOf(w, i, n) = CodeOf(s, i, n)
    <3>1. ASSUME NEW j \in i .. i + n - 1 PROVE ByteAt(w, j) = ByteAt(s, j)
      <4>1. j = i \/ (j - i \in 1 .. n - 1 /\ j = i + (j - i))
        BY <1>3
      <4> QED BY <1>5, <2>3, <4>1
    <3> QED BY <1>3, <3>1, CodeStays
  <2>6. StrToUnicode(s, i) = IF IsValidCode(CodeOf(s, i, n), n)
                             THEN [len |-> n, code |-> CodeOf(s, i, n)] ELSE Malformed
    BY <1>2, <1>8, LoadReads
  <2>7. StrToUnicode(w, i) = IF IsValidCode(CodeOf(w, i, n), n)
                             THEN [len |-> n, code |-> CodeOf(w, i, n)] ELSE Malformed
    BY <1>6, <1>8, <2>4, LoadReads
  <2> QED BY <2>5, <2>6, <2>7
<1>9. CASE n > 1 /\ BreaksIn(s, i, n) # {}
  <2>1. stop \in BreaksIn(s, i, n) /\ \A l \in BreaksIn(s, i, n) : stop <= l
    <3>1. BreaksIn(s, i, n) \subseteq Nat
      BY <1>3 DEF BreaksIn
    <3>2. PICK k \in BreaksIn(s, i, n) : \A l \in BreaksIn(s, i, n) : k <= l
      BY <1>9, <3>1, Least
    <3> QED BY <1>2, <3>2 DEF FirstBreak
  <2>2. stop \in 1 .. n - 1 /\ ~IsContinuation(ByteAt(s, i + stop))
    BY <2>1 DEF BreaksIn
  <2>3. ByteAt(s, i + stop) # 0
    <3> SUFFICES ASSUME ByteAt(s, i + stop) = 0 PROVE FALSE
      OBVIOUS
    <3>1. load = [len |-> stop, code |-> CodeOf(s, i, stop)]
      BY <1>2, <1>9, LoadReads
    <3>2. load.len = stop /\ Malformed.len = -1
      BY <3>1 DEF Malformed
    <3>3. load # Malformed
      BY <1>3, <2>2, <3>2
    <3> QED BY <1>2, <3>2, <3>3
  <2>4. ByteAt(w, i + stop) = ByteAt(s, i + stop)
    BY <2>3, ByteStays
  <2>5. ASSUME NEW k \in 1 .. stop - 1 PROVE IsContinuation(ByteAt(w, i + k))
    <3>1. k \in 1 .. n - 1 /\ ~(stop <= k)
      BY <1>3, <2>2
    <3>2. IsContinuation(ByteAt(s, i + k))
      BY <2>1, <3>1 DEF BreaksIn
    <3>3. ByteAt(s, i + k) # 0
      BY <3>2 DEF IsContinuation
    <3>4. ByteAt(w, i + k) = ByteAt(s, i + k)
      BY <3>3, ByteStays
    <3> QED BY <3>2, <3>4
  <2>6. stop \in BreaksIn(w, i, n)
    BY <2>2, <2>4 DEF BreaksIn
  <2>7. ASSUME NEW l \in BreaksIn(w, i, n) PROVE stop <= l
    <3>1. l \in 1 .. n - 1 /\ ~IsContinuation(ByteAt(w, i + l))
      BY DEF BreaksIn
    <3> QED BY <1>3, <2>2, <2>5, <3>1
  <2>8. FirstBreak(w, i, n) = stop
    <3>1. PICK k : k = FirstBreak(w, i, n)
      OBVIOUS
    <3>2. k \in BreaksIn(w, i, n) /\ \A l \in BreaksIn(w, i, n) : k <= l
      BY <2>6, <2>7, <3>1 DEF FirstBreak
    <3>3. k <= stop /\ stop <= k /\ k \in 1 .. n - 1
      BY <2>6, <2>7, <3>2 DEF BreaksIn
    <3> QED BY <1>3, <2>2, <3>1, <3>3
  <2>9. BreaksIn(w, i, n) # {}
    BY <2>6
  <2>10. StrToUnicode(s, i) = Malformed
    BY <1>2, <1>9, <2>3, LoadReads
  <2>11. StrToUnicode(w, i) = Malformed
    BY <1>6, <1>9, <2>3, <2>4, <2>8, <2>9, LoadReads
  <2> QED BY <2>10, <2>11
<1> QED BY <1>3, <1>7, <1>8, <1>9

\* One character of a name is read alike, unless the text is cut there.
LEMMA IdentTurnStays ==
    ASSUME NEW s, NEW w, Begins(s, w), NEW q \in ScanState
    PROVE  \/ IdentTurn(s, q) = {} /\ IdentVerdict(s, q) = Cut
           \/ IdentTurn(w, q) = IdentTurn(s, q) /\ IdentVerdict(w, q) = IdentVerdict(s, q)
<1>1. PICK load, behind : load = StrToUnicode(s, q.at) /\ behind = q.at + load.len
  OBVIOUS
<1>2. q.at \in Nat
  BY DEF ScanState
<1>3. \A t, k : [q EXCEPT !.at = @ + k].at = q.at + k
  BY DEF ScanState
<1>4. CASE load # Malformed /\ ByteAt(s, behind) = 0
  <2>1. IdentTurn(s, q) = {}
    BY <1>1, <1>3, <1>4 DEF IdentTurn
  <2>2. IdentVerdict(s, q) = Cut
    BY <1>1, <1>4 DEF IdentVerdict
  <2> QED BY <2>1, <2>2
<1>5. CASE load = Malformed
  <2>1. StrToUnicode(w, q.at) = load
    BY <1>1, <1>2, <1>5, LoadStays
  <2>2. IdentTurn(s, q) = {} /\ IdentTurn(w, q) = {}
    BY <1>1, <1>5, <2>1 DEF IdentTurn
  <2>3. IdentVerdict(s, q) = q.at - 1 /\ IdentVerdict(w, q) = q.at - 1
    BY <1>1, <1>5, <2>1 DEF IdentVerdict
  <2> QED BY <2>2, <2>3
<1>6. CASE load # Malformed /\ ByteAt(s, behind) # 0
  <2>1. StrToUnicode(w, q.at) = load
    BY <1>1, <1>2, <1>6, LoadStays
  <2>2. ByteAt(w, behind) = ByteAt(s, behind)
    BY <1>6, ByteStays
  <2>3. IdentTurn(w, q) = IdentTurn(s, q)
    <3> DEFINE next == [q EXCEPT !.at = @ + load.len]
               is(S) == load.len = 1 /\ load.code \in S
               outcome == IF q.hexa > 0 THEN IF is(HexDigits) THEN {[next EXCEPT !.hexa = @ - 1]} ELSE {}
                          ELSE IF q.esc THEN IF is({Ord["u"]}) THEN {[next EXCEPT !.hexa = 4, !.esc = FALSE]} ELSE {}
                          ELSE IF is(NameEnds) THEN {} ELSE {[next EXCEPT !.esc = is({Backslash})]}
    <3>1. next.at = behind
      BY <1>1, <1>3
    <3>2. \A t : StrToUnicode(t, q.at) = load /\ ByteAt(t, behind) # 0 => IdentTurn(t, q) = outcome
      <4> TAKE t
      <4> SUFFICES ASSUME StrToUnicode(t, q.at) = load, ByteAt(t, behind) # 0 PROVE IdentTurn(t, q) = outcome
        OBVIOUS
      <4>1. load # Malformed /\ ByteAt(t, next.at) # 0
        BY <1>6, <3>1
      <4> QED BY <4>1, Zenon DEF IdentTurn
    <3> HIDE DEF outcome
    <3> QED BY <1>1, <1>6, <2>1, <2>2, <3>2
  <2>4. IdentVerdict(w, q) = IdentVerdict(s, q)
    BY <1>1, <1>6, <2>1, <2>2 DEF IdentVerdict
  <2> QED BY <2>3, <2>4
<1> QED BY <1>4, <1>5, <1>6

\* Where a bare name ends, or that it is none, once it has been found.
LEMMA IdentStays ==
    ASSUME NEW s, NEW w, Begins(s, w), DetermineIdent(s) # Cut
    PROVE  DetermineIdent(w) = DetermineIdent(s)
<1>1. s \in Seq(Bytes) /\ w \in Seq(Bytes) /\ Len(s) \in Nat
  BY DEF Begins
<1> DEFINE l(t) == [turn |-> [q \in ScanState |-> IdentTurn(t, q)],
                    verdict |-> [q \in ScanState |-> IdentVerdict(t, q)]]
           start == [at |-> 1, hexa |-> 0, esc |-> FALSE]
<1>2. PICK F : /\ \A q \in ScanState : F[q] = IF IdentTurn(s, q) = {} THEN IdentVerdict(s, q)
                                              ELSE F[Only(IdentTurn(s, q))]
               /\ DetermineIdent(s) = F[start]
  BY <1>1, IdentScans
<1>3. PICK H : /\ \A q \in ScanState : H[q] = IF IdentTurn(w, q) = {} THEN IdentVerdict(w, q)
                                              ELSE H[Only(IdentTurn(w, q))]
               /\ DetermineIdent(w) = H[start]
  BY <1>1, IdentScans
<1>4. PICK a, b : a = l(s) /\ b = l(w)
  OBVIOUS
<1>5. /\ \A q \in ScanState : a.turn[q] = IdentTurn(s, q) /\ a.verdict[q] = IdentVerdict(s, q)
      /\ \A q \in ScanState : b.turn[q] = IdentTurn(w, q) /\ b.verdict[q] = IdentVerdict(w, q)
  BY <1>4
<1>6. PICK n, S : n \in Nat /\ a \in Scans(n, S)
  BY <1>1, <1>4, IdentScans
<1> HIDE DEF l
<1>7. GoesAlike(a, b)
  <2> SUFFICES ASSUME NEW q \in ScanState
               PROVE  \/ a.turn[q] = {} /\ a.verdict[q] = Cut
                      \/ b.turn[q] = a.turn[q] /\ b.verdict[q] = a.verdict[q]
    BY DEF GoesAlike
  <2>1. \/ IdentTurn(s, q) = {} /\ IdentVerdict(s, q) = Cut
        \/ IdentTurn(w, q) = IdentTurn(s, q) /\ IdentVerdict(w, q) = IdentVerdict(s, q)
    BY IdentTurnStays
  <2>2. CASE IdentTurn(s, q) = {} /\ IdentVerdict(s, q) = Cut
    BY <1>5, <2>2
  <2>3. CASE IdentTurn(w, q) = IdentTurn(s, q) /\ IdentVerdict(w, q) = IdentVerdict(s, q)
    BY <1>5, <2>3
  <2> QED BY <2>1, <2>2, <2>3
<1>8. IsLoop(F, a) /\ IsLoop(H, b)
  BY <1>2, <1>3, <1>5 DEF IsLoop
<1>9. \A q \in ScanState : F[q] # Cut => H[q] = F[q]
  BY <1>6, <1>7, <1>8, ScansAgree
<1>10. start \in ScanState
  BY DEF ScanState
<1> HIDE DEF start
<1> QED BY <1>2, <1>3, <1>9, <1>10

-----------------------------------------------------------------------------
(* What a literal is decoded to stays. *)

\* Two decoders at the same byte, of texts that agree in the first n ones.
Alike(n, q, r) ==
    /\ r.src = q.src /\ r.dst = q.dst /\ r.esc = q.esc /\ r.hi = q.hi
    /\ r.ahead = q.ahead /\ r.ok = q.ok
    /\ n <= Len(q.buf) /\ n <= Len(r.buf)
    /\ \A i \in 1 .. n : r.buf[i] = q.buf[i]

LEMMA AlikeByte ==
    ASSUME NEW q \in DecodeState, NEW r \in DecodeState, NEW n \in Nat, Alike(n, q, r),
           NEW i \in Nat, i <= n
    PROVE  /\ ByteAt(r.buf, i) = ByteAt(q.buf, i)
           /\ i # 0 => ByteAt(q.buf, i) = q.buf[i] /\ r.buf[i] = q.buf[i]
<1>1. q.buf \in Seq(Bytes) /\ r.buf \in Seq(Bytes) /\ Len(q.buf) \in Nat /\ Len(r.buf) \in Nat
  BY CursorsAre
<1>2. n <= Len(q.buf) /\ n <= Len(r.buf)
  BY DEF Alike
<1>3. CASE i = 0
  <2>1. i \notin DOMAIN q.buf /\ i \notin DOMAIN r.buf
    BY <1>1, <1>3
  <2> QED BY <1>3, <2>1 DEF ByteAt
<1>4. CASE i # 0
  <2>1. i \in 1 .. n /\ i \in DOMAIN q.buf /\ i \in DOMAIN r.buf
    BY <1>1, <1>2, <1>4
  <2>2. r.buf[i] = q.buf[i]
    BY <2>1 DEF Alike
  <2> QED BY <2>1, <2>2 DEF ByteAt
<1> QED BY <1>3, <1>4

\* What Copy leaves, with h for the surrogate that waits.
Copied(q, h, k, bytes, esc) ==
    [src |-> q.src + k, dst |-> q.dst + Len(bytes), esc |-> esc, hi |-> h,
     buf |-> [i \in DOMAIN q.buf |-> IF i \in q.dst .. q.dst + Len(bytes) - 1
                                     THEN bytes[i - q.dst + 1] ELSE q.buf[i]],
     ahead |-> q.ahead \/ q.dst + Len(bytes) > q.src + k, ok |-> q.ok]

LEMMA CopiedIs ==
    ASSUME NEW q, NEW h, h = q.hi, NEW k, NEW bytes, NEW esc
    PROVE  Copy(q, k, bytes, esc) = Copied(q, h, k, bytes, esc)
BY Zenon DEF Copy, Copied

LEMMA SurrogateCopied ==
    ASSUME NEW q \in DecodeState, NEW h, NEW k, NEW bytes, NEW esc
    PROVE  Copy([q EXCEPT !.hi = h], k, bytes, esc) = Copied(q, h, k, bytes, esc)
<1> DEFINE x == [q EXCEPT !.hi = h]
<1>1. /\ x.src = q.src /\ x.dst = q.dst /\ x.buf = q.buf /\ x.ahead = q.ahead /\ x.ok = q.ok /\ x.hi = h
  BY DEF DecodeState
<1> HIDE DEF x
<1>2. Copy(x, k, bytes, esc) = Copied(q, h, k, bytes, esc)
  BY <1>1, Zenon DEF Copy, Copied
<1> QED BY <1>2 DEF x

\* How two decoders move on: both refuse, copy the same, or enter an escape.
Moved(q, q2, r, r2, k, e) ==
    \/ q2 = Refuse(q) /\ r2 = Refuse(r)
    \/ \E h \in Pending, bytes \in Seq(Bytes) : /\ q2 = Copied(q, h, k, bytes, e)
                                    /\ r2 = Copied(r, h, k, bytes, e)
    \/ /\ k = 1 /\ e
       /\ q2 = [q EXCEPT !.src = @ + 1, !.esc = TRUE] /\ r2 = [r EXCEPT !.src = @ + 1, !.esc = TRUE]

\* What is left of a text from there on is as it was.
Unwritten(q, q2, k, n) ==
    \A i \in 1 .. n : q.src + k <= i => q2.buf[i] = q.buf[i]

LEMMA CopiedAlike ==
    ASSUME NEW q \in DecodeState, NEW r \in DecodeState, NEW n \in Nat, Alike(n, q, r),
           NEW h, NEW k \in Nat, NEW bytes \in Seq(Bytes), NEW e
    PROVE  LET q2 == Copied(q, h, k, bytes, e)
               r2 == Copied(r, h, k, bytes, e)
           IN  /\ Alike(n, q2, r2) /\ q2.src = q.src + k /\ q2.esc = e
               /\ ~q2.ahead => Unwritten(q, q2, k, n)
<1> DEFINE q2 == Copied(q, h, k, bytes, e)
           r2 == Copied(r, h, k, bytes, e)
           last == q.dst + Len(bytes) - 1
           b(t, i) == IF i \in q.dst .. last THEN bytes[i - q.dst + 1] ELSE t[i]
<1>1. /\ q.src \in Nat /\ q.dst \in Nat /\ q.buf \in Seq(Bytes) /\ r.buf \in Seq(Bytes)
      /\ Len(q.buf) \in Nat /\ Len(r.buf) \in Nat /\ Len(bytes) \in Nat
      /\ DOMAIN q.buf = 1 .. Len(q.buf) /\ DOMAIN r.buf = 1 .. Len(r.buf)
  BY CursorsAre
<1>2. /\ r.src = q.src /\ r.dst = q.dst /\ r.ahead = q.ahead /\ r.ok = q.ok
      /\ n <= Len(q.buf) /\ n <= Len(r.buf) /\ \A i \in 1 .. n : r.buf[i] = q.buf[i]
  BY DEF Alike
<1>3. /\ q2.src = q.src + k /\ q2.dst = q.dst + Len(bytes) /\ q2.esc = e /\ q2.hi = h
      /\ q2.ahead = (q.ahead \/ q.dst + Len(bytes) > q.src + k) /\ q2.ok = q.ok
      /\ q2.buf = [i \in 1 .. Len(q.buf) |-> b(q.buf, i)]
  BY <1>1, Zenon DEF Copied
<1>4. /\ r2.src = q.src + k /\ r2.dst = q.dst + Len(bytes) /\ r2.esc = e /\ r2.hi = h
      /\ r2.ahead = (q.ahead \/ q.dst + Len(bytes) > q.src + k) /\ r2.ok = q.ok
      /\ r2.buf = [i \in 1 .. Len(r.buf) |-> b(r.buf, i)]
  BY <1>1, <1>2, Zenon DEF Copied
<1> HIDE DEF q2, r2, b
<1>5. /\ \A i \in 1 .. n : q2.buf[i] = b(q.buf, i) /\ r2.buf[i] = b(r.buf, i)
      /\ Len(q2.buf) = Len(q.buf) /\ Len(r2.buf) = Len(r.buf)
  <2>1. \A i \in 1 .. n : i \in 1 .. Len(q.buf) /\ i \in 1 .. Len(r.buf)
    BY <1>1, <1>2
  <2>2. q2.buf \in [1 .. Len(q.buf) -> {b(q.buf, i) : i \in 1 .. Len(q.buf)}]
    BY <1>3
  <2>3. r2.buf \in [1 .. Len(r.buf) -> {b(r.buf, i) : i \in 1 .. Len(r.buf)}]
    BY <1>4
  <2>4. Len(q2.buf) = Len(q.buf) /\ Len(r2.buf) = Len(r.buf)
    <3>1. DOMAIN q2.buf = 1 .. Len(q.buf) /\ DOMAIN r2.buf = 1 .. Len(r.buf)
      BY <2>2, <2>3
    <3> QED BY <1>1, <3>1, <1>3, <1>4
  <2> QED BY <1>3, <1>4, <2>1, <2>4
<1>6. \A i \in 1 .. n : r2.buf[i] = q2.buf[i]
  <2> TAKE i \in 1 .. n
  <2>1. b(r.buf, i) = b(q.buf, i)
    BY <1>2 DEF b
  <2> QED BY <1>5, <2>1
<1>7. Alike(n, q2, r2)
  BY <1>2, <1>3, <1>4, <1>5, <1>6, Zenon DEF Alike
<1>8. ~q2.ahead => Unwritten(q, q2, k, n)
  <2> SUFFICES ASSUME ~q2.ahead, NEW i \in 1 .. n, q.src + k <= i PROVE q2.buf[i] = q.buf[i]
    BY DEF Unwritten
  <2>0. ~(q.dst + Len(bytes) > q.src + k)
    BY <1>3, Zenon
  <2>1. q.dst + Len(bytes) <= q.src + k
    BY <1>1, <2>0
  <2>2. i \notin q.dst .. last
    BY <1>1, <2>1
  <2>3. b(q.buf, i) = q.buf[i]
    BY <2>2 DEF b
  <2> QED BY <1>5, <2>3
<1> QED BY <1>3, <1>7, <1>8 DEF q2, r2

LEMMA MovedAlike ==
    ASSUME NEW q \in DecodeState, NEW r \in DecodeState, NEW n \in Nat, Alike(n, q, r),
           NEW k \in Nat, NEW e, NEW q2, NEW r2, Moved(q, q2, r, r2, k, e)
    PROVE  /\ Alike(n, q2, r2)
           /\ \/ ~q2.ok /\ q2.src = q.src
              \/ q2.src = q.src + k /\ q2.esc = e /\ (~q2.ahead => Unwritten(q, q2, k, n))
<1>1. CASE q2 = Refuse(q) /\ r2 = Refuse(r)
  <2>1. /\ q2.src = q.src /\ q2.dst = q.dst /\ q2.esc = q.esc /\ q2.hi = q.hi
        /\ q2.buf = q.buf /\ q2.ahead = q.ahead /\ q2.ok = FALSE
    BY <1>1 DEF Refuse, DecodeState
  <2>2. /\ r2.src = r.src /\ r2.dst = r.dst /\ r2.esc = r.esc /\ r2.hi = r.hi
        /\ r2.buf = r.buf /\ r2.ahead = r.ahead /\ r2.ok = FALSE
    BY <1>1 DEF Refuse, DecodeState
  <2> QED BY <2>1, <2>2 DEF Alike
<1>2. CASE \E h \in Pending, bytes \in Seq(Bytes) : /\ q2 = Copied(q, h, k, bytes, e)
                                        /\ r2 = Copied(r, h, k, bytes, e)
  BY <1>2, CopiedAlike
<1>3. CASE /\ k = 1 /\ e
           /\ q2 = [q EXCEPT !.src = @ + 1, !.esc = TRUE] /\ r2 = [r EXCEPT !.src = @ + 1, !.esc = TRUE]
  <2>1. /\ q2.src = q.src + 1 /\ q2.dst = q.dst /\ q2.esc = TRUE /\ q2.hi = q.hi
        /\ q2.buf = q.buf /\ q2.ahead = q.ahead /\ q2.ok = q.ok
    BY <1>3 DEF DecodeState
  <2>2. /\ r2.src = r.src + 1 /\ r2.dst = r.dst /\ r2.esc = TRUE /\ r2.hi = r.hi
        /\ r2.buf = r.buf /\ r2.ahead = r.ahead /\ r2.ok = r.ok
    BY <1>3 DEF DecodeState
  <2>3. Alike(n, q2, r2)
    BY <2>1, <2>2 DEF Alike
  <2>4. Unwritten(q, q2, k, n)
    BY <2>1 DEF Unwritten
  <2>5. e = TRUE => q2.esc = e
    BY <2>1
  <2> QED BY <1>3, <2>1, <2>3, <2>4, <2>5
<1> QED BY <1>1, <1>2, <1>3 DEF Moved

LEMMA CopyMoves ==
    ASSUME NEW q \in DecodeState, NEW r \in DecodeState, NEW bytes \in Seq(Bytes), NEW k, NEW e,
           r.hi = q.hi
    PROVE  Moved(q, Copy(q, k, bytes, e), r, Copy(r, k, bytes, e), k, e)
<1>1. PICK a, b, h : /\ a = Copy(q, k, bytes, e) /\ b = Copy(r, k, bytes, e) /\ h = q.hi /\ h = r.hi
                      /\ h \in Pending
  BY CursorsAre
<1>2. a = Copied(q, h, k, bytes, e) /\ b = Copied(r, h, k, bytes, e)
  BY <1>1, CopiedIs
<1>3. \E x \in Pending, y \in Seq(Bytes) : a = Copied(q, x, k, y, e) /\ b = Copied(r, x, k, y, e)
  BY <1>1, <1>2
<1>4. Moved(q, a, r, b, k, e)
  BY <1>3 DEF Moved
<1> QED BY <1>1, <1>4

WithHi(q, h) == [q EXCEPT !.hi = h]

LEMMA SurrogateMoves ==
    ASSUME NEW q \in DecodeState, NEW r \in DecodeState, NEW bytes \in Seq(Bytes), NEW h \in Pending,
           NEW k, NEW e, NEW x, x = WithHi(q, h), NEW y, y = WithHi(r, h)
    PROVE  Moved(q, Copy(x, k, bytes, e), r, Copy(y, k, bytes, e), k, e)
<1>1. PICK a, b : a = Copy(x, k, bytes, e) /\ b = Copy(y, k, bytes, e)
  OBVIOUS
<1>2. a = Copied(q, h, k, bytes, e) /\ b = Copied(r, h, k, bytes, e)
  BY <1>1, SurrogateCopied DEF WithHi
<1>3. \E x1 \in Pending, y1 \in Seq(Bytes) : a = Copied(q, x1, k, y1, e) /\ b = Copied(r, x1, k, y1, e)
  BY <1>2
<1>4. Moved(q, a, r, b, k, e)
  BY <1>3 DEF Moved
<1> QED BY <1>1, <1>4

\* One byte of a literal is decoded alike, when all that is read is among the
\* first n bytes.
LEMMA UnicodeMoves ==
    ASSUME NEW q \in DecodeState, NEW r \in DecodeState, NEW n \in Nat, Alike(n, q, r),
           q.src + 4 <= n
    PROVE  Moved(q, DecodeUnicode(q), r, DecodeUnicode(r), 5, FALSE)
<1>1. q.src \in Nat /\ q.buf \in Seq(Bytes) /\ r.buf \in Seq(Bytes) /\ r.src = q.src /\ r.hi = q.hi
  BY CursorsAre DEF Alike
<1>2. PICK i \in Nat : i = q.src + 1 /\ i + 4 <= n + 1
  BY <1>1
<1>3. ASSUME NEW k \in 0 .. 4 PROVE k # 4 => ByteAt(r.buf, i + k) = ByteAt(q.buf, i + k)
  <2>1. k # 4 => i + k \in Nat /\ i + k <= n
    BY <1>2
  <2> QED BY <2>1, AlikeByte
<1> DEFINE T(b) == {k \in 0 .. 4 : k = 4 \/ ByteAt(b, i + k) \notin HexDigits}
<1>4. T(r.buf) = T(q.buf)
  <2>1. \A k \in 0 .. 4 : (k = 4 \/ ByteAt(r.buf, i + k) \notin HexDigits)
                          <=> (k = 4 \/ ByteAt(q.buf, i + k) \notin HexDigits)
    BY <1>3
  <2> QED BY <2>1
<1>5. PICK m : m = Min(T(q.buf))
  OBVIOUS
<1>6. m \in 0 .. 4
  <2>1. 4 \in T(q.buf) /\ T(q.buf) \in SUBSET Nat /\ T(q.buf) \subseteq 0 .. 4
    OBVIOUS
  <2> HIDE DEF T
  <2> QED BY <1>5, <2>1, MinIs
<1>7. HexValue(q.buf, i, 4) = ValueOf(q.buf, i, m, 16) /\ HexValue(r.buf, i, 4) = ValueOf(r.buf, i, m, 16)
  BY <1>4, <1>5 DEF HexValue
<1>8. ValueOf(r.buf, i, m, 16) = ValueOf(q.buf, i, m, 16)
  <2>1. m \in Nat /\ 16 \in Nat
    BY <1>6
  <2>2. ASSUME NEW j \in i .. i + m - 1 PROVE ByteAt(r.buf, j) = ByteAt(q.buf, j)
    <3>1. j \in Nat /\ j <= n
      BY <1>2, <1>6
    <3> QED BY <3>1, AlikeByte
  <2> QED BY <1>1, <2>1, <2>2, ValueStays
<1>9. PICK code : code = HexValue(q.buf, q.src + 1, 4) /\ code = HexValue(r.buf, r.src + 1, 4)
  BY <1>1, <1>2, <1>7, <1>8
<1>10. code \in Nat /\ code <= 65535
  <2>1. 4 \in {2, 4}
    OBVIOUS
  <2>2. PICK k \in 0 .. 4 : Within(HexValue(q.buf, i, 4), k)
    BY <1>1, <2>1, HexIs
  <2>3. HexValue(q.buf, i, 4) = code
    BY <1>2, <1>9
  <2> QED BY <2>2, <2>3 DEF Within
<1>11. CASE q.hi # 0 /\ code \in LowSurrogates
  <2>1. DecodeUnicode(q) = Copy([q EXCEPT !.hi = 0], 5, Encode(Paired(q.hi, code)), FALSE)
    BY <1>9, <1>11 DEF DecodeUnicode
  <2>2. DecodeUnicode(r) = Copy([r EXCEPT !.hi = 0], 5, Encode(Paired(q.hi, code)), FALSE)
    BY <1>1, <1>9, <1>11 DEF DecodeUnicode
  <2>3. Encode(Paired(q.hi, code)) \in Seq(Bytes)
    <3>1. q.hi \in HighSurrogates
      BY <1>11, CursorsAre DEF Pending
    <3> QED BY <1>11, <3>1, PairedIs, EncodeIs
  <2>4. 0 \in Pending
    BY DEF Pending
  <2>5. PICK x, y : x = WithHi(q, 0) /\ y = WithHi(r, 0)
    OBVIOUS
  <2>6. PICK bytes \in Seq(Bytes) : bytes = Encode(Paired(q.hi, code))
    BY <2>3
  <2>7. DecodeUnicode(q) = Copy(x, 5, bytes, FALSE) /\ DecodeUnicode(r) = Copy(y, 5, bytes, FALSE)
    BY <2>1, <2>2, <2>5, <2>6, Zenon DEF WithHi
  <2> QED BY <2>4, <2>5, <2>7, SurrogateMoves
<1>12. CASE q.hi # 0 /\ code \notin LowSurrogates
  BY <1>1, <1>9, <1>12 DEF DecodeUnicode, Moved
<1>13. CASE q.hi = 0 /\ code \in HighSurrogates
  <2>1. DecodeUnicode(q) = Copy([q EXCEPT !.hi = code], 5, <<>>, FALSE)
    BY <1>9, <1>13 DEF DecodeUnicode
  <2>2. DecodeUnicode(r) = Copy([r EXCEPT !.hi = code], 5, <<>>, FALSE)
    BY <1>1, <1>9, <1>13 DEF DecodeUnicode
  <2>3. <<>> \in Seq(Bytes)
    OBVIOUS
  <2>4. code \in Pending
    BY <1>13 DEF Pending
  <2>5. PICK x, y : x = WithHi(q, code) /\ y = WithHi(r, code)
    OBVIOUS
  <2>7. DecodeUnicode(q) = Copy(x, 5, <<>>, FALSE) /\ DecodeUnicode(r) = Copy(y, 5, <<>>, FALSE)
    BY <2>1, <2>2, <2>5, Zenon DEF WithHi
  <2> QED BY <2>3, <2>4, <2>5, <2>7, SurrogateMoves
<1>14. CASE q.hi = 0 /\ code \notin HighSurrogates
  <2>1. DecodeUnicode(q) = Copy(q, 5, Encode(code), FALSE)
    BY <1>9, <1>14 DEF DecodeUnicode
  <2>2. DecodeUnicode(r) = Copy(r, 5, Encode(code), FALSE)
    BY <1>1, <1>9, <1>14 DEF DecodeUnicode
  <2>3. Encode(code) \in Seq(Bytes)
    <3>1. code \in Codes
      BY <1>10 DEF Codes
    <3> QED BY <3>1, EncodeIs
  <2> QED BY <1>1, <2>1, <2>2, <2>3, CopyMoves
<1> QED BY <1>11, <1>12, <1>13, <1>14

LEMMA PlainMoves ==
    ASSUME NEW q \in DecodeState, NEW r \in DecodeState, NEW n \in Nat, Alike(n, q, r),
           q.src <= n, q.src # 0
    PROVE  Moved(q, DecodePlain(q), r, DecodePlain(r), 1, FALSE)
<1>1. q.src \in Nat /\ q.buf \in Seq(Bytes) /\ r.src = q.src /\ r.hi = q.hi
  BY CursorsAre DEF Alike
<1>2. PICK b \in Bytes : b = ByteAt(q.buf, q.src) /\ b = ByteAt(r.buf, r.src)
  <2>1. ByteAt(q.buf, q.src) \in Bytes
    BY <1>1, ByteIs
  <2> QED BY <1>1, <2>1, AlikeByte
<1>3. CASE q.hi # 0
  BY <1>1, <1>3 DEF DecodePlain, Moved
<1>4. CASE q.hi = 0
  <2>1. DecodePlain(q) = Copy(q, 1, <<b>>, FALSE) /\ DecodePlain(r) = Copy(r, 1, <<b>>, FALSE)
    BY <1>1, <1>2, <1>4 DEF DecodePlain
  <2>2. <<b>> \in Seq(Bytes)
    OBVIOUS
  <2> QED BY <1>1, <2>1, <2>2, CopyMoves
<1> QED BY <1>3, <1>4

LEMMA EscapedMoves ==
    ASSUME NEW q \in DecodeState, NEW r \in DecodeState, NEW n \in Nat, Alike(n, q, r),
           q.src + 1 <= n, q.src # 0, q.dst <= n, NEW quote \in Bytes
    PROVE  Moved(q, DecodeEscaped(q, quote), r, DecodeEscaped(r, quote), 1,
                 ByteAt(q.buf, q.src) = CR /\ ByteAt(q.buf, q.src + 1) = LF)
<1>1. q.src \in Nat /\ q.dst \in Nat /\ q.buf \in Seq(Bytes) /\ r.src = q.src /\ r.dst = q.dst /\ r.hi = q.hi
  BY CursorsAre DEF Alike
<1>2. PICK c, m, b : /\ c = ByteAt(q.buf, q.src) /\ c = q.buf[q.src] /\ c = r.buf[r.src]
                     /\ m = ByteAt(q.buf, q.src + 1) /\ m = ByteAt(r.buf, r.src + 1)
                     /\ b = ByteAt(q.buf, q.dst) /\ b = ByteAt(r.buf, r.dst)
  <2>1. q.src <= n /\ q.src + 1 \in Nat
    BY <1>1
  <2>2. ByteAt(q.buf, q.src) = q.buf[q.src] /\ r.buf[q.src] = q.buf[q.src]
    BY <1>1, <2>1, AlikeByte
  <2>3. ByteAt(q.buf, q.src + 1) = ByteAt(r.buf, q.src + 1) /\ ByteAt(q.buf, q.dst) = ByteAt(r.buf, q.dst)
    BY <1>1, <2>1, AlikeByte
  <2> QED BY <1>1, <2>2, <2>3
<1>3. b \in Bytes
  BY <1>1, <1>2, ByteIs
<1> DEFINE goesOn == c = CR /\ m = LF
           Written(t) == IF t.hi # 0 THEN Refuse(t)
                         ELSE IF c \in {CR, LF} THEN Copy(t, 1, <<>>, goesOn)
                         ELSE IF c \in DOMAIN ControlOf THEN Copy(t, 1, <<ControlOf[c]>>, FALSE)
                         ELSE IF c = quote THEN Copy(t, 1, <<quote>>, FALSE)
                         ELSE Copy(t, 1, <<b>>, FALSE)
<1>4. DecodeEscaped(q, quote) = Written(q) /\ DecodeEscaped(r, quote) = Written(r)
  BY <1>2, Zenon DEF DecodeEscaped
<1>6. \A bytes, e : bytes \in Seq(Bytes) => Moved(q, Copy(q, 1, bytes, e), r, Copy(r, 1, bytes, e), 1, e)
  BY <1>1, CopyMoves
<1>7. CASE q.hi # 0
  BY <1>1, <1>4, <1>7 DEF Moved
<1>8. CASE q.hi = 0 /\ c \in {CR, LF}
  <2>1. <<>> \in Seq(Bytes)
    OBVIOUS
  <2>2. Written(q) = Copy(q, 1, <<>>, goesOn) /\ Written(r) = Copy(r, 1, <<>>, goesOn)
    BY <1>1, <1>8
  <2>3. goesOn = (ByteAt(q.buf, q.src) = CR /\ ByteAt(q.buf, q.src + 1) = LF)
    BY <1>2
  <2> HIDE DEF goesOn, Written
  <2> QED BY <1>4, <1>6, <2>1, <2>2, <2>3
<1>9. CASE q.hi = 0 /\ c \notin {CR, LF}
  <2>1. PICK x \in Bytes : Written(q) = Copy(q, 1, <<x>>, FALSE) /\ Written(r) = Copy(r, 1, <<x>>, FALSE)
    <3>1. CASE c \in DOMAIN ControlOf
      BY <1>1, <1>9, <3>1, ControlIs
    <3>2. CASE c \notin DOMAIN ControlOf /\ c = quote
      BY <1>1, <1>9, <3>2
    <3>3. CASE c \notin DOMAIN ControlOf /\ c # quote
      BY <1>1, <1>3, <1>9, <3>3
    <3> QED BY <3>1, <3>2, <3>3
  <2>2. (ByteAt(q.buf, q.src) = CR /\ ByteAt(q.buf, q.src + 1) = LF) = FALSE
    BY <1>2, <1>9
  <2>3. <<x>> \in Seq(Bytes)
    OBVIOUS
  <2> HIDE DEF goesOn, Written
  <2> QED BY <1>4, <1>6, <2>1, <2>2, <2>3
<1> QED BY <1>7, <1>8, <1>9

\* What determine_literal_ says, from each of its states.
IsLiteralScan(G, s, d) ==
    \A q \in ScanState : G[q] = IF LiteralTurn(s, q, d) = {} THEN LiteralVerdict(s, q, d)
                                ELSE G[Only(LiteralTurn(s, q, d))]

\* The end that is found is ahead.
LEMMA EndIsAhead ==
    ASSUME NEW s \in Seq(Bytes), NEW d, NEW G, IsLiteralScan(G, s, d)
    PROVE  \A q \in ScanState : G[q] \in Nat /\ G[q] # 0 => q.at <= G[q]
<1> DEFINE D == ScanState
           n == Len(s)
           rank == [q \in D |-> IF q.at <= n THEN n + 1 - q.at ELSE 0]
           P == {q \in D : G[q] \in Nat /\ G[q] # 0 => q.at <= G[q]}
<1>1. \A q \in D : \A r \in LiteralTurn(s, q, d) : r \in D /\ r.at = q.at + 1 /\ q.at \in 1 .. n
  BY LiteralTurnIs
<1>2. (\A q \in D : q.at \in Nat) /\ n \in Nat
  BY DEF ScanState
<1>3. rank \in [D -> Nat] /\ \A q \in D : rank[q] = IF q.at <= n THEN n + 1 - q.at ELSE 0
  BY <1>2
<1> HIDE DEF rank, D, n
<1>4. ASSUME NEW q \in D, \A r \in D : rank[r] < rank[q] => r \in P PROVE q \in P
  <2> SUFFICES ASSUME G[q] \in Nat, G[q] # 0 PROVE q.at <= G[q]
    OBVIOUS
  <2>1. CASE LiteralTurn(s, q, d) = {}
    <3>1. G[q] = LiteralVerdict(s, q, d)
      BY <2>1 DEF D, IsLiteralScan
    <3>2. LiteralVerdict(s, q, d) \in {q.at, Cut, Bad}
      BY Zenon DEF LiteralVerdict
    <3>3. G[q] = q.at
      BY <3>1, <3>2 DEF Cut, Bad
    <3> QED BY <1>2, <3>3
  <2>2. CASE LiteralTurn(s, q, d) # {}
    <3>1. PICK r : r = Only(LiteralTurn(s, q, d))
      OBVIOUS
    <3>2. r \in LiteralTurn(s, q, d)
      BY <2>2, <3>1 DEF Only
    <3>3. r \in D /\ r.at = q.at + 1 /\ q.at \in 1 .. n /\ r.at \in Nat /\ q.at \in Nat
      BY <1>1, <1>2, <3>2
    <3>4. rank[r] < rank[q]
      BY <1>2, <1>3, <3>3
    <3>5. G[q] = G[r]
      BY <2>2, <3>1 DEF D, IsLiteralScan
    <3>6. r.at <= G[r]
      BY <1>4, <3>3, <3>4, <3>5
    <3> QED BY <3>3, <3>5, <3>6
  <2> QED BY <2>1, <2>2
<1>5. P \in SUBSET D
  OBVIOUS
<1> HIDE DEF P
<1>6. \A q \in D : (\A r \in D : rank[r] < rank[q] => r \in P) => q \in P
  BY <1>4
<1>7. rank \in [D -> Nat]
  BY <1>3
<1>8. P = D
  BY <1>5, <1>6, <1>7, RankInduction
<1> QED BY <1>8 DEF P, D

\* Before the end there is a byte more.
LEMMA TurnGoes ==
    ASSUME NEW s \in Seq(Bytes), NEW d, NEW G, IsLiteralScan(G, s, d), NEW q \in ScanState,
           NEW len \in Nat \ {0}, G[q] = len
    PROVE  /\ q.at \in Nat /\ q.at <= len
           /\ \/ q.at = len /\ q.hexa = 0 /\ ~q.esc
              \/ /\ q.at < len /\ ByteAt(s, q.at) # 0
                 /\ \E r \in LiteralTurn(s, q, d) : r \in ScanState /\ r.at = q.at + 1 /\ G[r] = len
<1>1. q.at \in Nat /\ q.at <= len
  <2>1. q.at <= len
    BY EndIsAhead
  <2> QED BY <2>1 DEF ScanState
<1>2. CASE LiteralTurn(s, q, d) = {}
  <2>1. LiteralVerdict(s, q, d) = len
    BY <1>2 DEF IsLiteralScan
  <2>2. (q.hexa = 0 /\ ~q.esc /\ len = q.at) \/ LiteralVerdict(s, q, d) \in {Cut, Bad}
    BY <2>1, Zenon DEF LiteralVerdict
  <2>3. len \notin {Cut, Bad}
    BY DEF Cut, Bad
  <2> QED BY <1>1, <2>1, <2>2, <2>3
<1>3. CASE LiteralTurn(s, q, d) # {}
  <2>1. PICK r : r = Only(LiteralTurn(s, q, d))
    OBVIOUS
  <2>2. r \in LiteralTurn(s, q, d)
    BY <1>3, <2>1 DEF Only
  <2>3. r \in ScanState /\ r.at = q.at + 1
    BY <2>2, LiteralTurnIs
  <2>4. G[r] = len
    BY <1>3, <2>1 DEF IsLiteralScan
  <2>5. r.at <= len
    BY <2>3, <2>4, EndIsAhead
  <2>6. ByteAt(s, q.at) # 0
    BY <1>3 DEF LiteralTurn
  <2> QED BY <1>1, <2>2, <2>3, <2>4, <2>5, <2>6
<1> QED BY <1>2, <1>3

\* Four digits in a row.
LEMMA DigitGoes ==
    ASSUME NEW s \in Seq(Bytes), NEW d, NEW G, IsLiteralScan(G, s, d), NEW q \in ScanState,
           NEW len \in Nat \ {0}, G[q] = len, q.hexa > 0
    PROVE  /\ ByteAt(s, q.at) \in HexDigits
           /\ \E r \in ScanState : /\ r.at = q.at + 1 /\ r.hexa = q.hexa - 1 /\ r.esc = q.esc
                                   /\ G[r] = len
<1>1. q.hexa \in 0 .. 4 /\ q.at \in Nat
  BY DEF ScanState
<1>2. PICK r \in LiteralTurn(s, q, d) : r \in ScanState /\ r.at = q.at + 1 /\ G[r] = len
  BY <1>1, TurnGoes
<1>3. PICK x : x = [q EXCEPT !.at = @ + 1]
  OBVIOUS
<1>4. ByteAt(s, q.at) \in HexDigits /\ r = [x EXCEPT !.hexa = @ - 1]
  BY <1>2, <1>3, Zenon DEF LiteralTurn
<1>5. x \in ScanState /\ x.hexa = q.hexa /\ x.esc = q.esc
  BY <1>1, <1>3 DEF ScanState
<1>6. r.hexa = q.hexa - 1 /\ r.esc = q.esc
  BY <1>4, <1>5 DEF ScanState
<1> QED BY <1>2, <1>4, <1>6

LEMMA DigitsGo ==
    ASSUME NEW s \in Seq(Bytes), NEW d, NEW G, IsLiteralScan(G, s, d), NEW q \in ScanState,
           NEW len \in Nat \ {0}, G[q] = len, q.hexa = 4
    PROVE  /\ q.at + 4 <= len
           /\ \E r \in ScanState : r.at = q.at + 4 /\ r.hexa = 0 /\ r.esc = q.esc /\ G[r] = len
<1>1. q.at \in Nat
  BY DEF ScanState
<1>2. PICK a \in ScanState : a.at = q.at + 1 /\ a.hexa = 3 /\ a.esc = q.esc /\ G[a] = len
  BY DigitGoes
<1>3. PICK b \in ScanState : b.at = a.at + 1 /\ b.hexa = 2 /\ b.esc = q.esc /\ G[b] = len
  BY <1>2, DigitGoes
<1>4. PICK c \in ScanState : c.at = b.at + 1 /\ c.hexa = 1 /\ c.esc = q.esc /\ G[c] = len
  BY <1>3, DigitGoes
<1>5. PICK r \in ScanState : r.at = c.at + 1 /\ r.hexa = 0 /\ r.esc = q.esc /\ G[r] = len
  BY <1>4, DigitGoes
<1>6. r.at = q.at + 4
  BY <1>1, <1>2, <1>3, <1>4, <1>5
<1>7. r.at <= len
  BY <1>5, TurnGoes
<1> QED BY <1>5, <1>6, <1>7

\* Where the scan is when the decoder is there: in the state of the decoder, but
\* at the line feed behind an escaped carriage return, which is not escaped to it.
Tracks(s, G, len, at, esc) ==
    \E t \in ScanState : /\ t.at = at /\ t.hexa = 0 /\ G[t] = len
                         /\ t.esc = esc \/ (esc /\ ~t.esc /\ ByteAt(s, at) = LF)

LEMMA PlainTracks ==
    ASSUME NEW s \in Seq(Bytes), NEW d, NEW G, IsLiteralScan(G, s, d), NEW len \in Nat \ {0},
           NEW at, at < len, Tracks(s, G, len, at, FALSE)
    PROVE  Tracks(s, G, len, at + 1, ByteAt(s, at) = Backslash) /\ ByteAt(s, at) # 0
<1>1. PICK t \in ScanState : t.at = at /\ t.hexa = 0 /\ G[t] = len /\ t.esc = FALSE
  BY DEF Tracks
<1>2. PICK r \in LiteralTurn(s, t, d) : r \in ScanState /\ r.at = at + 1 /\ G[r] = len /\ ByteAt(s, at) # 0
  <2>1. t.at \in Nat /\ t.at # len
    BY <1>1 DEF ScanState
  <2> QED BY <1>1, <2>1, TurnGoes
<1>3. ~(t.hexa > 0)
  BY <1>1
<1>4. PICK x : x = [t EXCEPT !.at = @ + 1]
  OBVIOUS
<1>5. r = [x EXCEPT !.esc = (ByteAt(s, at) = Backslash)]
  BY <1>1, <1>2, <1>3, <1>4, Zenon DEF LiteralTurn
<1>6. x \in ScanState /\ x.hexa = 0
  BY <1>1, <1>4 DEF ScanState
<1>7. r.hexa = 0 /\ r.esc = (ByteAt(s, at) = Backslash)
  BY <1>5, <1>6 DEF ScanState
<1> QED BY <1>2, <1>7 DEF Tracks

\* What may be escaped: a literal without \xHH goes on behind it.
LEMMA EscapeIs ==
    ASSUME NEW s, NEW q, NEW d, ~HasHexaEscape(d), s[1] \in {Quote, Apostrophe},
           NEW r \in AfterEscaped(s, q, d)
    PROVE  /\ ByteAt(s, q.at) # Ord["x"] /\ r.esc = FALSE
           /\ r.hexa = IF ByteAt(s, q.at) = Ord["u"] THEN 4 ELSE 0
<1> DEFINE c == ByteAt(s, q.at)
           to(hexa, esc) == [at |-> q.at + 1, hexa |-> hexa, esc |-> esc]
           Marked == Range(Text(<<"/", "b", "f", "n", "r", "t">>)) \cup {Backslash, s[1]}
<1>1. ~HasLineContinuation(d)
  BY DEF HasHexaEscape, HasLineContinuation
<1>2. {"u", "x", "/", "b", "f", "n", "r", "t", "v", "0"} \subseteq DOMAIN Ord
  <2>1. /\ Ascii[76] = "u" /\ Ascii[79] = "x" /\ Ascii[6] = "/" /\ Ascii[57] = "b" /\ Ascii[61] = "f"
        /\ Ascii[69] = "n" /\ Ascii[73] = "r" /\ Ascii[75] = "t" /\ Ascii[77] = "v" /\ Ascii[7] = "0"
        /\ DOMAIN Ascii = 1 .. 84
    BY DEF Ascii
  <2>2. DOMAIN Ord = Range(Ascii)
    BY DEF Ord
  <2> QED BY <2>1, <2>2 DEF Range
<1>3. \A m \in Marked : m \in {Ord["/"], Ord["b"], Ord["f"], Ord["n"], Ord["r"], Ord["t"], Backslash, s[1]}
  BY DEF Text, Range
<1>4. /\ Ord["u"] # Ord["x"] /\ Ord["u"] \notin Marked /\ Ord["x"] \notin Marked
      /\ Ord["u"] # Ord["v"] /\ Ord["x"] # Ord["v"] /\ Ord["u"] # Ord["0"] /\ Ord["x"] # Ord["0"]
      /\ Ord["u"] \notin {CR, LF} /\ Ord["x"] \notin {CR, LF}
  <2>1. \A a, b \in DOMAIN Ord : a # b => Ord[a] # Ord[b]
    BY MarksAre
  <2>2. Ord["u"] # Backslash /\ Ord["x"] # Backslash
    <3>1. Ascii[51] # "u" /\ Ascii[51] # "x"
      BY DEF Ascii
    <3>2. PICK i \in 1 .. 84 : Ord["u"] = 41 + i /\ Ascii[i] = "u"
      BY <1>2, MarksAre
    <3>3. PICK j \in 1 .. 84 : Ord["x"] = 41 + j /\ Ascii[j] = "x"
      BY <1>2, MarksAre
    <3>4. i # 51 /\ j # 51
      BY <3>1, <3>2, <3>3
    <3> QED BY <3>2, <3>3, <3>4 DEF Backslash
  <2>3. Ord["u"] \in 42 .. 125 /\ Ord["x"] \in 42 .. 125
    BY <1>2, OrdIs
  <2>4. s[1] \notin 42 .. 125 /\ CR \notin 42 .. 125 /\ LF \notin 42 .. 125
    BY DEF Quote, Apostrophe, CR, LF
  <2> QED BY <1>2, <1>3, <2>1, <2>2, <2>3, <2>4
<1> HIDE DEF Marked
<1>5. CASE c = Ord["u"]
  <2>1. AfterEscaped(s, q, d) = {to(4, FALSE)}
    BY <1>4, <1>5 DEF AfterEscaped, Marked
  <2> QED BY <1>4, <1>5, <2>1
<1>6. CASE c = Ord["x"]
  <2>1. AfterEscaped(s, q, d) = {}
    BY <1>4, <1>6 DEF AfterEscaped, Marked
  <2> QED BY <2>1
<1>7. CASE c # Ord["u"] /\ c # Ord["x"]
  <2> DEFINE b == c = CR /\ ByteAt(s, q.at + 1) = LF /\ HasLineContinuation(d)
  <2>1. r = to(0, FALSE) \/ r = to(0, b)
    BY <1>7 DEF AfterEscaped
  <2>2. b = FALSE
    BY <1>1
  <2> HIDE DEF b
  <2>3. r = to(0, FALSE)
    BY <2>1, <2>2, Zenon
  <2> QED BY <1>7, <2>3
<1> QED BY <1>5, <1>6, <1>7

LEMMA EscapeTracks ==
    ASSUME NEW s \in Seq(Bytes), NEW d, NEW G, IsLiteralScan(G, s, d), NEW len \in Nat \ {0},
           ~HasHexaEscape(d), s[1] \in {Quote, Apostrophe},
           NEW at, at < len, Tracks(s, G, len, at, TRUE)
    PROVE  LET c == ByteAt(s, at) IN
           /\ c # 0 /\ c # Ord["x"]
           /\ c = Ord["u"] => at + 5 <= len /\ Tracks(s, G, len, at + 5, FALSE)
           /\ c # Ord["u"] => Tracks(s, G, len, at + 1, c = CR /\ ByteAt(s, at + 1) = LF)
<1> DEFINE c == ByteAt(s, at)
<1>1. PICK t \in ScanState : /\ t.at = at /\ t.hexa = 0 /\ G[t] = len
                             /\ t.esc = TRUE \/ (~t.esc /\ c = LF)
  BY DEF Tracks
<1>2. at \in Nat /\ t.esc \in BOOLEAN
  BY <1>1 DEF ScanState
<1>3. PICK r \in LiteralTurn(s, t, d) : r \in ScanState /\ r.at = at + 1 /\ G[r] = len /\ c # 0
  <2>1. t.at # len
    BY <1>1, <1>2
  <2> QED BY <1>1, <2>1, TurnGoes
<1>4. ~(t.hexa > 0)
  BY <1>1
<1>5. LF # Ord["u"] /\ LF # Ord["x"] /\ LF # CR /\ LF # Backslash
  <2>1. Ascii[76] = "u" /\ Ascii[79] = "x" /\ DOMAIN Ascii = 1 .. 84
    BY DEF Ascii
  <2>2. DOMAIN Ord = Range(Ascii)
    BY DEF Ord
  <2>3. PICK u \in 42 .. 125, x \in 42 .. 125 : u = Ord["u"] /\ x = Ord["x"]
    <3>1. "u" \in DOMAIN Ord /\ "x" \in DOMAIN Ord
      BY <2>1, <2>2 DEF Range
    <3> QED BY <3>1, OrdIs
  <2>4. u # 10 /\ x # 10
    OBVIOUS
  <2> QED BY <2>3, <2>4 DEF LF, CR, Backslash
<1>6. CASE t.esc = TRUE
  <2>1. r \in AfterEscaped(s, t, d)
    BY <1>3, <1>4, <1>6, Zenon DEF LiteralTurn
  <2>2. c # Ord["x"] /\ r.esc = FALSE /\ r.hexa = IF c = Ord["u"] THEN 4 ELSE 0
    BY <1>1, <2>1, EscapeIs
  <2>3. ASSUME c = Ord["u"] PROVE at + 5 <= len /\ Tracks(s, G, len, at + 5, FALSE)
    <3>1. r.hexa = 4
      BY <2>2, <2>3
    <3>2. r.at + 4 <= len /\ \E x \in ScanState : x.at = r.at + 4 /\ x.hexa = 0 /\ x.esc = r.esc /\ G[x] = len
      BY <1>3, <3>1, DigitsGo
    <3>3. r.at + 4 = at + 5
      BY <1>2, <1>3
    <3> QED BY <2>2, <3>2, <3>3 DEF Tracks
  <2>4. ASSUME c # Ord["u"] PROVE Tracks(s, G, len, at + 1, c = CR /\ ByteAt(s, at + 1) = LF)
    <3> DEFINE e == c = CR /\ ByteAt(s, at + 1) = LF
    <3>1. r.hexa = 0 /\ r.esc = FALSE
      BY <2>2, <2>4
    <3>2. e = FALSE \/ (e = TRUE /\ ByteAt(s, at + 1) = LF)
      OBVIOUS
    <3> HIDE DEF e
    <3>3. Tracks(s, G, len, at + 1, e)
      BY <1>3, <3>1, <3>2 DEF Tracks
    <3> QED BY <3>3 DEF e
  <2> QED BY <1>3, <2>2, <2>3, <2>4
<1>7. CASE ~t.esc /\ c = LF
  <2>1. PICK x : x = [t EXCEPT !.at = @ + 1]
    OBVIOUS
  <2>2. r = [x EXCEPT !.esc = (c = Backslash)]
    BY <1>1, <1>3, <1>4, <1>7, <2>1, Zenon DEF LiteralTurn
  <2>3. x \in ScanState /\ x.hexa = 0
    BY <1>1, <2>1 DEF ScanState
  <2>4. r.hexa = 0 /\ r.esc = FALSE
    BY <1>5, <1>7, <2>2, <2>3 DEF ScanState
  <2>5. (c = CR /\ ByteAt(s, at + 1) = LF) = FALSE
    BY <1>5, <1>7
  <2>6. Tracks(s, G, len, at + 1, FALSE)
    BY <1>3, <2>4 DEF Tracks
  <2> QED BY <1>3, <1>5, <1>7, <2>5, <2>6
<1> QED BY <1>1, <1>6, <1>7

\* Induction over a rank, for a set that is at hand.
LEMMA Ranked ==
    \A D, rank, G : /\ rank \in [D -> Nat] /\ G \in SUBSET D
                    /\ \A q \in D : (\A r \in D : rank[r] < rank[q] => r \in G) => q \in G
                    => G = D
BY RankInduction

\* What a decoder of the literal of len bytes that s begins with still has before
\* it: the text as it has arrived, up to the terminator, and there the scan.
Reads(s, G, len, q) ==
    /\ q.src \in 2 .. len
    /\ \A i \in 1 .. len : q.src <= i => q.buf[i] = IF i = len THEN 0 ELSE s[i]
    /\ q.src < len => Tracks(s, G, len, q.src, q.esc)

\* Two decoders take the same step, to where the scan has been.
LEMMA ByteGoes ==
    ASSUME NEW s \in Seq(Bytes), NEW d, NEW G, IsLiteralScan(G, s, d), NEW len \in 1 .. Len(s),
           ~HasHexaEscape(d), s[1] \in {Quote, Apostrophe},
           NEW q \in DecodeState, NEW r \in DecodeState, Alike(len, q, r), Behind(q),
           Reads(s, G, len, q), ByteAt(q.buf, q.src) # 0
    PROVE  \E k \in Nat, e \in BOOLEAN :
              /\ Moved(q, DecodeByte(q, s[1]), r, DecodeByte(r, s[1]), k, e)
              /\ q.src + k <= len
              /\ q.src + k < len => Tracks(s, G, len, q.src + k, e)
<1>1. /\ q.src \in Nat /\ q.dst \in Nat /\ q.esc \in BOOLEAN /\ len \in Nat \ {0} /\ len \in Nat
      /\ r.src = q.src /\ r.esc = q.esc
  BY CursorsAre DEF Alike
<1>2. PICK at \in 2 .. len : at = q.src
  BY DEF Reads
<1>3. \A i \in 0 .. len : /\ ByteAt(r.buf, i) = ByteAt(q.buf, i)
                          /\ i # 0 => ByteAt(q.buf, i) = q.buf[i]
  BY <1>1, AlikeByte
<1>4. \A i \in 1 .. len : at <= i => ByteAt(q.buf, i) = IF i = len THEN 0 ELSE s[i]
  <2> SUFFICES ASSUME NEW i \in 1 .. len, at <= i PROVE ByteAt(q.buf, i) = IF i = len THEN 0 ELSE s[i]
    OBVIOUS
  <2>1. q.buf[i] = IF i = len THEN 0 ELSE s[i]
    BY <1>2 DEF Reads
  <2>2. i \in 0 .. len /\ i # 0
    BY <1>1
  <2> QED BY <1>3, <2>1, <2>2
<1>5. at # len /\ at < len /\ at + 1 <= len /\ at \in Nat /\ at # 0
  BY <1>1, <1>2, <1>4
<1>6. \A i \in 1 .. len : ByteAt(s, i) = s[i]
  BY <1>1 DEF ByteAt
<1>7. PICK c : c = ByteAt(q.buf, at) /\ c = ByteAt(r.buf, at) /\ c = ByteAt(s, at) /\ c # 0
  <2>1. at \in 1 .. len /\ at \in 0 .. len
    BY <1>5
  <2> QED BY <1>2, <1>3, <1>4, <1>5, <1>6, <2>1
<1>8. Tracks(s, G, len, at, q.esc)
  BY <1>2, <1>5 DEF Reads
<1>9. PICK quote \in Bytes : quote = s[1]
  BY DEF Quote, Apostrophe, Bytes
<1>10. CASE q.esc = FALSE /\ c # Backslash
  <2>1. DecodeByte(q, quote) = DecodePlain(q) /\ DecodeByte(r, quote) = DecodePlain(r)
    BY <1>1, <1>2, <1>7, <1>10, Zenon DEF DecodeByte
  <2>2. Moved(q, DecodePlain(q), r, DecodePlain(r), 1, FALSE)
    <3>1. q.src <= len /\ q.src # 0
      BY <1>2, <1>5
    <3> QED BY <1>1, <3>1, PlainMoves
  <2>3. (ByteAt(s, at) = Backslash) = FALSE
    BY <1>7, <1>10
  <2>4. Tracks(s, G, len, at + 1, FALSE)
    BY <1>1, <1>5, <1>8, <1>10, <2>3, PlainTracks
  <2>5. 1 \in Nat /\ FALSE \in BOOLEAN
    OBVIOUS
  <2> QED BY <1>2, <1>5, <1>9, <2>1, <2>2, <2>4, <2>5
<1>11. CASE q.esc = FALSE /\ c = Backslash
  <2>1. /\ DecodeByte(q, quote) = [q EXCEPT !.src = @ + 1, !.esc = TRUE]
        /\ DecodeByte(r, quote) = [r EXCEPT !.src = @ + 1, !.esc = TRUE]
    BY <1>1, <1>2, <1>7, <1>11, Zenon DEF DecodeByte
  <2>2. Moved(q, DecodeByte(q, quote), r, DecodeByte(r, quote), 1, TRUE)
    BY <2>1 DEF Moved
  <2>3. (ByteAt(s, at) = Backslash) = TRUE
    BY <1>7, <1>11
  <2>4. Tracks(s, G, len, at + 1, TRUE)
    <3>1. Tracks(s, G, len, at, FALSE)
      BY <1>8, <1>11
    <3>2. Tracks(s, G, len, at + 1, ByteAt(s, at) = Backslash)
      BY <1>1, <1>5, <3>1, PlainTracks
    <3> QED BY <2>3, <3>2, Zenon
  <2>5. 1 \in Nat /\ TRUE \in BOOLEAN
    OBVIOUS
  <2> QED BY <1>2, <1>5, <1>9, <2>2, <2>4, <2>5
<1>12. CASE q.esc = TRUE
  <2>1. /\ c # Ord["x"]
        /\ c = Ord["u"] => at + 5 <= len /\ Tracks(s, G, len, at + 5, FALSE)
        /\ c # Ord["u"] => Tracks(s, G, len, at + 1, c = CR /\ ByteAt(s, at + 1) = LF)
    <3>1. Tracks(s, G, len, at, TRUE)
      BY <1>8, <1>12
    <3>2. /\ ByteAt(s, at) # Ord["x"]
          /\ ByteAt(s, at) = Ord["u"] => at + 5 <= len /\ Tracks(s, G, len, at + 5, FALSE)
          /\ ByteAt(s, at) # Ord["u"] => Tracks(s, G, len, at + 1, ByteAt(s, at) = CR /\ ByteAt(s, at + 1) = LF)
      BY <1>1, <1>5, <3>1, EscapeTracks
    <3> QED BY <1>7, <3>2
  <2>2. CASE c = Ord["u"]
    <3>1. DecodeByte(q, quote) = DecodeUnicode(q) /\ DecodeByte(r, quote) = DecodeUnicode(r)
      BY <1>1, <1>2, <1>7, <1>12, <2>2, Zenon DEF DecodeByte
    <3>2. Moved(q, DecodeUnicode(q), r, DecodeUnicode(r), 5, FALSE)
      <4>1. q.src + 4 <= len
        BY <1>2, <1>5, <2>1, <2>2
      <4> QED BY <1>1, <4>1, UnicodeMoves
    <3>3. 5 \in Nat /\ FALSE \in BOOLEAN
      OBVIOUS
    <3> QED BY <1>2, <1>9, <2>1, <2>2, <3>1, <3>2, <3>3
  <2>3. CASE c # Ord["u"]
    <3> DEFINE e == c = CR /\ ByteAt(q.buf, at + 1) = LF
    <3>1. DecodeByte(q, quote) = DecodeEscaped(q, quote) /\ DecodeByte(r, quote) = DecodeEscaped(r, quote)
      BY <1>1, <1>2, <1>7, <1>12, <2>1, <2>3, Zenon DEF DecodeByte
    <3>2. Moved(q, DecodeEscaped(q, quote), r, DecodeEscaped(r, quote), 1, e)
      <4>1. q.src + 1 <= len /\ q.src # 0
        BY <1>2, <1>5
      <4>2. q.dst <= len
        BY <1>1, <4>1 DEF Behind
      <4>3. Moved(q, DecodeEscaped(q, quote), r, DecodeEscaped(r, quote), 1,
                  ByteAt(q.buf, q.src) = CR /\ ByteAt(q.buf, q.src + 1) = LF)
        BY <1>1, <4>1, <4>2, EscapedMoves
      <4> QED BY <1>2, <1>7, <4>3
    <3>3. at + 1 < len => Tracks(s, G, len, at + 1, e)
      <4> SUFFICES ASSUME at + 1 < len PROVE Tracks(s, G, len, at + 1, e)
        OBVIOUS
      <4>1. at + 1 \in 1 .. len /\ at <= at + 1 /\ at + 1 # len
        BY <1>1, <1>5
      <4>2. ByteAt(q.buf, at + 1) = ByteAt(s, at + 1)
        BY <1>4, <1>6, <4>1
      <4> QED BY <2>1, <2>3, <4>2
    <3>4. 1 \in Nat /\ e \in BOOLEAN
      OBVIOUS
    <3> HIDE DEF e
    <3> QED BY <1>2, <1>5, <1>9, <3>1, <3>2, <3>3, <3>4
  <2> QED BY <2>2, <2>3
<1> QED BY <1>1, <1>10, <1>11, <1>12

LEMMA ByteReads ==
    ASSUME NEW s \in Seq(Bytes), NEW d, NEW G, IsLiteralScan(G, s, d), NEW len \in 1 .. Len(s),
           ~HasHexaEscape(d), s[1] \in {Quote, Apostrophe},
           NEW q \in DecodeState, NEW r \in DecodeState, Alike(len, q, r), Behind(q),
           Reads(s, G, len, q), ByteAt(q.buf, q.src) # 0,
           NEW q2, q2 = DecodeByte(q, s[1]), NEW r2, r2 = DecodeByte(r, s[1]), ~q2.ahead
    PROVE  Alike(len, q2, r2) /\ q2.src <= len /\ (~q2.ok \/ Reads(s, G, len, q2))
<1>1. PICK k \in Nat, e \in BOOLEAN :
              /\ Moved(q, q2, r, r2, k, e)
              /\ q.src + k <= len
              /\ q.src + k < len => Tracks(s, G, len, q.src + k, e)
  BY ByteGoes
<1>2. /\ Alike(len, q2, r2)
      /\ \/ ~q2.ok /\ q2.src = q.src
         \/ q2.src = q.src + k /\ q2.esc = e /\ Unwritten(q, q2, k, len)
  <2>1. len \in Nat
    OBVIOUS
  <2>2. /\ Alike(len, q2, r2)
        /\ \/ ~q2.ok /\ q2.src = q.src
           \/ q2.src = q.src + k /\ q2.esc = e /\ (~q2.ahead => Unwritten(q, q2, k, len))
    BY <1>1, <2>1, MovedAlike
  <2> QED BY <2>2
<1>3. ASSUME q2.src = q.src + k, q2.esc = e, Unwritten(q, q2, k, len) PROVE Reads(s, G, len, q2)
  <2>1. q.src \in 2 .. len /\ q.src \in Nat /\ len \in Nat
    BY DEF Reads
  <2>2. q2.src \in 2 .. len
    BY <1>1, <1>3, <2>1
  <2>3. ASSUME NEW i \in 1 .. len, q2.src <= i PROVE q2.buf[i] = IF i = len THEN 0 ELSE s[i]
    <3>1. q.src <= i /\ q.src + k <= i
      BY <1>1, <1>3, <2>1, <2>3
    <3>2. q2.buf[i] = q.buf[i]
      BY <1>3, <3>1 DEF Unwritten
    <3>3. q.buf[i] = IF i = len THEN 0 ELSE s[i]
      BY <3>1 DEF Reads
    <3> QED BY <3>2, <3>3
  <2>4. q2.src < len => Tracks(s, G, len, q2.src, q2.esc)
    BY <1>1, <1>3
  <2> QED BY <2>2, <2>3, <2>4 DEF Reads
<1>4. q.src <= len
  BY DEF Reads
<1> QED BY <1>1, <1>2, <1>3, <1>4

\* Two decoders, of texts that agree in the literal of len bytes.
Together(s, G, len, q, r) ==
    Alike(len, q, r) /\ Behind(q) /\ Behind(r) /\ q.src <= len /\ (~q.ok \/ Reads(s, G, len, q))

\* They end alike.
LEMMA DecodersAgree ==
    ASSUME NEW s \in Seq(Bytes), NEW d, NEW G, IsLiteralScan(G, s, d), NEW len \in 1 .. Len(s),
           ~HasHexaEscape(d), s[1] \in {Quote, Apostrophe},
           NEW F, F = LiteralDecoder(s[1])
    PROVE  \A q, r \in DecodeState : Together(s, G, len, q, r) => Alike(len, F[q], F[r]) /\ F[q].src <= len
<1> DEFINE D == DecodeState
           rank == [q \in D |-> Unread(q)]
           P == {q \in D : \A r \in D : Together(s, G, len, q, r) => Alike(len, F[q], F[r]) /\ F[q].src <= len}
<1>1. len \in Nat /\ s[1] \in Bytes
  BY DEF Quote, Apostrophe, Bytes
<1>2. \A q \in D : F[q] = IF ByteAt(q.buf, q.src) = 0 \/ Stops(q) THEN q ELSE F[DecodeByte(q, s[1])]
  BY <1>1, LiteralDecodes
<1>3. rank \in [D -> Nat] /\ \A q \in D : rank[q] = Unread(q)
  <2>1. \A q \in D : Unread(q) \in Nat
    <3> TAKE q \in D
    <3>1. q.src \in Nat /\ Len(q.buf) \in Nat
      BY CursorsAre
    <3> QED BY <3>1 DEF Unread
  <2> QED BY <2>1
<1> HIDE DEF rank
<1>4. ASSUME NEW q \in D, \A p \in D : rank[p] < rank[q] => p \in P PROVE q \in P
  <2> SUFFICES ASSUME NEW r \in D, Together(s, G, len, q, r)
               PROVE  Alike(len, F[q], F[r]) /\ F[q].src <= len
    OBVIOUS
  <2>1. /\ Alike(len, q, r) /\ Behind(q) /\ Behind(r) /\ q.src <= len /\ q.src \in Nat
        /\ ~q.ok \/ Reads(s, G, len, q)
        /\ r.src = q.src /\ r.ok = q.ok /\ r.ahead = q.ahead
    BY CursorsAre DEF Together, Alike
  <2>2. ByteAt(r.buf, r.src) = ByteAt(q.buf, q.src)
    BY <1>1, <2>1, AlikeByte
  <2>3. Stops(r) <=> Stops(q)
    BY <2>1 DEF Stops
  <2>4. CASE ByteAt(q.buf, q.src) = 0 \/ Stops(q)
    BY <1>2, <2>1, <2>2, <2>3, <2>4
  <2>5. CASE ~(ByteAt(q.buf, q.src) = 0 \/ Stops(q))
    <3>1. PICK q2, r2 : q2 = DecodeByte(q, s[1]) /\ r2 = DecodeByte(r, s[1])
      OBVIOUS
    <3>2. Advances(q, q2) /\ Advances(r, r2)
      BY <1>1, <2>2, <2>3, <2>5, <3>1, ByteTurnIs
    <3>3. q2 \in D /\ r2 \in D /\ Unread(q2) < Unread(q) /\ Behind(q2) /\ Behind(r2) /\ ~q2.ahead
      BY <2>1, <3>2 DEF Advances, Behind
    <3>4. Reads(s, G, len, q)
      BY <2>1, <2>5 DEF Stops
    <3>5. Alike(len, q2, r2) /\ q2.src <= len /\ (~q2.ok \/ Reads(s, G, len, q2))
      BY <2>1, <2>5, <3>1, <3>3, <3>4, ByteReads
    <3>6. Together(s, G, len, q2, r2)
      BY <3>3, <3>5 DEF Together
    <3>7. rank[q2] < rank[q]
      BY <1>3, <3>3
    <3>8. Alike(len, F[q2], F[r2]) /\ F[q2].src <= len
      BY <1>4, <3>3, <3>6, <3>7
    <3>9. F[q] = F[q2] /\ F[r] = F[r2]
      BY <1>2, <2>2, <2>3, <2>5, <3>1
    <3> QED BY <3>8, <3>9
  <2> QED BY <2>4, <2>5
<1>5. P \in SUBSET D
  OBVIOUS
<1>6. \A q \in D : (\A p \in D : rank[p] < rank[q] => p \in P) => q \in P
  BY <1>4
<1>7. rank \in [D -> Nat]
  BY <1>3
<1> HIDE DEF P, D
<1>8. P = D
  BY <1>5, <1>6, <1>7, Ranked
<1> QED BY <1>8 DEF P, D

\* What a literal decodes to is what it did when fewer bytes had arrived.
LEMMA LiteralDecodedAlike ==
    ASSUME NEW s, NEW w, Begins(s, w), NEW d, ~HasHexaEscape(d),
           NEW len \in Nat \ {0}, DetermineLiteral(s, d) = len
    PROVE  DecodeLiteral(w, len) = DecodeLiteral(s, len)
<1>1. s \in Seq(Bytes) /\ w \in Seq(Bytes) /\ Len(s) \in Nat \ {0} /\ Len(w) \in Nat /\ Len(s) <= Len(w)
  BY DEF Begins
<1>2. PICK G : /\ IsLiteralScan(G, s, d)
               /\ DetermineLiteral(s, d) = IF s[1] = Quote \/ (s[1] = Apostrophe /\ HasLiteralSq(d))
                                           THEN G[[at |-> 2, hexa |-> 0, esc |-> FALSE]] ELSE Bad
  <2>1. PICK G \in [ScanState -> Bad .. Len(s)] :
                 /\ \A q \in ScanState :
                       G[q] = IF LiteralTurn(s, q, d) = {} THEN LiteralVerdict(s, q, d)
                              ELSE G[Only(LiteralTurn(s, q, d))]
                 /\ DetermineLiteral(s, d) =
                       IF s[1] = Quote \/ (s[1] = Apostrophe /\ HasLiteralSq(d))
                       THEN G[[at |-> 2, hexa |-> 0, esc |-> FALSE]] ELSE Bad
    BY <1>1, LiteralScans
  <2>2. IsLiteralScan(G, s, d)
    BY <2>1 DEF IsLiteralScan
  <2> QED BY <2>1, <2>2
<1> DEFINE start == [at |-> 2, hexa |-> 0, esc |-> FALSE]
<1>3. start \in ScanState /\ start.at = 2 /\ start.hexa = 0 /\ start.esc = FALSE
  BY DEF ScanState
<1>4. s[1] \in {Quote, Apostrophe} /\ G[start] = len
  BY <1>2 DEF Bad
<1>5. len \in 1 .. Len(s) /\ 2 <= len
  <2>1. len \in Bad .. Len(s)
    BY <1>1, LiteralEnds
  <2>2. 2 <= len
    BY <1>1, <1>2, <1>3, <1>4, EndIsAhead
  <2> QED BY <1>1, <2>1, <2>2
<1> HIDE DEF start
<1>6. PICK quote \in Bytes : quote = s[1] /\ quote = w[1]
  <2>1. s[1] \in Bytes
    BY <1>4 DEF Quote, Apostrophe, Bytes
  <2> QED BY <1>1, <2>1 DEF Begins
<1>7. PICK a, b : a = [s EXCEPT ![len] = 0] /\ b = [w EXCEPT ![len] = 0]
  OBVIOUS
<1>8. /\ a \in Seq(Bytes) /\ b \in Seq(Bytes) /\ Len(a) = Len(s) /\ Len(b) = Len(w)
      /\ \A i \in 1 .. len : a[i] = (IF i = len THEN 0 ELSE s[i]) /\ b[i] = a[i]
  <2>1. 0 \in Bytes
    BY DEF Bytes
  <2>2. \A i \in 1 .. len : i \in 1 .. Len(s) /\ i \in 1 .. Len(w) /\ w[i] = s[i]
    BY <1>1, <1>5 DEF Begins
  <2> QED BY <1>1, <1>7, <2>1, <2>2
<1>9. PICK q, r : q = DecodeFrom(a, 2) /\ r = DecodeFrom(b, 2)
  OBVIOUS
<1>10. q \in DecodeState /\ r \in DecodeState /\ Behind(q) /\ Behind(r)
  <2>1. 2 \in Nat \ {0} /\ 2 <= Len(a) + 1 /\ 2 <= Len(b) + 1
    BY <1>1, <1>5, <1>8
  <2> QED BY <1>8, <1>9, <2>1, FromIs
<1>11. /\ q.src = 2 /\ q.dst = 2 /\ q.esc = FALSE /\ q.hi = 0 /\ q.buf = a /\ q.ahead = FALSE /\ q.ok = TRUE
       /\ r.src = 2 /\ r.dst = 2 /\ r.esc = FALSE /\ r.hi = 0 /\ r.buf = b /\ r.ahead = FALSE /\ r.ok = TRUE
  BY <1>9 DEF DecodeFrom
<1>12. Together(s, G, len, q, r)
  <2>1. Alike(len, q, r)
    <3>1. len <= Len(a) /\ len <= Len(b) /\ \A i \in 1 .. len : b[i] = a[i]
      BY <1>1, <1>5, <1>8
    <3> QED BY <1>11, <3>1 DEF Alike
  <2>2. Tracks(s, G, len, 2, FALSE)
    BY <1>3, <1>4 DEF Tracks
  <2>3. Reads(s, G, len, q)
    <3>1. q.src \in 2 .. len /\ \A i \in 1 .. len : q.buf[i] = IF i = len THEN 0 ELSE s[i]
      BY <1>5, <1>8, <1>11
    <3>2. Tracks(s, G, len, q.src, q.esc)
      BY <1>11, <2>2
    <3> QED BY <3>1, <3>2 DEF Reads
  <2> QED BY <1>5, <1>10, <1>11, <2>1, <2>3 DEF Together
<1>13. PICK F : F = LiteralDecoder(quote)
  OBVIOUS
<1>14. PICK e, f : e = F[q] /\ f = F[r]
  OBVIOUS
<1>15. e \in DecodeState /\ f \in DecodeState /\ Behind(e)
  BY <1>10, <1>13, <1>14, LiteralDecodes
<1>16. Alike(len, e, f) /\ e.src <= len
  <2>1. F = LiteralDecoder(s[1])
    BY <1>6, <1>13
  <2> QED BY <1>1, <1>2, <1>4, <1>5, <1>10, <1>12, <1>14, <2>1, DecodersAgree
<1>17. SubSeq(f.buf, 2, f.dst - 1) = SubSeq(e.buf, 2, e.dst - 1)
  <2>1. /\ e.src \in Nat /\ e.dst \in Nat /\ e.buf \in Seq(Bytes) /\ f.buf \in Seq(Bytes) /\ f.dst = e.dst
        /\ Len(e.buf) \in Nat /\ Len(f.buf) \in Nat
    BY <1>15, <1>16, CursorsAre DEF Alike
  <2>2. PICK m \in Int : m = e.dst - 1 /\ m <= len /\ m <= Len(e.buf) /\ m <= Len(f.buf)
    <3>1. e.dst <= len
      BY <1>5, <1>15, <1>16, <2>1 DEF Behind
    <3> QED BY <1>5, <1>16, <2>1, <3>1 DEF Alike
  <2>3. \A i \in 2 .. m : f.buf[i] = e.buf[i]
    BY <1>5, <1>16, <2>2 DEF Alike
  <2> QED BY <2>1, <2>2, <2>3, SMT
<1>18. DecodeLiteral(s, len) = LiteralOf(e) /\ DecodeLiteral(w, len) = LiteralOf(f)
  <2>1. /\ e = LiteralDecoder(s[1])[DecodeFrom([s EXCEPT ![len] = 0], 2)]
        /\ f = LiteralDecoder(w[1])[DecodeFrom([w EXCEPT ![len] = 0], 2)]
    BY <1>6, <1>7, <1>9, <1>13, <1>14
  <2> QED BY <2>1, LiteralReads
<1>19. f.ok = e.ok /\ f.hi = e.hi /\ f.ahead = e.ahead
  BY <1>16 DEF Alike
<1>20. LiteralOf(f) = LiteralOf(e)
  BY <1>17, <1>19, Zenon DEF LiteralOf
<1> QED BY <1>18, <1>20

-----------------------------------------------------------------------------
(* What has been decided of a beginning. *)

\* A scan of more bytes says what the scan of fewer ones has decided.
LEMMA ScanStays ==
    ASSUME NEW s, NEW w, Begins(s, w), NEW kind \in SourceKinds, NEW d,
           Scan(kind, d, s).len # Cut, kind = "number" => ~ExponentCut(s)
    PROVE  /\ EndOf(kind, d, w) = EndOf(kind, d, s)
           /\ kind # "name" /\ ~(kind = "literal" /\ HasHexaEscape(d)) => Scan(kind, d, w) = Scan(kind, d, s)
<1>1. CASE kind = "word"
  <2>1. \A t : Scan(kind, d, t) = Verdict(ParseWord(t)) /\ EndOf(kind, d, t) = Cut
    BY <1>1 DEF Scan, EndOf
  <2>2. ParseWord(s).len # Cut
    BY <2>1 DEF Verdict
  <2> QED BY <2>1, <2>2, WordStays
<1>2. CASE kind = "number"
  <2>1. \A t : Scan(kind, d, t) = Verdict(ParseNumber(t, d)) /\ EndOf(kind, d, t) = Cut
    BY <1>2 DEF Scan, EndOf
  <2>2. ParseNumber(s, d).len # Cut
    BY <2>1 DEF Verdict
  <2> QED BY <1>2, <2>1, <2>2, NumberStays
<1>3. CASE kind = "comment"
  <2>1. \A t : Scan(kind, d, t) = Verdict(Scanned(DetermineComment(t), "none", <<>>))
               /\ EndOf(kind, d, t) = DetermineComment(t)
    BY <1>3 DEF Scan, EndOf
  <2>2. DetermineComment(s) # Cut
    BY <2>1 DEF Verdict, Scanned
  <2> QED BY <2>1, <2>2, CommentStays
<1>4. CASE kind = "literal"
  <2>1. \A t : /\ EndOf(kind, d, t) = DetermineLiteral(t, d)
               /\ DetermineLiteral(t, d) > 0
                  => Scan(kind, d, t) = Decoding(DetermineLiteral(t, d), DecodeLiteral(t, DetermineLiteral(t, d)))
               /\ ~(DetermineLiteral(t, d) > 0)
                  => Scan(kind, d, t) = Verdict(Scanned(DetermineLiteral(t, d), "none", <<>>))
    BY <1>4 DEF Scan, EndOf
  <2>2. PICK len : len = DetermineLiteral(s, d)
    OBVIOUS
  <2>3. len \in Int
    <3>1. s \in Seq(Bytes)
      BY DEF Begins
    <3>2. len \in Bad .. Len(s)
      BY <2>2, <3>1, LiteralEnds
    <3> QED BY <3>1, <3>2
  <2>4. len # Cut
    <3> SUFFICES ASSUME len = Cut PROVE FALSE
      OBVIOUS
    <3>1. ~(len > 0)
      BY DEF Cut
    <3>2. Scan(kind, d, s) = Verdict(Scanned(Cut, "none", <<>>))
      BY <2>1, <2>2, <3>1
    <3> QED BY <3>2 DEF Verdict, Scanned
  <2>5. DetermineLiteral(w, d) = len
    BY <2>2, <2>4, LiteralStays
  <2>6. CASE len > 0 /\ ~HasHexaEscape(d)
    <3>1. len \in Nat \ {0}
      BY <2>3, <2>6
    <3>2. DecodeLiteral(w, len) = DecodeLiteral(s, len)
      BY <2>2, <2>6, <3>1, LiteralDecodedAlike
    <3>3. Scan(kind, d, s) = Decoding(len, DecodeLiteral(s, len))
          /\ Scan(kind, d, w) = Decoding(len, DecodeLiteral(w, len))
      BY <2>1, <2>2, <2>5, <2>6
    <3> QED BY <2>1, <2>2, <2>5, <3>2, <3>3
  <2>7. CASE ~(len > 0)
    BY <2>1, <2>2, <2>5, <2>7
  <2>8. CASE HasHexaEscape(d)
    BY <1>4, <2>1, <2>2, <2>5, <2>8
  <2> QED BY <2>6, <2>7, <2>8
<1>5. CASE kind = "name"
  <2>1. \A t : EndOf(kind, d, t) = DetermineIdent(t)
    BY <1>5 DEF EndOf
  <2>2. DetermineIdent(s) # Cut
    <3> SUFFICES ASSUME DetermineIdent(s) = Cut PROVE FALSE
      OBVIOUS
    <3>1. ~(DetermineIdent(s) > 0)
      BY DEF Cut
    <3>2. Scan(kind, d, s) = Verdict(Scanned(Cut, "none", <<>>))
      BY <1>5, <3>1 DEF Scan, EndOf
    <3> QED BY <3>2 DEF Verdict, Scanned
  <2> QED BY <1>5, <2>1, <2>2, IdentStays
<1> QED BY <1>1, <1>2, <1>3, <1>4, <1>5 DEF SourceKinds

\* The last scan was one of the bytes that had arrived then.
SeenInv ==
    IF seen = 0 THEN scan = Verdict(NotYet)
    ELSE scan = Scan(source.kind, source.dialect, SubSeq(wire, 1, seen))

LEMMA SeenStep == WireInv /\ ScanInv /\ SeenInv /\ [Next]_vars => SeenInv'
<1> SUFFICES ASSUME WireInv, ScanInv, SeenInv, [Next]_vars PROVE SeenInv'
  OBVIOUS
<1>1. CASE \E n \in 1 .. Len(source.calls[call]) : Accept(n)
  <2>1. PICK n \in 1 .. Len(source.calls[call]) : Accept(n)
    BY <1>1
  <2> DEFINE p == SubSeq(source.calls[call], onset + 1, onset + n)
  <2>2. /\ wire' = wire \o p /\ UNCHANGED source
        /\ IF scan.len = Cut
           THEN scan' = Scan(source.kind, source.dialect, wire') /\ seen' = Len(wire')
           ELSE UNCHANGED <<scan, seen>>
    BY <2>1 DEF Accept, Arrive
  <2>3. p \in Seq(Bytes) /\ Len(p) = n /\ n \in Nat \ {0}
    <3>1. /\ source.calls[call] \in Seq(Bytes) /\ onset \in Nat
          /\ onset + n <= Len(source.calls[call])
      BY <2>1, CallsAre DEF Accept, WireInv
    <3> QED BY <3>1, PortionFits, SubSeqProperties
  <2> HIDE DEF p
  <2>4. PICK a, b : a = wire /\ b = wire'
    OBVIOUS
  <2>5. a \in Seq(Bytes) /\ b = a \o p /\ b \in Seq(Bytes) /\ Len(b) = Len(a) + n /\ Len(a) \in Nat
    <3>1. a \in Seq(Bytes)
      BY <2>4 DEF ScanInv
    <3>2. b = a \o p
      BY <2>2, <2>4
    <3>3. a \o p \in Seq(Bytes) /\ Len(a \o p) = Len(a) + Len(p)
      BY <2>3, <3>1, ConcatProperties
    <3>4. Len(a) \in Nat
      BY <3>1
    <3> QED BY <2>3, <3>1, <3>2, <3>3, <3>4
  <2>6. CASE scan.len = Cut
    <3>1. seen' = Len(b) /\ scan' = Scan(source.kind, source.dialect, b)
      BY <2>2, <2>4, <2>6
    <3>2. SubSeq(b, 1, Len(b)) = b /\ Len(b) # 0
      BY <2>3, <2>5
    <3> QED BY <2>2, <2>4, <3>1, <3>2 DEF SeenInv
  <2>7. CASE scan.len # Cut
    <3>1. scan' = scan /\ seen' = seen
      BY <2>2, <2>7
    <3>2. PICK k \in 0 .. Len(a) : k = seen
      BY <2>4 DEF ScanInv
    <3>3. SubSeq(b, 1, k) = SubSeq(a, 1, k)
      BY <2>3, <2>5
    <3> QED BY <2>2, <2>4, <3>1, <3>2, <3>3 DEF SeenInv
  <2> QED BY <2>6, <2>7
<1>2. CASE FailToWrite
  BY <1>2 DEF FailToWrite, SeenInv
<1>3. CASE UNCHANGED vars
  BY <1>3 DEF vars, SeenInv
<1> QED BY <1>1, <1>2, <1>3 DEF Next

LEMMA SeenHolds == Spec => []SeenInv
<1>1. Init => SeenInv
  BY DEF Init, SeenInv
<1> QED BY <1>1, SeenStep, WireHolds, ScanHolds, PTL DEF Spec

\* What was sent is a text.
LEMMA WholeTyped == WireInv => Whole \in Seq(Bytes)
<1> SUFFICES ASSUME WireInv PROVE Whole \in Seq(Bytes)
  OBVIOUS
<1>1. source.calls \in Seq(Seq(Bytes)) /\ source.calls # <<>> /\ Len(source.calls) \in Nat \ {0}
  BY CallsAre DEF WireInv
<1>2. PICK f \in Sends(source.calls) : FlattenSeq(source.calls) = f[Len(source.calls)]
  BY <1>1, WholeIs
<1>3. f[Len(source.calls)] \in Seq(Bytes)
  <2>1. f \in [1 .. Len(source.calls) -> Seq(Bytes)] /\ Len(source.calls) \in 1 .. Len(source.calls)
    BY <1>1 DEF Sends
  <2> QED BY <2>1
<1> QED BY <1>2, <1>3 DEF Whole

\* However a lexeme is cut on its way, what a scanner decides on its beginning is
\* what it decides on the whole of it.
THEOREM VerdictsAreFinal == Spec => []VerdictIsFinal
<1>1. WireInv /\ ScanInv /\ SeenInv /\ EachByteOnce => VerdictIsFinal
  <2> SUFFICES ASSUME WireInv, ScanInv, SeenInv, EachByteOnce,
                      scan.len # Cut, 0 \notin Range(Whole), ~CutInExponent
               PROVE  LET kind == source.kind
                          d    == source.dialect
                          had  == SubSeq(wire, 1, seen)
                      IN  /\ EndOf(kind, d, Whole) = EndOf(kind, d, had)
                          /\ kind # "name" /\ ~(kind = "literal" /\ HasHexaEscape(d))
                             => scan = Scan(kind, d, Whole)
    BY Zenon DEF VerdictIsFinal
  <2>1. PICK whole, had, kind, d : /\ whole = Whole /\ had = SubSeq(wire, 1, seen)
                                   /\ kind = source.kind /\ d = source.dialect
    OBVIOUS
  <2>2. PICK n \in Nat : n = seen /\ n # 0 /\ n <= Len(wire)
    <3>1. seen # 0
      BY DEF SeenInv, Verdict, NotYet, Scanned
    <3> QED BY <3>1 DEF ScanInv
  <2>3. scan = Scan(kind, d, had)
    BY <2>1, <2>2 DEF SeenInv
  <2>4. /\ whole \in Seq(Bytes) /\ wire \in Seq(Bytes) /\ Len(wire) \in Nat /\ Len(whole) \in Nat
        /\ Len(wire) <= Len(whole) /\ \A j \in 1 .. Len(wire) : wire[j] = whole[j]
    <3>1. whole \in Seq(Bytes) /\ wire \in Seq(Bytes) /\ IsPrefix(wire, whole)
      BY <2>1, WholeTyped DEF ScanInv, EachByteOnce
    <3> QED BY <3>1, BytesPrefixIs
  <2>5. had \in Seq(Bytes) /\ Len(had) = n /\ \A j \in 1 .. n : had[j] = wire[j]
    BY <2>1, <2>2, <2>4
  <2>6. Begins(had, whole)
    <3>1. \A j \in 1 .. n : whole[j] = had[j] /\ j \in DOMAIN whole
      BY <2>2, <2>4, <2>5
    <3>2. \A j \in DOMAIN whole : whole[j] # 0
      BY <2>1 DEF Range
    <3>3. n <= Len(whole) /\ had # <<>>
      BY <2>2, <2>4, <2>5
    <3> QED BY <2>4, <2>5, <3>1, <3>2, <3>3 DEF Begins
  <2>7. kind = "number" => ~ExponentCut(had)
    <3> SUFFICES ASSUME kind = "number", ExponentCut(had) PROVE FALSE
      OBVIOUS
    <3>1. \E i \in 1 .. n : wire[i] = Ord["."]
      BY <2>5 DEF ExponentCut
    <3>2. wire[n] \in {Ord["e"], Ord["E"], Ord["+"], Ord["-"]}
      <4>1. n \in 1 .. n
        BY <2>2
      <4>2. had[n] \in {Ord["e"], Ord["E"]} \cup SignMarks /\ wire[n] = had[n]
        BY <2>5, <4>1 DEF ExponentCut
      <4> QED BY <4>2 DEF SignMarks
    <3>3. CutInExponent
      BY <2>1, <2>2, <3>1, <3>2 DEF CutInExponent
    <3> QED BY <3>3
  <2>8. kind \in SourceKinds
    BY <2>1 DEF ScanInv
  <2>9. /\ EndOf(kind, d, whole) = EndOf(kind, d, had)
        /\ kind # "name" /\ ~(kind = "literal" /\ HasHexaEscape(d))
           => Scan(kind, d, whole) = Scan(kind, d, had)
    BY <2>3, <2>6, <2>7, <2>8, ScanStays
  <2> QED BY <2>1, <2>3, <2>9
<1> QED BY <1>1, WireHolds, ScanHolds, SeenHolds, EachByteArrivesOnce, PTL
=============================================================================
