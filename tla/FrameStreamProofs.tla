--------------------------- MODULE FrameStreamProofs ---------------------------
(***************************************************************************)
(* Theorems about FrameStream, for any payloads, limits and pieces in      *)
(* which the stream is written and read.                                   *)
(*                                                                         *)
(* The parser and the checksum are recursive functions over sequences.     *)
(* The induction they need is had from sets: a set of numbers that is not  *)
(* empty has a least element, so the least length for which a claim fails  *)
(* can be taken and refuted.                                               *)
(***************************************************************************)
EXTENDS FrameStream, SequenceTheorems, WellFoundedInduction, TLAPS

-----------------------------------------------------------------------------
(* Induction and recursion.                                                *)

\* A set of natural numbers that is not empty has a least element.
LEMMA Least ==
    ASSUME NEW T, T \subseteq Nat, T # {}
    PROVE  \E n \in T : \A m \in T : n <= m
  <1> DEFINE R == OpToRel(<, Nat)
  <1>1. IsWellFoundedOn(R, Nat)
    BY NatLessThanWellFounded
  <1>2. \A m, n \in Nat : m < n => <<m, n>> \in R
    BY DEF R, OpToRel
  <1> HIDE DEF R
  <1>3. PICK n \in T : \A m \in T : ~(<<m, n>> \in R)
    BY <1>1, WFMin
  <1>4. \A m \in T : n <= m
    <2> TAKE m \in T
    <2>1. m \in Nat /\ n \in Nat
      OBVIOUS
    <2>2. ~(m < n)
      BY <1>2, <1>3, <2>1
    <2>3. QED
      BY <2>1, <2>2
  <1>5. QED
    BY <1>4

LEMMA MinOfSet ==
    ASSUME NEW T, T \subseteq Nat, T # {}
    PROVE  Min(T) \in T /\ \A m \in T : Min(T) <= m
  <1>1. PICK n \in T : \A m \in T : n <= m
    BY Least
  <1>2. QED
    BY <1>1 DEF Min

\* An element of least size among those of a set that is not empty.
LEMMA Smallest ==
    ASSUME NEW T, T # {}, NEW size, \A x \in T : size[x] \in Nat
    PROVE  \E x \in T : \A y \in T : size[x] <= size[y]
  <1> DEFINE sizes == {size[x] : x \in T}
  <1>1. PICK n \in sizes : \A m \in sizes : n <= m
    <2>1. sizes \subseteq Nat /\ sizes # {}
      OBVIOUS
    <2>2. QED
      BY <2>1, Least
  <1>2. QED
    BY <1>1

\* f follows the recursion on the elements of S that are smaller than n.
Follows(f, n, S, size, stop, next, base, step) ==
    \A x \in S : size[x] < n =>
        f[x] = IF x \in stop THEN base[x] ELSE step[<<x, f[next[x]]>>]

\* Two functions that follow it agree.
LEMMA FollowersAgree ==
    ASSUME NEW S, NEW size \in [S -> Nat], NEW stop, NEW next \in [S -> S],
           NEW base, NEW step,
           \A x \in S \ stop : size[next[x]] < size[x],
           NEW f, NEW g, NEW m \in Nat, NEW n \in Nat,
           Follows(f, m, S, size, stop, next, base, step),
           Follows(g, n, S, size, stop, next, base, step)
    PROVE  \A x \in S : size[x] < m /\ size[x] < n => f[x] = g[x]
  <1> DEFINE T == {x \in S : size[x] < m /\ size[x] < n /\ f[x] # g[x]}
  <1> SUFFICES T = {}
    OBVIOUS
  <1>1. SUFFICES ASSUME T # {} PROVE FALSE
    OBVIOUS
  <1>2. \A x \in T : size[x] \in Nat
    OBVIOUS
  <1>3. PICK x \in T : \A y \in T : size[x] <= size[y]
    <2> HIDE DEF T
    <2>1. QED
      BY <1>1, <1>2, Smallest
  <1>4. x \notin stop
    BY DEF Follows
  <1>5. next[x] \in S /\ size[next[x]] < size[x] /\ size[next[x]] \in Nat
    BY <1>4
  <1>6. f[next[x]] = g[next[x]]
    BY <1>3, <1>5
  <1>7. QED
    BY <1>4, <1>6 DEF Follows

\* What a recursion needs to define a function from S to V.
Recursive(S, V, size, stop, next, base, step) ==
    /\ V # {} /\ size \in [S -> Nat] /\ next \in [S -> S]
    /\ \A x \in S \ stop : size[next[x]] < size[x]
    /\ \A x \in S \cap stop : base[x] \in V
    /\ \A x \in S \ stop : \A v \in V : step[<<x, v>>] \in V

\* There is one that follows it everywhere.
LEMMA Recursion ==
    ASSUME NEW S, NEW V, NEW size, NEW stop, NEW next, NEW base, NEW step,
           Recursive(S, V, size, stop, next, base, step)
    PROVE  \E f \in [S -> V] : \A x \in S :
              f[x] = IF x \in stop THEN base[x] ELSE step[<<x, f[next[x]]>>]
  <1> USE DEF Recursive
  <1> DEFINE Good(f, n) == Follows(f, n, S, size, stop, next, base, step)
             bad == {n \in Nat : ~ \E f \in [S -> V] : Good(f, n)}
             G(n) == CHOOSE f \in [S -> V] : Good(f, n)
             F == [x \in S |-> G(size[x] + 1)[x]]
  <1>1. bad = {}
    <2>1. SUFFICES ASSUME bad # {} PROVE FALSE
      OBVIOUS
    <2>2. PICK n \in bad : \A m \in bad : n <= m
      <3>1. bad \subseteq Nat
        OBVIOUS
      <3> HIDE DEF bad
      <3>2. QED
        BY <2>1, <3>1, Least
    <2>3. CASE n = 0
      <3>1. PICK v \in V : TRUE
        OBVIOUS
      <3>2. [x \in S |-> v] \in [S -> V]
        OBVIOUS
      <3>3. Good([x \in S |-> v], 0)
        BY DEF Follows
      <3>4. QED
        BY <2>3, <3>2, <3>3
    <2>4. CASE n # 0
      <3>1. n - 1 \in Nat /\ n - 1 \notin bad
        BY <2>2, <2>4
      <3>2. PICK f \in [S -> V] : Good(f, n - 1)
        BY <3>1
      <3> DEFINE g == [x \in S |-> IF x \in stop THEN base[x] ELSE step[<<x, f[next[x]]>>]]
      <3>3. g \in [S -> V]
        OBVIOUS
      <3>4. ASSUME NEW x \in S, size[x] < n, x \notin stop
            PROVE  g[next[x]] = f[next[x]]
        <4>1. next[x] \in S /\ size[next[x]] < n - 1
          BY <3>1, <3>4
        <4>2. QED
          BY <3>2, <4>1 DEF Follows
      <3>5. Good(g, n)
        BY <3>4 DEF Follows
      <3>6. QED
        BY <3>3, <3>5
    <2>5. QED
      BY <2>3, <2>4
  <1>2. \A n \in Nat : G(n) \in [S -> V] /\ Good(G(n), n)
    BY <1>1
  <1>3. F \in [S -> V]
    <2> HIDE DEF G
    <2>1. QED
      BY <1>2
  <1>4. ASSUME NEW x \in S
        PROVE  F[x] = IF x \in stop THEN base[x] ELSE step[<<x, F[next[x]]>>]
    <2> DEFINE n == size[x] + 1
               y == next[x]
    <2>1. n \in Nat /\ Good(G(n), n) /\ size[x] < n
      BY <1>2
    <2>2. G(n)[x] = IF x \in stop THEN base[x] ELSE step[<<x, G(n)[y]>>]
      BY <2>1 DEF Follows
    <2>3. CASE x \in stop
      BY <2>2, <2>3
    <2>4. CASE x \notin stop
      <3>1. y \in S /\ size[y] < size[x] /\ size[y] + 1 \in Nat
        BY <2>4
      <3>2. Good(G(size[y] + 1), size[y] + 1)
        BY <1>2, <3>1
      <3> HIDE DEF G, y
      <3>3. G(size[y] + 1)[y] = G(n)[y]
        BY <2>1, <3>1, <3>2, FollowersAgree
      <3>4. QED
        BY <2>2, <2>4, <3>1, <3>3 DEF y
    <2>5. QED
      BY <2>3, <2>4
  <1>5. QED
    BY <1>3, <1>4

\* Whatever follows it everywhere has its values in V.
LEMMA RecursionValues ==
    ASSUME NEW S, NEW V, NEW size, NEW stop, NEW next, NEW base, NEW step,
           Recursive(S, V, size, stop, next, base, step), NEW f,
           \A x \in S : (x \notin stop => f[next[x]] \in V)
               => f[x] = IF x \in stop THEN base[x] ELSE step[<<x, f[next[x]]>>]
    PROVE  \A x \in S : f[x] \in V
  <1> USE DEF Recursive
  <1> DEFINE T == {x \in S : f[x] \notin V}
  <1>1. SUFFICES ASSUME T # {} PROVE FALSE
    OBVIOUS
  <1>2. \A x \in T : size[x] \in Nat
    OBVIOUS
  <1>3. PICK x \in T : \A y \in T : size[x] <= size[y]
    <2> HIDE DEF T
    <2>1. QED
      BY <1>1, <1>2, Smallest
  <1>4. x \in S /\ x \notin stop
    OBVIOUS
  <1>5. next[x] \in S /\ size[next[x]] < size[x] /\ size[next[x]] \in Nat
    BY <1>4
  <1>6. f[next[x]] \in V
    BY <1>3, <1>5
  <1>7. QED
    BY <1>4, <1>6

-----------------------------------------------------------------------------
(* Pieces of sequences.                                                    *)

LEMMA Piece ==
    ASSUME NEW S, NEW s \in Seq(S), NEW m \in 1 .. Len(s) + 1, NEW n \in m - 1 .. Len(s)
    PROVE  /\ SubSeq(s, m, n) \in Seq(S) /\ Len(SubSeq(s, m, n)) = n - m + 1
           /\ \A i \in 1 .. n - m + 1 : SubSeq(s, m, n)[i] = s[m + i - 1]
  <1>1. \A i \in m .. n : s[i] \in S
    BY ElementOfSeq
  <1>2. m \in Int /\ n \in Int
    OBVIOUS
  <1> DEFINE p == SubSeq(s, m, n)
  <1>3. /\ p \in Seq(S) /\ Len(p) = IF m <= n THEN n - m + 1 ELSE 0
        /\ \A i \in 1 .. n - m + 1 : p[i] = s[m + i - 1]
    BY <1>1, <1>2, SubSeqProperties
  <1> HIDE DEF p
  <1>4. p \in Seq(S) /\ Len(p) = n - m + 1 /\ \A i \in 1 .. n - m + 1 : p[i] = s[m + i - 1]
    BY <1>3
  <1>5. QED
    BY <1>4 DEF p

LEMMA Concat ==
    ASSUME NEW S, NEW s \in Seq(S), NEW t \in Seq(S)
    PROVE  /\ s \o t \in Seq(S) /\ Len(s) \in Nat /\ Len(t) \in Nat
           /\ Len(s \o t) = Len(s) + Len(t)
           /\ \A i \in 1 .. Len(s) : (s \o t)[i] = s[i]
           /\ \A i \in 1 .. Len(t) : (s \o t)[Len(s) + i] = t[i]
  <1> DEFINE u == s \o t
  <1>1. Len(s) \in Nat /\ Len(t) \in Nat
    OBVIOUS
  <1>2. /\ u \in Seq(S) /\ Len(u) = Len(s) + Len(t)
        /\ \A i \in 1 .. Len(s) + Len(t) : u[i] = IF i <= Len(s) THEN s[i] ELSE t[i - Len(s)]
    BY ConcatProperties
  <1> HIDE DEF u
  <1>3. \A i \in 1 .. Len(s) : u[i] = s[i]
    BY <1>1, <1>2
  <1>4. ASSUME NEW i \in 1 .. Len(t) PROVE u[Len(s) + i] = t[i]
    <2>1. /\ Len(s) + i \in 1 .. Len(s) + Len(t) /\ ~(Len(s) + i <= Len(s))
          /\ Len(s) + i - Len(s) = i
      BY <1>1
    <2>2. QED
      BY <1>2, <2>1
  <1>5. QED
    BY <1>1, <1>2, <1>3, <1>4 DEF u

LEMMA FrontOfSeq ==
    ASSUME NEW b \in Seq(Nat), b # <<>>
    PROVE  /\ Front(b) \in Seq(Nat) /\ Len(Front(b)) = Len(b) - 1
           /\ Len(b) \in Nat \ {0} /\ b[Len(b)] \in Nat
           /\ \A i \in 1 .. Len(b) - 1 : Front(b)[i] = b[i]
  <1>1. Len(b) \in Nat \ {0}
    BY EmptySeq
  <1>2. b[Len(b)] \in Nat
    BY <1>1, ElementOfSeq
  <1>3. 1 \in 1 .. Len(b) + 1 /\ Len(b) - 1 \in 1 - 1 .. Len(b)
    BY <1>1
  <1> DEFINE p == SubSeq(b, 1, Len(b) - 1)
  <1>4. /\ p \in Seq(Nat) /\ Len(p) = Len(b) - 1 - 1 + 1
        /\ \A i \in 1 .. Len(b) - 1 - 1 + 1 : p[i] = b[1 + i - 1]
    BY <1>3, Piece
  <1> HIDE DEF p
  <1>5. Len(p) = Len(b) - 1 /\ \A i \in 1 .. Len(b) - 1 : p[i] = b[i]
    BY <1>1, <1>4
  <1>6. QED
    BY <1>1, <1>2, <1>4, <1>5 DEF Front, p

-----------------------------------------------------------------------------
(* The checksum is a number.                                               *)

LEMMA CrcIsNumber == ASSUME NEW b \in Seq(Nat) PROVE Crc[b] \in Nat
  <1> DEFINE S == Seq(Nat)
             size == [c \in S |-> Len(c)]
             next == [c \in S |-> IF c = <<>> THEN c ELSE Front(c)]
             base == [c \in S |-> 1]
             value(c, v) == (v * Base + c[Len(c)]) % 32749
             step == [x \in S \X Nat |-> value(x[1], x[2])]
             F(f) == [c \in S |->
                        IF c = <<>> THEN 1 ELSE (f[Front(c)] * Base + c[Len(c)]) % 32749]
             P(f) == f = F(f)
  <1>1. size \in [S -> Nat] /\ next \in [S -> S]
    BY FrontOfSeq
  <1>2. \A c \in S \ {<<>>} : size[next[c]] < size[c]
    BY FrontOfSeq
  <1>3. \A c \in S \cap {<<>>} : base[c] \in Nat
    OBVIOUS
  <1>4. ASSUME NEW c \in S, c # <<>>, NEW v \in Nat
        PROVE  value(c, v) \in Nat /\ step[<<c, v>>] = value(c, v)
    <2>1. c[Len(c)] \in Nat
      BY <1>4, FrontOfSeq
    <2>2. v * Base \in Nat
      BY StreamAssumption
    <2>3. \A m, n \in Nat : (m + n) % 32749 \in Nat
      OBVIOUS
    <2>4. value(c, v) \in Nat
      BY <2>1, <2>2, <2>3
    <2>5. QED
      BY <2>4
  <1>5. \A c \in S \ {<<>>} : \A v \in Nat : step[<<c, v>>] \in Nat
    <2> HIDE DEF step, S, value
    <2>1. QED
      BY <1>4
  <1> DEFINE stop == {<<>>}
             V == Nat
  <1>6. Recursive(S, V, size, stop, next, base, step)
    <2>1. V # {}
      OBVIOUS
    <2> HIDE DEF S, size, next, base, step
    <2>2. QED
      BY <1>1, <1>2, <1>3, <1>5, <2>1 DEF Recursive
  <1>7. PICK f \in [S -> V] : \A c \in S :
            f[c] = IF c \in stop THEN base[c] ELSE step[<<c, f[next[c]]>>]
    <2> HIDE DEF S, V, stop, size, next, base, step
    <2>1. QED
      BY <1>6, Recursion
  <1>8. ASSUME NEW g, NEW c \in S, c # <<>> => g[Front(c)] \in Nat
        PROVE  F(g)[c] = IF c \in stop THEN base[c] ELSE step[<<c, g[next[c]]>>]
    <2>1. CASE c = <<>>
      BY <2>1
    <2>2. CASE c # <<>>
      <3>1. next[c] = Front(c) /\ g[Front(c)] \in Nat
        BY <1>8, <2>2
      <3>2. F(g)[c] = value(c, g[Front(c)])
        BY <2>2
      <3>3. step[<<c, g[Front(c)]>>] = value(c, g[Front(c)])
        <4> HIDE DEF step, value, S
        <4>1. QED
          BY <1>4, <2>2, <3>1
      <3> HIDE DEF step, value, S, F, next, base
      <3>4. QED
        BY <2>2, <3>1, <3>2, <3>3
    <2>3. QED
      BY <2>1, <2>2
  <1>9. P(f)
    <2>1. ASSUME NEW c \in S
          PROVE  f[c] = F(f)[c]
      <3>1. c # <<>> => f[Front(c)] \in Nat
        BY FrontOfSeq
      <3> HIDE DEF base, S, next, step, F, stop
      <3>2. QED
        BY <1>7, <1>8, <3>1
    <2>2. F(f) = [c \in S |-> F(f)[c]] /\ f = [c \in S |-> f[c]]
      OBVIOUS
    <2> HIDE DEF F, S
    <2>3. QED
      BY <2>1, <2>2
  <1>10. P(Crc)
    <2>1. Crc = CHOOSE g : P(g)
      BY DEF Crc
    <2> HIDE DEF P
    <2>2. QED
      BY <1>9, <2>1
  <1>11. \A c \in S : Crc[c] = F(Crc)[c]
    <2> HIDE DEF F
    <2>1. QED
      BY <1>10
  <1>12. \A c \in S : (c \notin stop => Crc[next[c]] \in V)
            => Crc[c] = IF c \in stop THEN base[c] ELSE step[<<c, Crc[next[c]]>>]
    <2>1. \A c \in S : c # <<>> => next[c] = Front(c)
      OBVIOUS
    <2> HIDE DEF base, S, next, step, F
    <2>2. QED
      BY <1>8, <1>11, <2>1
  <1>13. \A c \in S : Crc[c] \in V
    <2> HIDE DEF S, V, stop, size, next, base, step
    <2>1. QED
      BY <1>6, <1>12, RecursionValues
  <1>14. QED
    BY <1>13

LEMMA ChecksumIsNumber == ASSUME NEW b \in Seq(Nat) PROVE Checksum(b) \in Nat
  BY CrcIsNumber, StreamAssumption DEF Checksum

-----------------------------------------------------------------------------
(* CutFrames and CutPackets compute what their equations say.              *)

AnyFrame == [type : Nat, payload : Seq(Nat)]

Cuts == [frames : Seq(AnyFrame), rest : Seq(Nat), bad : BOOLEAN]

LEMMA HeaderIsFour == HeaderSize = 4 /\ Magic \in Seq(Nat) /\ Len(Magic) = 2
  <1>1. 0 .. Base - 1 \subseteq Nat
    OBVIOUS
  <1>2. QED
    BY <1>1, StreamAssumption, SeqMonotonic DEF HeaderSize

\* Buffers of which no frame is cut.
FramesStop ==
    {b \in Seq(Nat) : \/ Len(b) < HeaderSize
                      \/ StartsWithMagic(b) /\ (Oversized(b) \/ ~Complete(b))}

FramesBase(b) ==
    IF Len(b) < HeaderSize THEN [frames |-> <<>>, rest |-> b, bad |-> FALSE]
    ELSE IF Oversized(b) THEN [frames |-> <<>>, rest |-> <<>>, bad |-> TRUE]
    ELSE [frames |-> <<>>, rest |-> b, bad |-> FALSE]

FramesNext(b) ==
    IF b \in FramesStop THEN b
    ELSE IF ~StartsWithMagic(b) THEN Resynchronised(b)
    ELSE SubSeq(b, FrameSize(b) + 1, Len(b))

FramesStep(b, v) ==
    IF ~StartsWithMagic(b) THEN [v EXCEPT !.bad = TRUE]
    ELSE LET frame == DecodeFrame(SubSeq(b, 1, FrameSize(b)))
         IN  [frames |-> frame \o v.frames, rest |-> v.rest,
              bad |-> v.bad \/ frame = <<>>]

LEMMA FrameSizeType ==
    ASSUME NEW b \in Seq(Nat), Len(b) >= HeaderSize
    PROVE  /\ DeclaredLength(b) \in Nat
           /\ FrameSize(b) = DeclaredLength(b) + 5 /\ FrameSize(b) \in Nat
  <1>1. b[HeaderSize] \in Nat
    BY HeaderIsFour, ElementOfSeq
  <1>2. QED
    BY <1>1, HeaderIsFour DEF FrameSize, DeclaredLength

LEMMA ResynchronisedIsShorter ==
    ASSUME NEW b \in Seq(Nat), Len(b) > 0
    PROVE  Resynchronised(b) \in Seq(Nat) /\ Len(Resynchronised(b)) < Len(b)
  <1> DEFINE starts == {i \in 2 .. Len(b) - 1 : StartsWithMagic(SubSeq(b, i, Len(b)))}
  <1>1. CASE starts = {}
    <2>1. Resynchronised(b) = <<>>
      BY <1>1 DEF Resynchronised
    <2>2. QED
      BY <2>1, EmptySeq
  <1>2. CASE starts # {}
    <2>1. starts \subseteq Nat
      OBVIOUS
    <2>2. Min(starts) \in starts
      <3> HIDE DEF starts
      <3>1. QED
        BY <1>2, <2>1, MinOfSet
    <2>3. PICK m \in 2 .. Len(b) - 1 : m = Min(starts)
      BY <2>2
    <2>4. Resynchronised(b) = SubSeq(b, m, Len(b))
      <3>1. Resynchronised(b) = IF starts = {} THEN <<>> ELSE SubSeq(b, Min(starts), Len(b))
        BY DEF Resynchronised
      <3> HIDE DEF starts
      <3>2. QED
        BY <1>2, <2>3, <3>1
    <2>5. Len(b) \in Nat /\ m \in 1 .. Len(b) + 1 /\ Len(b) \in m - 1 .. Len(b)
      OBVIOUS
    <2>6. SubSeq(b, m, Len(b)) \in Seq(Nat) /\ Len(SubSeq(b, m, Len(b))) = Len(b) - m + 1
      BY <2>5, Piece
    <2>7. QED
      BY <2>4, <2>5, <2>6
  <1>3. QED
    BY <1>1, <1>2

LEMMA FramesNextIsShorter ==
    ASSUME NEW b \in Seq(Nat)
    PROVE  /\ FramesNext(b) \in Seq(Nat)
           /\ b \notin FramesStop => Len(FramesNext(b)) < Len(b)
  <1>1. CASE b \in FramesStop
    BY <1>1 DEF FramesNext
  <1>2. CASE b \notin FramesStop
    <2>1. Len(b) \in Nat /\ Len(b) >= HeaderSize /\ Len(b) > 0
      BY <1>2, HeaderIsFour DEF FramesStop
    <2>2. CASE ~StartsWithMagic(b)
      BY <1>2, <2>1, <2>2, ResynchronisedIsShorter DEF FramesNext
    <2>3. CASE StartsWithMagic(b)
      <3>1. FrameSize(b) \in Nat /\ FrameSize(b) > 0 /\ FrameSize(b) <= Len(b)
        BY <1>2, <2>1, <2>3, FrameSizeType DEF FramesStop, Complete
      <3>2. PICK n \in Nat : n = FrameSize(b) + 1
        BY <3>1
      <3>3. FramesNext(b) = SubSeq(b, n, Len(b))
        BY <1>2, <2>3, <3>2 DEF FramesNext
      <3>4. n \in 1 .. Len(b) + 1 /\ Len(b) \in n - 1 .. Len(b) /\ n > 1
        BY <2>1, <3>1, <3>2
      <3>5. SubSeq(b, n, Len(b)) \in Seq(Nat) /\ Len(SubSeq(b, n, Len(b))) = Len(b) - n + 1
        BY <3>4, Piece
      <3>6. QED
        BY <2>1, <3>3, <3>4, <3>5
    <2>4. QED
      BY <2>2, <2>3
  <1>3. QED
    BY <1>1, <1>2

LEMMA DecodeFrameType ==
    ASSUME NEW p \in Seq(Nat), Len(p) > HeaderSize
    PROVE  DecodeFrame(p) \in Seq(AnyFrame)
  <1>1. Len(p) \in Nat /\ HeaderSize - 1 \in 1 .. Len(p)
    BY HeaderIsFour
  <1>2. p[HeaderSize - 1] \in Nat
    BY <1>1, ElementOfSeq
  <1>3. HeaderSize + 1 \in 1 .. Len(p) + 1 /\ Len(p) - 1 \in HeaderSize + 1 - 1 .. Len(p)
    BY <1>1, HeaderIsFour
  <1>4. SubSeq(p, HeaderSize + 1, Len(p) - 1) \in Seq(Nat)
    BY <1>3, Piece
  <1>5. [type |-> p[HeaderSize - 1], payload |-> SubSeq(p, HeaderSize + 1, Len(p) - 1)]
            \in AnyFrame
    BY <1>2, <1>4 DEF AnyFrame
  <1>6. QED
    BY <1>5, EmptySeq DEF DecodeFrame

LEMMA FramesBaseType == ASSUME NEW b \in Seq(Nat) PROVE FramesBase(b) \in Cuts
  <1>1. <<>> \in Seq(AnyFrame) /\ <<>> \in Seq(Nat)
    BY EmptySeq
  <1>2. QED
    BY <1>1 DEF FramesBase, Cuts

LEMMA FramesStepType ==
    ASSUME NEW b \in Seq(Nat), b \notin FramesStop, NEW v \in Cuts
    PROVE  FramesStep(b, v) \in Cuts
  <1>1. CASE ~StartsWithMagic(b)
    BY <1>1 DEF FramesStep, Cuts
  <1>2. CASE StartsWithMagic(b)
    <2>1. Len(b) \in Nat /\ Len(b) >= HeaderSize
      BY <1>2, HeaderIsFour DEF FramesStop
    <2>2. PICK n \in Nat : n = FrameSize(b) /\ n > HeaderSize /\ n <= Len(b)
      BY <1>2, <2>1, FrameSizeType, HeaderIsFour DEF FramesStop, Complete
    <2>3. 1 \in 1 .. Len(b) + 1 /\ n \in 1 - 1 .. Len(b)
      BY <2>1, <2>2
    <2> DEFINE p == SubSeq(b, 1, n)
    <2>4. p \in Seq(Nat) /\ Len(p) = n - 1 + 1
      BY <2>3, Piece
    <2>5. Len(p) > HeaderSize
      BY <2>2, <2>4, HeaderIsFour
    <2> HIDE DEF p
    <2>6. PICK frame \in Seq(AnyFrame) : frame = DecodeFrame(p)
      BY <2>4, <2>5, DecodeFrameType
    <2>7. FramesStep(b, v) = [frames |-> frame \o v.frames, rest |-> v.rest,
                              bad |-> v.bad \/ frame = <<>>]
      BY <1>2, <2>2, <2>6 DEF FramesStep, p
    <2>8. v.frames \in Seq(AnyFrame) /\ v.rest \in Seq(Nat) /\ v.bad \in BOOLEAN
      BY DEF Cuts
    <2>9. frame \o v.frames \in Seq(AnyFrame)
      BY <2>8, ConcatProperties
    <2>10. QED
      BY <2>7, <2>8, <2>9 DEF Cuts
  <1>3. QED
    BY <1>1, <1>2

\* The equation of CutFrames holds, and so its values are of the type meant.
LEMMA CutFramesUnfolds ==
    ASSUME NEW b \in Seq(Nat)
    PROVE  /\ CutFrames[b] \in Cuts
           /\ CutFrames[b] = IF b \in FramesStop THEN FramesBase(b)
                             ELSE FramesStep(b, CutFrames[FramesNext(b)])
  <1> DEFINE S == Seq(Nat)
             size == [c \in S |-> Len(c)]
             next == [c \in S |-> FramesNext(c)]
             base == [c \in S |-> FramesBase(c)]
             step == [x \in S \X Cuts |-> FramesStep(x[1], x[2])]
             F(f) == [c \in S |->
                IF Len(c) < HeaderSize THEN [frames |-> <<>>, rest |-> c, bad |-> FALSE]
                ELSE IF ~StartsWithMagic(c)
                     THEN [f[Resynchronised(c)] EXCEPT !.bad = TRUE]
                ELSE IF Oversized(c) THEN [frames |-> <<>>, rest |-> <<>>, bad |-> TRUE]
                ELSE IF ~Complete(c) THEN [frames |-> <<>>, rest |-> c, bad |-> FALSE]
                ELSE LET frame == DecodeFrame(SubSeq(c, 1, FrameSize(c)))
                         more  == f[SubSeq(c, FrameSize(c) + 1, Len(c))]
                     IN  [frames |-> frame \o more.frames, rest |-> more.rest,
                          bad |-> more.bad \/ frame = <<>>]]
             G(f, c) == IF c \in FramesStop THEN FramesBase(c)
                        ELSE FramesStep(c, f[FramesNext(c)])
             P(f) == f = F(f)
  <1>1. Recursive(S, Cuts, size, FramesStop, next, base, step)
    <2>1. FramesBase(<<>>) \in Cuts
      BY EmptySeq, FramesBaseType
    <2>2. size \in [S -> Nat] /\ next \in [S -> S]
      BY FramesNextIsShorter
    <2>3. \A c \in S \ FramesStop : size[next[c]] < size[c]
      BY FramesNextIsShorter
    <2>4. \A c \in S \cap FramesStop : base[c] \in Cuts
      BY FramesBaseType
    <2>5. \A c \in S \ FramesStop : \A v \in Cuts : step[<<c, v>>] \in Cuts
      <3>1. \A c \in S : \A v \in Cuts : step[<<c, v>>] = FramesStep(c, v)
        OBVIOUS
      <3> HIDE DEF step
      <3>2. QED
        BY <3>1, FramesStepType
    <2> HIDE DEF S, size, next, base, step
    <2>6. QED
      BY <2>1, <2>2, <2>3, <2>4, <2>5 DEF Recursive
  <1>2. ASSUME NEW f, NEW c \in S
        PROVE  F(f)[c] = G(f, c)
    <2>1. CASE Len(c) < HeaderSize
      BY <2>1 DEF FramesStop, FramesBase
    <2>2. CASE ~(Len(c) < HeaderSize) /\ ~StartsWithMagic(c)
      BY <2>2 DEF FramesStop, FramesNext, FramesStep
    <2>3. CASE ~(Len(c) < HeaderSize) /\ StartsWithMagic(c) /\ (Oversized(c) \/ ~Complete(c))
      BY <2>3 DEF FramesStop, FramesBase
    <2>4. CASE ~(Len(c) < HeaderSize) /\ StartsWithMagic(c) /\ ~Oversized(c) /\ Complete(c)
      BY <2>4 DEF FramesStop, FramesNext, FramesStep
    <2>5. QED
      BY <2>1, <2>2, <2>3, <2>4
  <1>3. ASSUME NEW f, NEW c \in S, c \notin FramesStop => f[next[c]] \in Cuts
        PROVE  G(f, c) = IF c \in FramesStop THEN base[c] ELSE step[<<c, f[next[c]]>>]
    <2>1. base[c] = FramesBase(c) /\ next[c] = FramesNext(c)
      OBVIOUS
    <2>2. c \notin FramesStop => step[<<c, f[next[c]]>>] = FramesStep(c, f[next[c]])
      BY <1>3
    <2> HIDE DEF base, next, step
    <2>3. QED
      BY <2>1, <2>2
  <1> HIDE DEF G
  <1>4. PICK f \in [S -> Cuts] : \A c \in S :
            f[c] = IF c \in FramesStop THEN base[c] ELSE step[<<c, f[next[c]]>>]
    <2> HIDE DEF S, size, next, base, step
    <2>1. QED
      BY <1>1, Recursion
  <1>5. P(f)
    <2>1. ASSUME NEW c \in S PROVE f[c] = F(f)[c]
      <3>1. f[next[c]] \in Cuts
        BY FramesNextIsShorter
      <3> HIDE DEF F, S, next, base, step
      <3>2. QED
        BY <1>2, <1>3, <1>4, <3>1
    <2>2. F(f) = [c \in S |-> F(f)[c]] /\ f = [c \in S |-> f[c]]
      OBVIOUS
    <2> HIDE DEF F, S
    <2>3. QED
      BY <2>1, <2>2
  <1>6. P(CutFrames)
    <2>1. CutFrames = CHOOSE g : P(g)
      BY DEF CutFrames
    <2> HIDE DEF P
    <2>2. QED
      BY <1>5, <2>1
  <1>7. \A c \in S : CutFrames[c] = G(CutFrames, c)
    <2> HIDE DEF F
    <2>1. QED
      BY <1>2, <1>6
  <1>8. \A c \in S : CutFrames[c] \in Cuts
    <2> HIDE DEF P, S, size, next, base, step, F
    <2>1. QED
      BY <1>1, <1>3, <1>7, RecursionValues
  <1>9. QED
    BY <1>7, <1>8 DEF G

\* Buffers of which no packet is cut.
PacketsStop == {b \in Seq(Nat) : LengthSizes(b) = {} \/ Len(b) < PacketSize(b)}

PacketsBase(b) ==
    IF LengthSizes(b) = {} THEN [frames |-> <<>>, rest |-> b, bad |-> Corrupted(b)]
    ELSE [frames |-> <<>>, rest |-> b, bad |-> FALSE]

PacketsNext(b) == IF b \in PacketsStop THEN b ELSE SubSeq(b, PacketSize(b) + 1, Len(b))

PacketsStep(b, v) ==
    [v EXCEPT !.frames =
        <<[type |-> b[1], payload |->
           SubSeq(b, Min(LengthSizes(b)) + 2, PacketSize(b))]>> \o @]

LEMMA LengthSizeType ==
    ASSUME NEW b \in Seq(Nat), LengthSizes(b) # {}
    PROVE  /\ Min(LengthSizes(b)) \in LengthSizes(b)
           /\ \A k \in LengthSizes(b) : Min(LengthSizes(b)) <= k
           /\ Min(LengthSizes(b)) \in 1 .. 4 /\ 1 + Min(LengthSizes(b)) <= Len(b)
  <1>1. LengthSizes(b) \subseteq Nat
    BY DEF LengthSizes
  <1>2. /\ Min(LengthSizes(b)) \in LengthSizes(b)
        /\ \A k \in LengthSizes(b) : Min(LengthSizes(b)) <= k
    BY <1>1, MinOfSet
  <1>3. QED
    BY <1>2 DEF LengthSizes

LEMMA DecodeLengthType ==
    ASSUME NEW b \in Seq(Nat), LengthSizes(b) # {}
    PROVE  DecodeVariableLength(b) \in Nat
  <1>1. PICK k \in 1 .. 4 : k = Min(LengthSizes(b)) /\ 1 + k <= Len(b)
    BY LengthSizeType
  <1> DEFINE digit(i) == IF i <= k THEN b[1 + i] % Radix ELSE 0
  <1>2. ASSUME NEW i \in 1 .. 4 PROVE digit(i) \in Nat
    <2>1. CASE i <= k
      <3>1. Len(b) \in Nat /\ 1 + i \in 1 .. Len(b)
        BY <1>1, <2>1
      <3>2. b[1 + i] \in Nat
        BY <3>1, ElementOfSeq
      <3>3. \A n \in Nat : n % Radix \in Nat
        BY StreamAssumption
      <3>4. QED
        BY <2>1, <3>2, <3>3
    <2>2. QED
      BY <2>1
  <1>3. DecodeVariableLength(b)
            = digit(1) + Radix * (digit(2) + Radix * (digit(3) + Radix * digit(4)))
    BY <1>1 DEF DecodeVariableLength
  <1> HIDE DEF digit
  <1>4. digit(1) \in Nat /\ digit(2) \in Nat /\ digit(3) \in Nat /\ digit(4) \in Nat
    BY <1>2
  <1>5. \A m, n \in Nat : m + Radix * n \in Nat
    BY StreamAssumption
  <1>6. QED
    BY <1>3, <1>4, <1>5

LEMMA PacketSizeType ==
    ASSUME NEW b \in Seq(Nat), b \notin PacketsStop
    PROVE  /\ LengthSizes(b) # {}
           /\ PacketSize(b) \in 2 .. Len(b) /\ Len(b) \in Nat
           /\ Min(LengthSizes(b)) + 1 <= PacketSize(b)
  <1>1. LengthSizes(b) # {} /\ ~(Len(b) < PacketSize(b))
    BY DEF PacketsStop
  <1>2. PICK k \in 1 .. 4 : k = Min(LengthSizes(b)) /\ 1 + k <= Len(b)
    BY <1>1, LengthSizeType
  <1>3. PICK n \in Nat : n = DecodeVariableLength(b)
    BY <1>1, DecodeLengthType
  <1>4. PacketSize(b) = 1 + k + n
    BY <1>2, <1>3 DEF PacketSize
  <1>5. QED
    BY <1>1, <1>2, <1>4

LEMMA PacketsNextIsShorter ==
    ASSUME NEW b \in Seq(Nat)
    PROVE  /\ PacketsNext(b) \in Seq(Nat)
           /\ b \notin PacketsStop => Len(PacketsNext(b)) < Len(b)
  <1>1. CASE b \in PacketsStop
    BY <1>1 DEF PacketsNext
  <1>2. CASE b \notin PacketsStop
    <2>1. PICK n \in Nat : n = PacketSize(b) + 1 /\ n > 1 /\ n <= Len(b) + 1
      BY <1>2, PacketSizeType
    <2>2. Len(b) \in Nat /\ n \in 1 .. Len(b) + 1 /\ Len(b) \in n - 1 .. Len(b)
      BY <2>1
    <2>3. SubSeq(b, n, Len(b)) \in Seq(Nat) /\ Len(SubSeq(b, n, Len(b))) = Len(b) - n + 1
      BY <2>2, Piece
    <2>4. PacketsNext(b) = SubSeq(b, n, Len(b))
      BY <1>2, <2>1 DEF PacketsNext
    <2>5. QED
      BY <2>1, <2>2, <2>3, <2>4
  <1>3. QED
    BY <1>1, <1>2

LEMMA PacketsStepType ==
    ASSUME NEW b \in Seq(Nat), b \notin PacketsStop, NEW v \in Cuts
    PROVE  PacketsStep(b, v) \in Cuts
  <1>1. PICK k \in 1 .. 4 : k = Min(LengthSizes(b)) /\ 1 + k <= PacketSize(b)
    BY PacketSizeType, LengthSizeType
  <1>2. PICK n \in 2 .. Len(b) : n = PacketSize(b)
    BY PacketSizeType
  <1>3. Len(b) \in Nat /\ 1 \in 1 .. Len(b) /\ k + 2 \in 1 .. Len(b) + 1
        /\ n \in k + 2 - 1 .. Len(b)
    BY <1>1, <1>2
  <1>4. b[1] \in Nat /\ SubSeq(b, k + 2, n) \in Seq(Nat)
    BY <1>3, ElementOfSeq, Piece
  <1> DEFINE frame == [type |-> b[1], payload |-> SubSeq(b, k + 2, n)]
  <1>5. frame \in AnyFrame
    BY <1>4 DEF AnyFrame
  <1>6. PacketsStep(b, v) = [v EXCEPT !.frames = <<frame>> \o @]
    BY <1>1, <1>2 DEF PacketsStep
  <1> HIDE DEF frame
  <1>7. v.frames \in Seq(AnyFrame) /\ <<frame>> \in Seq(AnyFrame)
    BY <1>5 DEF Cuts
  <1>8. <<frame>> \o v.frames \in Seq(AnyFrame)
    BY <1>7, ConcatProperties
  <1>9. QED
    BY <1>6, <1>8 DEF Cuts

\* The equation of CutPackets holds, and so its values are of the type meant.
LEMMA CutPacketsUnfolds ==
    ASSUME NEW b \in Seq(Nat)
    PROVE  /\ CutPackets[b] \in Cuts
           /\ CutPackets[b] = IF b \in PacketsStop THEN PacketsBase(b)
                              ELSE PacketsStep(b, CutPackets[PacketsNext(b)])
  <1> DEFINE S == Seq(Nat)
             size == [c \in S |-> Len(c)]
             next == [c \in S |-> PacketsNext(c)]
             base == [c \in S |-> PacketsBase(c)]
             step == [x \in S \X Cuts |-> PacketsStep(x[1], x[2])]
             F(f) == [c \in S |->
                IF LengthSizes(c) = {}
                THEN [frames |-> <<>>, rest |-> c, bad |-> Corrupted(c)]
                ELSE IF Len(c) < PacketSize(c)
                     THEN [frames |-> <<>>, rest |-> c, bad |-> FALSE]
                ELSE LET more == f[SubSeq(c, PacketSize(c) + 1, Len(c))]
                     IN  [more EXCEPT !.frames =
                             <<[type |-> c[1], payload |->
                                SubSeq(c, Min(LengthSizes(c)) + 2, PacketSize(c))]>> \o @]]
             G(f, c) == IF c \in PacketsStop THEN PacketsBase(c)
                        ELSE PacketsStep(c, f[PacketsNext(c)])
             P(f) == f = F(f)
  <1>1. ASSUME NEW c \in S PROVE PacketsBase(c) \in Cuts
    <2>1. <<>> \in Seq(AnyFrame) /\ Corrupted(c) \in BOOLEAN
      BY EmptySeq DEF Corrupted
    <2>2. QED
      BY <2>1 DEF PacketsBase, Cuts
  <1>2. Recursive(S, Cuts, size, PacketsStop, next, base, step)
    <2>1. PacketsBase(<<>>) \in Cuts
      BY <1>1, EmptySeq
    <2>2. size \in [S -> Nat] /\ next \in [S -> S]
      BY PacketsNextIsShorter
    <2>3. \A c \in S \ PacketsStop : size[next[c]] < size[c]
      BY PacketsNextIsShorter
    <2>4. \A c \in S \cap PacketsStop : base[c] \in Cuts
      BY <1>1
    <2>5. \A c \in S \ PacketsStop : \A v \in Cuts : step[<<c, v>>] \in Cuts
      <3>1. \A c \in S : \A v \in Cuts : step[<<c, v>>] = PacketsStep(c, v)
        OBVIOUS
      <3> HIDE DEF step
      <3>2. QED
        BY <3>1, PacketsStepType
    <2> HIDE DEF S, size, next, base, step
    <2>6. QED
      BY <2>1, <2>2, <2>3, <2>4, <2>5 DEF Recursive
  <1>3. ASSUME NEW f, NEW c \in S
        PROVE  F(f)[c] = G(f, c)
    <2>1. CASE LengthSizes(c) = {}
      BY <2>1 DEF PacketsStop, PacketsBase
    <2>2. CASE LengthSizes(c) # {} /\ Len(c) < PacketSize(c)
      BY <2>2 DEF PacketsStop, PacketsBase
    <2>3. CASE LengthSizes(c) # {} /\ ~(Len(c) < PacketSize(c))
      BY <2>3 DEF PacketsStop, PacketsNext, PacketsStep
    <2>4. QED
      BY <2>1, <2>2, <2>3
  <1>4. ASSUME NEW f, NEW c \in S, c \notin PacketsStop => f[next[c]] \in Cuts
        PROVE  G(f, c) = IF c \in PacketsStop THEN base[c] ELSE step[<<c, f[next[c]]>>]
    <2>1. base[c] = PacketsBase(c) /\ next[c] = PacketsNext(c)
      OBVIOUS
    <2>2. c \notin PacketsStop => step[<<c, f[next[c]]>>] = PacketsStep(c, f[next[c]])
      BY <1>4
    <2> HIDE DEF base, next, step
    <2>3. QED
      BY <2>1, <2>2
  <1> HIDE DEF G
  <1>5. PICK f \in [S -> Cuts] : \A c \in S :
            f[c] = IF c \in PacketsStop THEN base[c] ELSE step[<<c, f[next[c]]>>]
    <2> HIDE DEF S, size, next, base, step
    <2>1. QED
      BY <1>2, Recursion
  <1>6. P(f)
    <2>1. ASSUME NEW c \in S PROVE f[c] = F(f)[c]
      <3>1. f[next[c]] \in Cuts
        BY PacketsNextIsShorter
      <3> HIDE DEF F, S, next, base, step
      <3>2. QED
        BY <1>3, <1>4, <1>5, <3>1
    <2>2. F(f) = [c \in S |-> F(f)[c]] /\ f = [c \in S |-> f[c]]
      OBVIOUS
    <2> HIDE DEF F, S
    <2>3. QED
      BY <2>1, <2>2
  <1>7. P(CutPackets)
    <2>1. CutPackets = CHOOSE g : P(g)
      BY DEF CutPackets
    <2> HIDE DEF P
    <2>2. QED
      BY <1>6, <2>1
  <1>8. \A c \in S : CutPackets[c] = G(CutPackets, c)
    <2> HIDE DEF F
    <2>1. QED
      BY <1>3, <1>7
  <1>9. \A c \in S : CutPackets[c] \in Cuts
    <2> HIDE DEF P, S, size, next, base, step, F
    <2>1. QED
      BY <1>2, <1>4, <1>8, RecursionValues
  <1>10. QED
    BY <1>8, <1>9 DEF G

LEMMA FramesLeaveLessThanOne ==
    ASSUME NEW b \in Seq(Nat)
    PROVE  Len(CutFrames[b].rest) < HeaderSize + MaxPayload + 1
  <1> DEFINE size == [c \in Seq(Nat) |-> Len(c)]
             T == {c \in Seq(Nat) : ~(Len(CutFrames[c].rest) < HeaderSize + MaxPayload + 1)}
  <1>1. SUFFICES ASSUME T # {} PROVE FALSE
    OBVIOUS
  <1>2. \A c \in T : size[c] \in Nat
    OBVIOUS
  <1>3. PICK c \in T : \A d \in T : size[c] <= size[d]
    <2> HIDE DEF T, size
    <2>1. QED
      BY <1>1, <1>2, Smallest
  <1>4. MaxPayload \in Nat /\ HeaderSize = 4 /\ Len(c) \in Nat /\ c \in Seq(Nat)
    BY HeaderIsFour, StreamAssumption
  <1>5. CASE c \in FramesStop
    <2>1. CutFrames[c].rest = FramesBase(c).rest
      BY <1>4, <1>5, CutFramesUnfolds
    <2>2. CASE Len(c) < HeaderSize
      BY <1>4, <2>1, <2>2 DEF FramesBase
    <2>3. CASE Len(c) >= HeaderSize /\ Oversized(c)
      <3>1. FramesBase(c).rest = <<>>
        BY <1>4, <2>3 DEF FramesBase
      <3>2. Len(<<>>) = 0
        BY EmptySeq
      <3>3. QED
        BY <1>4, <2>1, <3>1, <3>2
    <2>4. CASE Len(c) >= HeaderSize /\ ~Oversized(c)
      <3>1. FramesBase(c).rest = c /\ ~Complete(c)
        BY <1>4, <1>5, <2>4 DEF FramesBase, FramesStop
      <3>2. Len(c) < DeclaredLength(c) + 5 /\ DeclaredLength(c) \in Nat
        BY <1>4, <2>4, <3>1, FrameSizeType DEF Complete
      <3>3. DeclaredLength(c) <= MaxPayload
        BY <1>4, <2>4, <3>2 DEF Oversized
      <3>4. QED
        BY <1>4, <2>1, <3>1, <3>2, <3>3
    <2>5. QED
      BY <1>4, <2>2, <2>3, <2>4
  <1>6. CASE c \notin FramesStop
    <2> DEFINE d == FramesNext(c)
    <2>1. d \in Seq(Nat) /\ size[d] < size[c] /\ size[d] \in Nat /\ size[c] \in Nat
      BY <1>4, <1>6, FramesNextIsShorter
    <2>2. d \notin T
      <3> HIDE DEF T, d, size
      <3>1. QED
        BY <1>3, <2>1
    <2>3. CutFrames[d] \in Cuts /\ CutFrames[c] = FramesStep(c, CutFrames[d])
      BY <1>4, <1>6, <2>1, CutFramesUnfolds
    <2>4. CutFrames[c].rest = CutFrames[d].rest
      <3> HIDE DEF d
      <3>1. QED
        BY <2>3 DEF FramesStep, Cuts
    <2>5. QED
      BY <1>3, <2>1, <2>2, <2>4
  <1>7. QED
    BY <1>5, <1>6

LEMMA MinOfTwo ==
    ASSUME NEW m \in Int, NEW n \in Int
    PROVE  Min({m, n}) = IF m <= n THEN m ELSE n
  <1>1. CASE m <= n
    BY <1>1 DEF Min
  <1>2. CASE ~(m <= n)
    BY <1>2 DEF Min
  <1>3. QED
    BY <1>1, <1>2

-----------------------------------------------------------------------------
(* What is encoded.                                                        *)

\* The frames of a stream of kind k, and what they are encoded to.
FramesOf(k) == [type : 1 .. MaxFrames, payload : Payloads[k]]

EncodingOf(k, f) == IF k = "broker" THEN EncodePacket(f) ELSE EncodeFrame(f)

LEMMA PayloadType ==
    ASSUME NEW k \in Kinds, NEW p \in Payloads[k]
    PROVE  /\ p \in Seq(Nat) /\ Len(p) \in Nat
           /\ k = "broker" => Len(p) < Radix * Radix * Radix * Radix
           /\ k # "broker" => Len(p) <= MaxPayload
  <1>1. p \in Seq(0 .. Base - 1)
    BY PayloadAssumption
  <1>2. 0 .. Base - 1 \subseteq Nat
    OBVIOUS
  <1>3. p \in Seq(Nat)
    BY <1>1, <1>2, SeqMonotonic
  <1>4. QED
    BY <1>3, PayloadAssumption

\* The bytes of a frame, each at its place.
LEMMA FrameBytes ==
    ASSUME NEW k \in {"up", "down"}, NEW f \in FramesOf(k)
    PROVE  LET e == EncodeFrame(f)  n == Len(f.payload)
           IN  /\ e \in Seq(Nat) /\ Len(e) = n + 5 /\ n \in Nat /\ n <= MaxPayload
               /\ e[1] = Magic[1] /\ e[2] = Magic[2] /\ e[3] = f.type /\ e[4] = n
               /\ \A i \in 1 .. n : e[4 + i] = f.payload[i]
               /\ e[n + 5] = Checksum(Front(e))
  <1>1. f.payload \in Payloads[k] /\ f.type \in Nat /\ k \in Kinds
    BY DEF FramesOf, Kinds
  <1>2. f.payload \in Seq(Nat) /\ Len(f.payload) \in Nat /\ Len(f.payload) <= MaxPayload
    BY <1>1, PayloadType
  <1>3. Magic \in Seq(Nat) /\ Len(Magic) = 2
    BY HeaderIsFour
  <1> DEFINE p == f.payload
             n == Len(p)
             h == Magic \o <<f.type, n>>
             body == h \o p
  <1>4. <<f.type, n>> \in Seq(Nat) /\ Len(<<f.type, n>>) = 2
    BY <1>1, <1>2
  <1>5. h \in Seq(Nat) /\ Len(h) = 4 /\ h[1] = Magic[1] /\ h[2] = Magic[2]
        /\ h[3] = f.type /\ h[4] = n
    <2> DEFINE t == <<f.type, n>>
    <2>1. t \in Seq(Nat) /\ Len(t) = 2 /\ t[1] = f.type /\ t[2] = n
      BY <1>4
    <2> HIDE DEF t
    <2>2. Magic \in Seq(Nat)
      BY <1>3
    <2>3. h = Magic \o t
      BY DEF t
    <2>4. /\ h \in Seq(Nat) /\ Len(h) = Len(Magic) + Len(t)
          /\ \A i \in 1 .. Len(Magic) : h[i] = Magic[i]
          /\ \A i \in 1 .. Len(t) : h[Len(Magic) + i] = t[i]
      BY <2>1, <2>2, <2>3, Concat
    <2> HIDE DEF h
    <2>5. 2 + 1 = 3 /\ 2 + 2 = 4 /\ 1 \in 1 .. 2 /\ 2 \in 1 .. 2
      OBVIOUS
    <2>6. h[3] = t[1] /\ h[4] = t[2] /\ h[1] = Magic[1] /\ h[2] = Magic[2]
      BY <1>3, <2>1, <2>4, <2>5
    <2>7. Len(h) = 4
      BY <1>3, <2>1, <2>4
    <2>8. QED
      BY <2>1, <2>4, <2>6, <2>7
  <1> HIDE DEF h
  <1>6. body \in Seq(Nat) /\ Len(body) = n + 4
        /\ (\A i \in 1 .. 4 : body[i] = h[i]) /\ (\A i \in 1 .. n : body[4 + i] = p[i])
    <2>1. p \in Seq(Nat) /\ Len(p) \in Nat /\ h \in Seq(Nat)
      BY <1>2, <1>5
    <2> HIDE DEF p
    <2>2. /\ body \in Seq(Nat) /\ Len(body) = Len(h) + Len(p)
          /\ \A i \in 1 .. Len(h) : body[i] = h[i]
          /\ \A i \in 1 .. Len(p) : body[Len(h) + i] = p[i]
      BY <2>1, Concat
    <2> HIDE DEF body
    <2>3. QED
      BY <1>5, <2>1, <2>2
  <1> HIDE DEF body
  <1>7. PICK x \in Nat : x = Checksum(body)
    BY <1>6, ChecksumIsNumber
  <1> DEFINE e == Append(body, x)
  <1>8. e \in Seq(Nat) /\ Len(e) = n + 5 /\ e[n + 5] = x
        /\ \A i \in 1 .. n + 4 : e[i] = body[i]
    BY <1>6, <1>2, AppendProperties
  <1> HIDE DEF e
  <1>9. e # <<>> /\ Len(e) - 1 = n + 4 /\ Len(e) \in Nat
    BY <1>2, <1>8, EmptySeq
  <1>10. Front(e) \in Seq(Nat) /\ Len(Front(e)) = Len(body)
         /\ \A i \in 1 .. Len(body) : Front(e)[i] = body[i]
    BY <1>2, <1>6, <1>8, <1>9, FrontOfSeq
  <1>11. Front(e) = body
    BY <1>6, <1>10, SeqEqual
  <1>12. EncodeFrame(f) = e
    BY <1>7 DEF EncodeFrame, e, body, h
  <1>13. n \in Nat
    BY <1>2
  <1> HIDE DEF n
  <1>14. /\ e[1] = Magic[1] /\ e[2] = Magic[2] /\ e[3] = f.type /\ e[4] = n
    <2>1. \A i \in 1 .. 4 : i \in 1 .. n + 4
      BY <1>13
    <2>2. \A i \in 1 .. 4 : e[i] = h[i]
      BY <1>6, <1>8, <2>1
    <2>3. QED
      BY <1>5, <2>2
  <1>15. ASSUME NEW i \in 1 .. n PROVE e[4 + i] = f.payload[i]
    <2>1. 4 + i \in 1 .. n + 4
      BY <1>13
    <2>2. QED
      BY <1>6, <1>8, <2>1
  <1>16. QED
    BY <1>2, <1>7, <1>8, <1>11, <1>12, <1>14, <1>15 DEF n

-----------------------------------------------------------------------------
(* The length of an MQTT packet, in base Radix.                            *)

LEMMA DivMod ==
    ASSUME NEW a \in Nat
    PROVE  /\ a \div Radix \in Nat /\ a % Radix \in 0 .. Radix - 1 /\ a % Radix \in Nat
           /\ a = Radix * (a \div Radix) + (a % Radix)
           /\ a < Radix => a % Radix = a
           /\ ((a % Radix) + Radix) % Radix = a % Radix
  BY StreamAssumption

LEMMA DivLess ==
    ASSUME NEW a \in Nat, NEW c \in Nat, a < c * Radix
    PROVE  a \div Radix < c
  BY StreamAssumption

\* The value that digits stand for.
ValueOf(d1, d2, d3, d4) == d1 + Radix * (d2 + Radix * (d3 + Radix * d4))

\* All bytes of an encoded length but the last have the continuation bit, and
\* their digits are the length.
LEMMA VariableLength ==
    ASSUME NEW n \in Nat, n < Radix * Radix * Radix * Radix
    PROVE  LET e == EncodeVariableLength(n)
               digit(i) == IF i <= Len(e) THEN e[i] % Radix ELSE 0
           IN  /\ e \in Seq(Nat) /\ Len(e) \in 1 .. 4
               /\ \A i \in 1 .. Len(e) : e[i] < Radix <=> i = Len(e)
               /\ n = ValueOf(digit(1), digit(2), digit(3), digit(4))
  <1>1. PICK second \in Nat : second = n \div Radix
    BY DivMod
  <1>2. PICK third \in Nat : third = second \div Radix
    BY DivMod
  <1>3. PICK fourth \in Nat : fourth = third \div Radix
    BY DivMod
  <1>4. Radix \in Nat /\ Radix > 1
    BY StreamAssumption
  <1>5. fourth < Radix
    <2>1. Radix * Radix \in Nat /\ Radix * Radix * Radix \in Nat
      BY <1>4
    <2>2. second < Radix * Radix * Radix
      BY <1>1, <2>1, DivLess
    <2>3. third < Radix * Radix
      BY <1>2, <2>1, <2>2, DivLess
    <2>4. QED
      BY <1>3, <1>4, <2>3, DivLess
  <1>6. /\ n = Radix * second + (n % Radix) /\ n % Radix \in Nat
        /\ second = Radix * third + (second % Radix) /\ second % Radix \in Nat
        /\ third = Radix * fourth + (third % Radix) /\ third % Radix \in Nat
    BY <1>1, <1>2, <1>3, DivMod
  <1> DEFINE rest == <<n, second, third, fourth>>
             sizes == {k \in 1 .. 4 : rest[k] < Radix \/ k = 4}
  <1>7. /\ rest \in [1 .. 4 -> Nat]
        /\ rest[1] = n /\ rest[2] = second /\ rest[3] = third /\ rest[4] = fourth
    OBVIOUS
  <1> HIDE DEF rest
  <1>8. PICK size \in sizes : size = Min(sizes) /\ \A k \in sizes : size <= k
    <2>1. sizes \subseteq Nat /\ 4 \in sizes
      OBVIOUS
    <2> HIDE DEF sizes
    <2>2. QED
      BY <2>1, MinOfSet
  <1>9. Min(sizes) = size
    BY <1>8
  <1>10. size \in 1 .. 4 /\ rest[size] < Radix /\ \A i \in 1 .. size - 1 : rest[i] >= Radix
    <2>1. \A i \in 1 .. 4 : rest[i] \in Nat
      BY <1>7
    <2>2. QED
      BY <1>4, <1>5, <1>7, <1>8, <2>1
  <1> DEFINE e == [i \in 1 .. size |-> (rest[i] % Radix)
                                       + (IF rest[i] >= Radix THEN Radix ELSE 0)]
  <1>11. EncodeVariableLength(n) = e
    BY <1>1, <1>2, <1>3, <1>9 DEF EncodeVariableLength, rest
  <1>12. ASSUME NEW i \in 1 .. size
         PROVE  /\ e[i] \in Nat /\ (e[i] < Radix <=> i = size)
                /\ e[i] % Radix = rest[i] % Radix
    <2>1. PICK r \in Nat : r = rest[i]
      BY <1>7, <1>10
    <2>2. r % Radix \in Nat /\ (r < Radix => r % Radix = r)
          /\ ((r % Radix) + Radix) % Radix = r % Radix
      BY DivMod
    <2>3. e[i] = (r % Radix) + (IF r >= Radix THEN Radix ELSE 0)
      BY <2>1
    <2> HIDE DEF e
    <2>4. CASE i = size
      <3>1. r < Radix
        BY <1>10, <2>1, <2>4
      <3>2. e[i] = r
        BY <1>4, <2>2, <2>3, <3>1
      <3>3. QED
        BY <2>1, <2>2, <2>4, <3>1, <3>2
    <2>5. CASE i # size
      <3>1. r >= Radix
        BY <1>10, <2>1, <2>5
      <3>2. e[i] = (r % Radix) + Radix
        BY <2>3, <3>1
      <3>3. QED
        BY <1>4, <2>1, <2>2, <2>5, <3>2
    <2>6. QED
      BY <2>4, <2>5
  <1>13. e \in Seq(Nat) /\ Len(e) = size
    BY <1>10, <1>12
  <1> HIDE DEF e
  <1> DEFINE digit(i) == IF i <= size THEN e[i] % Radix ELSE 0
  <1>14. n = ValueOf(digit(1), digit(2), digit(3), digit(4))
    <2>1. \A i \in 1 .. 4 : digit(i) = IF i <= size THEN rest[i] % Radix ELSE 0
      BY <1>10, <1>12
    <2> HIDE DEF digit
    <2>2. CASE size = 1
      <3>1. n % Radix = n
        BY <1>7, <1>10, <2>2, DivMod
      <3>2. digit(1) = n /\ digit(2) = 0 /\ digit(3) = 0 /\ digit(4) = 0
        BY <1>7, <2>1, <2>2, <3>1
      <3>3. QED
        BY <1>4, <3>2 DEF ValueOf
    <2>3. CASE size = 2
      <3>1. second % Radix = second
        BY <1>7, <1>10, <2>3, DivMod
      <3>2. digit(1) = n % Radix /\ digit(2) = second /\ digit(3) = 0 /\ digit(4) = 0
        BY <1>7, <2>1, <2>3, <3>1
      <3>3. QED
        BY <1>4, <1>6, <3>2 DEF ValueOf
    <2>4. CASE size = 3
      <3>1. third % Radix = third
        BY <1>7, <1>10, <2>4, DivMod
      <3>2. /\ digit(1) = n % Radix /\ digit(2) = second % Radix
            /\ digit(3) = third /\ digit(4) = 0
        BY <1>7, <2>1, <2>4, <3>1
      <3>3. QED
        BY <1>4, <1>6, <3>2 DEF ValueOf
    <2>5. CASE size = 4
      <3>1. fourth % Radix = fourth
        BY <1>5, DivMod
      <3>2. /\ digit(1) = n % Radix /\ digit(2) = second % Radix
            /\ digit(3) = third % Radix /\ digit(4) = fourth
        BY <1>7, <2>1, <2>5, <3>1
      <3>3. QED
        BY <1>4, <1>6, <3>2 DEF ValueOf
    <2>6. QED
      BY <1>10, <2>2, <2>3, <2>4, <2>5
  <1>15. QED
    BY <1>10, <1>11, <1>12, <1>13, <1>14

\* The bytes of a packet, each at its place.
LEMMA PacketBytes ==
    ASSUME NEW f \in FramesOf("broker")
    PROVE  LET e == EncodePacket(f)
               n == Len(f.payload)
               v == EncodeVariableLength(n)
           IN  /\ e \in Seq(Nat) /\ Len(e) = 1 + Len(v) + n /\ n \in Nat
               /\ e[1] = f.type
               /\ \A i \in 1 .. Len(v) : e[1 + i] = v[i]
               /\ \A i \in 1 .. n : e[1 + Len(v) + i] = f.payload[i]
  <1>1. f.payload \in Payloads["broker"] /\ f.type \in Nat /\ "broker" \in Kinds
    BY DEF FramesOf, Kinds
  <1> DEFINE p == f.payload
             n == Len(p)
             v == EncodeVariableLength(n)
             t == <<f.type>>
             h == t \o v
             e == h \o p
  <1>2. p \in Seq(Nat) /\ n \in Nat /\ n < Radix * Radix * Radix * Radix
    BY <1>1, PayloadType
  <1>3. v \in Seq(Nat) /\ Len(v) \in Nat
    <2> HIDE DEF n
    <2>1. QED
      BY <1>2, VariableLength
  <1>4. t \in Seq(Nat) /\ Len(t) = 1 /\ t[1] = f.type
    BY <1>1
  <1> HIDE DEF p, v, t
  <1>5. /\ h \in Seq(Nat) /\ Len(h) = Len(t) + Len(v)
        /\ \A i \in 1 .. Len(t) : h[i] = t[i]
        /\ \A i \in 1 .. Len(v) : h[Len(t) + i] = v[i]
    <2>1. t \in Seq(Nat) /\ v \in Seq(Nat)
      BY <1>3, <1>4
    <2>2. QED
      BY <2>1, Concat
  <1> HIDE DEF h
  <1>6. /\ e \in Seq(Nat) /\ Len(e) = Len(h) + Len(p)
        /\ \A i \in 1 .. Len(h) : e[i] = h[i]
        /\ \A i \in 1 .. Len(p) : e[Len(h) + i] = p[i]
    <2>1. h \in Seq(Nat) /\ p \in Seq(Nat)
      BY <1>2, <1>5
    <2>2. QED
      BY <2>1, Concat
  <1> HIDE DEF e
  <1>7. Len(h) = 1 + Len(v) /\ h[1] = f.type /\ \A i \in 1 .. Len(v) : h[1 + i] = v[i]
    <2>1. 1 \in 1 .. 1
      OBVIOUS
    <2>2. QED
      BY <1>3, <1>4, <1>5, <2>1
  <1>8. e[1] = f.type /\ \A i \in 1 .. Len(v) : e[1 + i] = v[i]
    <2>1. 1 \in 1 .. Len(h) /\ \A i \in 1 .. Len(v) : 1 + i \in 1 .. Len(h)
      BY <1>3, <1>7
    <2>2. QED
      BY <1>6, <1>7, <2>1
  <1>9. Len(e) = 1 + Len(v) + Len(p) /\ \A i \in 1 .. Len(p) : e[1 + Len(v) + i] = p[i]
    BY <1>6, <1>7
  <1>10. EncodePacket(f) = e
    BY DEF EncodePacket, e, h, v, t, p
  <1>11. QED
    BY <1>2, <1>6, <1>8, <1>9, <1>10 DEF p, v

LEMMA EncodingType ==
    ASSUME NEW k \in Kinds, NEW f \in FramesOf(k)
    PROVE  EncodingOf(k, f) \in Seq(Nat) /\ Len(EncodingOf(k, f)) \in Nat \ {0}
  <1>1. CASE k = "broker"
    <2> DEFINE n == Len(f.payload)
    <2>1. f \in FramesOf("broker")
      BY <1>1
    <2>2. n \in Nat /\ n < Radix * Radix * Radix * Radix
      BY <1>1, PayloadType DEF FramesOf
    <2>3. Len(EncodeVariableLength(n)) \in Nat
      <3> HIDE DEF n
      <3>1. QED
        BY <2>2, VariableLength
    <2>4. EncodePacket(f) \in Seq(Nat)
          /\ Len(EncodePacket(f)) = 1 + Len(EncodeVariableLength(n)) + n
      BY <2>1, PacketBytes
    <2>5. EncodingOf(k, f) = EncodePacket(f)
      BY <1>1 DEF EncodingOf
    <2>6. PICK m \in Nat : m = Len(EncodeVariableLength(n))
      BY <2>3
    <2> HIDE DEF n
    <2>7. 1 + m + n \in Nat \ {0}
      BY <2>2, <2>6
    <2>8. QED
      BY <2>4, <2>5, <2>6, <2>7
  <1>2. CASE k # "broker"
    <2>1. k \in {"up", "down"}
      BY <1>2 DEF Kinds
    <2>2. EncodeFrame(f) \in Seq(Nat) /\ Len(EncodeFrame(f)) = Len(f.payload) + 5
          /\ Len(f.payload) \in Nat
      BY <2>1, FrameBytes
    <2>3. QED
      BY <1>2, <2>2 DEF EncodingOf
  <1>3. QED
    BY <1>1, <1>2

-----------------------------------------------------------------------------
(* Whatever follows it, a frame that is complete is cut as it was encoded, *)
(* and one that is not stays in the buffer.                                *)

CutOf(k, b) == IF k = "broker" THEN CutPackets[b] ELSE CutFrames[b]

Nothing(b) == [frames |-> <<>>, rest |-> b, bad |-> FALSE]

\* b and e are the same as far as both go.
Agree(b, e) == \A i \in 1 .. Len(e) : i <= Len(b) => b[i] = e[i]

LEMMA MagicIsSeen ==
    ASSUME NEW b \in Seq(Nat), Len(b) >= 2, b[1] = Magic[1], b[2] = Magic[2]
    PROVE  StartsWithMagic(b)
  <1>1. Magic \in Seq(Nat) /\ Len(Magic) = 2
    BY HeaderIsFour
  <1>2. PICK m \in Nat : m = 2
    OBVIOUS
  <1>3. 1 \in 1 .. Len(b) + 1 /\ m \in 1 - 1 .. Len(b)
        /\ 1 \in 1 .. Len(Magic) + 1 /\ m \in 1 - 1 .. Len(Magic)
    BY <1>1, <1>2
  <1> DEFINE s == SubSeq(b, 1, m)
             t == SubSeq(Magic, 1, m)
  <1>4. s \in Seq(Nat) /\ Len(s) = m - 1 + 1 /\ \A i \in 1 .. m - 1 + 1 : s[i] = b[1 + i - 1]
    BY <1>3, Piece
  <1>5. t \in Seq(Nat) /\ Len(t) = m - 1 + 1
        /\ \A i \in 1 .. m - 1 + 1 : t[i] = Magic[1 + i - 1]
    BY <1>1, <1>3, Piece
  <1> HIDE DEF s, t
  <1>6. Len(s) = Len(t) /\ \A i \in 1 .. Len(s) : s[i] = t[i]
    <2>1. Len(s) = 2 /\ Len(t) = 2
      BY <1>2, <1>4, <1>5
    <2>2. s[1] = b[1] /\ s[2] = b[2] /\ t[1] = Magic[1] /\ t[2] = Magic[2]
      BY <1>2, <1>4, <1>5
    <2>3. QED
      BY <2>1, <2>2
  <1>7. s = t
    BY <1>4, <1>5, <1>6, SeqEqual
  <1>8. QED
    BY <1>1, <1>2, <1>7 DEF StartsWithMagic, IsPrefix, s, t

-----------------------------------------------------------------------------
(* Sequences that begin in the same way.                                   *)

LEMMA PieceOfConcat ==
    ASSUME NEW S, NEW e \in Seq(S), NEW r \in Seq(S)
    PROVE  /\ SubSeq(e \o r, 1, Len(e)) = e
           /\ SubSeq(e \o r, Len(e) + 1, Len(e \o r)) = r
  <1> DEFINE b == e \o r
  <1>1. /\ b \in Seq(S) /\ Len(e) \in Nat /\ Len(r) \in Nat /\ Len(b) = Len(e) + Len(r)
        /\ \A i \in 1 .. Len(e) : b[i] = e[i]
        /\ \A i \in 1 .. Len(r) : b[Len(e) + i] = r[i]
    BY Concat
  <1> HIDE DEF b
  <1>2. PICK n \in Nat : n = Len(e)
    BY <1>1
  <1>3. SubSeq(b, 1, n) = e
    <2>1. 1 \in 1 .. Len(b) + 1 /\ n \in 1 - 1 .. Len(b)
      BY <1>1, <1>2
    <2>2. PICK p : p = SubSeq(b, 1, n)
      OBVIOUS
    <2>3. /\ p \in Seq(S) /\ Len(p) = n - 1 + 1
          /\ \A i \in 1 .. n - 1 + 1 : p[i] = b[1 + i - 1]
      BY <1>1, <2>1, <2>2, Piece
    <2>4. Len(p) = Len(e) /\ \A i \in 1 .. Len(p) : p[i] = e[i]
      BY <1>1, <1>2, <2>3
    <2>5. QED
      BY <2>2, <2>3, <2>4, SeqEqual
  <1>4. SubSeq(b, n + 1, Len(b)) = r
    <2>1. n + 1 \in 1 .. Len(b) + 1 /\ Len(b) \in n + 1 - 1 .. Len(b)
      BY <1>1, <1>2
    <2>2. PICK p : p = SubSeq(b, n + 1, Len(b))
      OBVIOUS
    <2>3. /\ p \in Seq(S) /\ Len(p) = Len(b) - (n + 1) + 1
          /\ \A i \in 1 .. Len(b) - (n + 1) + 1 : p[i] = b[n + 1 + i - 1]
      BY <1>1, <2>1, <2>2, Piece
    <2>4. Len(p) = Len(r)
      BY <1>1, <1>2, <2>3
    <2>5. ASSUME NEW i \in 1 .. Len(p) PROVE p[i] = r[i]
      <3>1. n + 1 + i - 1 = n + i /\ i \in 1 .. Len(b) - (n + 1) + 1 /\ i \in 1 .. Len(r)
        BY <1>1, <1>2, <2>4
      <3>2. QED
        BY <1>1, <1>2, <2>3, <3>1
    <2>6. QED
      BY <2>2, <2>3, <2>4, <2>5, SeqEqual
  <1>5. QED
    BY <1>2, <1>3, <1>4 DEF b

\* b and u make the same sequence as e and t, and b is not shorter than e.
Longer(b, u, e, t) == b \o u = e \o t /\ Len(e) <= Len(b)

\* e and r make b, and r and u make t.
Divided(S, b, u, e, t) == \E r \in Seq(S) : b = e \o r /\ t = r \o u

\* Of two ways to divide a sequence, one divides the first part of the other.
LEMMA LongerPart ==
    ASSUME NEW S, NEW b \in Seq(S), NEW u \in Seq(S), NEW e \in Seq(S), NEW t \in Seq(S),
           Longer(b, u, e, t)
    PROVE  Divided(S, b, u, e, t)
  <1>1. b \o u = e \o t /\ Len(e) <= Len(b)
    BY DEF Longer
  <1>2. PICK n \in Nat : n = Len(e) /\ n <= Len(b) /\ Len(b) \in Nat
    BY <1>1
  <1> DEFINE r == SubSeq(b, n + 1, Len(b))
             p == SubSeq(b, 1, n)
  <1>3. /\ n + 1 \in 1 .. Len(b) + 1 /\ Len(b) \in n + 1 - 1 .. Len(b)
        /\ 1 \in 1 .. Len(b) + 1 /\ n \in 1 - 1 .. Len(b) /\ Len(b) \in n .. Len(b)
    BY <1>2
  <1>4. r \in Seq(S) /\ p \in Seq(S) /\ Len(p) = n - 1 + 1
        /\ \A i \in 1 .. n - 1 + 1 : p[i] = b[1 + i - 1]
    BY <1>3, Piece
  <1>5. p \o r = b
    <2>1. SubSeq(b, 1, n) \o SubSeq(b, n + 1, Len(b)) = SubSeq(b, 1, Len(b))
      BY <1>3, ConcatAdjacentSubSeq
    <2>2. SubSeq(b, 1, Len(b)) = b
      BY SubSeqFull
    <2>3. QED
      BY <2>1, <2>2
  <1> HIDE DEF p, r
  <1>6. p = e
    <2>1. Len(p) = Len(e)
      BY <1>2, <1>4
    <2>2. ASSUME NEW i \in 1 .. Len(p) PROVE p[i] = e[i]
      <3>1. i \in 1 .. Len(e) /\ i \in 1 .. Len(b) /\ 1 + i - 1 = i /\ i \in 1 .. n - 1 + 1
        BY <1>2, <2>1
      <3>2. (b \o u)[i] = b[i]
        BY <3>1, Concat
      <3>3. (e \o t)[i] = e[i]
        BY <3>1, Concat
      <3>4. QED
        BY <1>1, <1>4, <3>1, <3>2, <3>3
    <2>3. QED
      BY <1>4, <2>1, <2>2, SeqEqual
  <1>7. e \o (r \o u) = e \o t
    <2>1. (e \o r) \o u = e \o (r \o u)
      BY <1>4, ConcatAssociative
    <2>2. QED
      BY <1>1, <1>5, <1>6, <2>1
  <1>8. r \o u = t
    <2>1. r \o u \in Seq(S)
      BY <1>4, ConcatProperties
    <2>2. QED
      BY <1>7, <2>1, ConcatSimplifications
  <1>9. QED
    BY <1>4, <1>5, <1>6, <1>8 DEF Divided

LEMMA PartsAgree ==
    ASSUME NEW b \in Seq(Nat), NEW u \in Seq(Nat), NEW e \in Seq(Nat), NEW t \in Seq(Nat),
           b \o u = e \o t
    PROVE  Agree(b, e)
  <1>1. ASSUME NEW i \in 1 .. Len(e), i <= Len(b) PROVE b[i] = e[i]
    <2>1. i \in 1 .. Len(b)
      BY <1>1
    <2>2. (b \o u)[i] = b[i]
      BY <2>1, Concat
    <2>3. (e \o t)[i] = e[i]
      BY Concat
    <2>4. QED
      BY <2>2, <2>3
  <1>2. QED
    BY <1>1 DEF Agree

LEMMA HeaderIsRead ==
    ASSUME NEW k \in {"up", "down"}, NEW f \in FramesOf(k), NEW b \in Seq(Nat),
           Agree(b, EncodeFrame(f)), Len(b) >= HeaderSize
    PROVE  /\ StartsWithMagic(b) /\ ~Oversized(b)
           /\ FrameSize(b) = Len(EncodeFrame(f)) /\ b[3] = f.type
  <1> DEFINE n == Len(f.payload)
  <1>1. PICK e : e = EncodeFrame(f)
    OBVIOUS
  <1>2. /\ e \in Seq(Nat) /\ Len(e) = n + 5 /\ n \in Nat /\ n <= MaxPayload
        /\ e[1] = Magic[1] /\ e[2] = Magic[2] /\ e[3] = f.type /\ e[4] = n
    BY <1>1, FrameBytes
  <1> HIDE DEF n
  <1>3. HeaderSize = 4 /\ MaxPayload \in Nat /\ Len(b) \in Nat /\ Len(b) >= 4
    BY HeaderIsFour, StreamAssumption
  <1>4. b[1] = e[1] /\ b[2] = e[2] /\ b[3] = e[3] /\ b[4] = e[4]
    <2>1. \A i \in 1 .. 4 : i \in 1 .. Len(e) /\ i <= Len(b)
      BY <1>2, <1>3
    <2>2. \A i \in 1 .. 4 : b[i] = e[i]
      BY <1>1, <2>1 DEF Agree
    <2>3. QED
      BY <2>2
  <1>5. StartsWithMagic(b)
    BY <1>2, <1>3, <1>4, MagicIsSeen
  <1>6. DeclaredLength(b) = n
    BY <1>2, <1>3, <1>4 DEF DeclaredLength
  <1>7. FrameSize(b) = n + 5
    BY <1>3, <1>6, FrameSizeType
  <1>8. ~Oversized(b)
    BY <1>2, <1>3, <1>6 DEF Oversized
  <1>9. QED
    BY <1>1, <1>2, <1>4, <1>5, <1>7, <1>8

LEMMA FrameWaits ==
    ASSUME NEW k \in {"up", "down"}, NEW f \in FramesOf(k), NEW b \in Seq(Nat),
           Agree(b, EncodeFrame(f)), Len(b) < Len(EncodeFrame(f))
    PROVE  CutFrames[b] = Nothing(b)
  <1>1. b \in FramesStop /\ FramesBase(b) = Nothing(b)
    <2>1. CASE Len(b) < HeaderSize
      BY <2>1 DEF FramesStop, FramesBase, Nothing
    <2>2. CASE ~(Len(b) < HeaderSize)
      <3>1. Len(b) >= HeaderSize /\ Len(b) \in Nat
        BY <2>2, HeaderIsFour
      <3>2. StartsWithMagic(b) /\ ~Oversized(b) /\ FrameSize(b) = Len(EncodeFrame(f))
        BY <3>1, HeaderIsRead
      <3>3. FrameSize(b) \in Nat
        BY <3>1, FrameSizeType
      <3>4. ~Complete(b)
        BY <3>1, <3>2, <3>3 DEF Complete
      <3>5. QED
        BY <2>2, <3>2, <3>4 DEF FramesStop, FramesBase, Nothing
    <2>3. QED
      BY <2>1, <2>2
  <1>2. QED
    BY <1>1, CutFramesUnfolds

LEMMA DecodeIsInverse ==
    ASSUME NEW k \in {"up", "down"}, NEW f \in FramesOf(k)
    PROVE  DecodeFrame(EncodeFrame(f)) = <<f>>
  <1> DEFINE n == Len(f.payload)
  <1>1. PICK e : e = EncodeFrame(f)
    OBVIOUS
  <1>2. /\ e \in Seq(Nat) /\ Len(e) = n + 5 /\ n \in Nat /\ e[3] = f.type
        /\ \A i \in 1 .. n : e[4 + i] = f.payload[i]
        /\ e[n + 5] = Checksum(Front(e))
    BY <1>1, FrameBytes
  <1>3. f.payload \in Seq(Nat)
    BY PayloadType DEF FramesOf, Kinds
  <1>4. f = [type |-> f.type, payload |-> f.payload]
    BY DEF FramesOf
  <1>5. HeaderSize - 1 = 3 /\ HeaderSize + 1 = 5
    BY HeaderIsFour
  <1> DEFINE p == SubSeq(e, 5, Len(e) - 1)
  <1>6. p = f.payload
    <2>1. PICK first \in Nat, last \in Nat : first = 5 /\ last = Len(e) - 1
      <3> HIDE DEF n
      <3>1. 5 \in Nat /\ Len(e) - 1 \in Nat
        BY <1>2
      <3>2. QED
        BY <3>1
    <2>2. e \in Seq(Nat) /\ first \in 1 .. Len(e) + 1 /\ last \in first - 1 .. Len(e)
      BY <1>2, <2>1
    <2>3. /\ SubSeq(e, first, last) \in Seq(Nat)
          /\ Len(SubSeq(e, first, last)) = last - first + 1
          /\ \A i \in 1 .. last - first + 1 : SubSeq(e, first, last)[i] = e[first + i - 1]
      BY <2>2, Piece
    <2>4. p = SubSeq(e, first, last) /\ last - first + 1 = n
      BY <1>2, <2>1
    <2> HIDE DEF p, n
    <2>5. p \in Seq(Nat) /\ Len(p) = n /\ \A i \in 1 .. n : p[i] = e[first + i - 1]
      BY <2>3, <2>4
    <2>6. ASSUME NEW i \in 1 .. n PROVE p[i] = f.payload[i]
      <3>1. first + i - 1 = 4 + i
        BY <1>2, <2>1
      <3>2. QED
        BY <1>2, <2>5, <3>1
    <2>7. n = Len(f.payload)
      BY DEF n
    <2>8. QED
      BY <1>3, <2>5, <2>6, <2>7, SeqEqual
  <1>7. ValidPacket(e)
    BY <1>2 DEF ValidPacket
  <1>8. DecodeFrame(e) = <<[type |-> e[3], payload |-> p]>>
    BY <1>5, <1>7 DEF DecodeFrame
  <1>9. QED
    BY <1>1, <1>2, <1>4, <1>6, <1>8

\* c is frame f, and then what is cut of what follows it.
IsThen(c, f, more) ==
    c.frames = <<f>> \o more.frames /\ c.rest = more.rest /\ c.bad = more.bad

LEMMA FrameIsCut ==
    ASSUME NEW k \in {"up", "down"}, NEW f \in FramesOf(k), NEW r \in Seq(Nat)
    PROVE  IsThen(CutFrames[EncodeFrame(f) \o r], f, CutFrames[r])
  <1>1. PICK e : e = EncodeFrame(f)
    OBVIOUS
  <1>2. e \in Seq(Nat) /\ Len(e) \in Nat /\ Len(e) >= 5
    <2>1. Len(f.payload) \in Nat /\ Len(e) = Len(f.payload) + 5 /\ e \in Seq(Nat)
      BY <1>1, FrameBytes
    <2>2. QED
      BY <2>1
  <1>3. PICK b : b = e \o r
    OBVIOUS
  <1>4. /\ b \in Seq(Nat) /\ Len(b) = Len(e) + Len(r) /\ Len(r) \in Nat
        /\ \A i \in 1 .. Len(e) : b[i] = e[i]
    BY <1>2, <1>3, Concat
  <1>5. Agree(b, e) /\ Len(b) >= HeaderSize /\ Len(b) \in Nat
    BY <1>2, <1>4, HeaderIsFour DEF Agree
  <1>6. StartsWithMagic(b) /\ ~Oversized(b) /\ FrameSize(b) = Len(e)
    BY <1>1, <1>4, <1>5, HeaderIsRead
  <1>7. b \notin FramesStop
    BY <1>2, <1>4, <1>5, <1>6, HeaderIsFour DEF FramesStop, Complete
  <1>8. SubSeq(b, 1, Len(e)) = e /\ SubSeq(b, Len(e) + 1, Len(b)) = r
    BY <1>2, <1>3, PieceOfConcat
  <1>9. FramesNext(b) = r /\ DecodeFrame(SubSeq(b, 1, FrameSize(b))) = <<f>>
    BY <1>1, <1>6, <1>7, <1>8, DecodeIsInverse DEF FramesNext
  <1>10. CutFrames[b] = FramesStep(b, CutFrames[r])
    BY <1>4, <1>7, <1>9, CutFramesUnfolds
  <1>11. <<f>> # <<>> /\ CutFrames[r] \in Cuts
    BY CutFramesUnfolds
  <1>12. PICK one, more : one = <<f>> /\ more = CutFrames[r]
    OBVIOUS
  <1>13. CutFrames[b] = [frames |-> one \o more.frames, rest |-> more.rest,
                         bad |-> more.bad \/ one = <<>>]
    BY <1>6, <1>9, <1>10, <1>12 DEF FramesStep
  <1>14. more \in Cuts /\ one # <<>>
    BY <1>11, <1>12
  <1>15. (more.bad \/ one = <<>>) = more.bad
    BY <1>14 DEF Cuts
  <1>16. IsThen(CutFrames[b], f, more)
    BY <1>12, <1>13, <1>15 DEF IsThen
  <1>17. QED
    BY <1>1, <1>3, <1>12, <1>16

\* The bytes of the length that are there are those that were encoded.
LEMMA LengthBytes ==
    ASSUME NEW f \in FramesOf("broker"), NEW b \in Seq(Nat), Agree(b, EncodePacket(f))
    PROVE  LET v == EncodeVariableLength(Len(f.payload))
           IN  /\ v \in Seq(Nat) /\ Len(v) \in 1 .. 4
               /\ \A i \in 1 .. Len(v) : v[i] < Radix <=> i = Len(v)
               /\ \A i \in 1 .. Len(v) : 1 + i <= Len(b) => b[1 + i] = v[i]
  <1> DEFINE n == Len(f.payload)
             v == EncodeVariableLength(n)
  <1>1. n \in Nat /\ n < Radix * Radix * Radix * Radix
    BY PayloadType DEF FramesOf, Kinds
  <1>2. /\ v \in Seq(Nat) /\ Len(v) \in 1 .. 4
        /\ \A i \in 1 .. Len(v) : v[i] < Radix <=> i = Len(v)
    <2> HIDE DEF n
    <2>1. QED
      BY <1>1, VariableLength
  <1>3. PICK e : e = EncodePacket(f)
    OBVIOUS
  <1>4. Len(e) = 1 + Len(v) + n /\ \A i \in 1 .. Len(v) : e[1 + i] = v[i]
    BY <1>3, PacketBytes
  <1> HIDE DEF n, v
  <1>5. ASSUME NEW i \in 1 .. Len(v), 1 + i <= Len(b) PROVE b[1 + i] = v[i]
    <2>1. 1 + i \in 1 .. Len(e)
      BY <1>1, <1>2, <1>4
    <2>2. b[1 + i] = e[1 + i]
      BY <1>3, <1>5, <2>1 DEF Agree
    <2>3. QED
      BY <1>4, <2>2
  <1>6. QED
    BY <1>2, <1>5 DEF n, v

LEMMA LengthIsRead ==
    ASSUME NEW f \in FramesOf("broker"), NEW b \in Seq(Nat), Agree(b, EncodePacket(f)),
           1 + Len(EncodeVariableLength(Len(f.payload))) <= Len(b)
    PROVE  /\ LengthSizes(b) # {}
           /\ Min(LengthSizes(b)) = Len(EncodeVariableLength(Len(f.payload)))
           /\ PacketSize(b) = Len(EncodePacket(f))
  <1> DEFINE n == Len(f.payload)
  <1>1. PICK v : v = EncodeVariableLength(n)
    OBVIOUS
  <1>2. /\ v \in Seq(Nat) /\ Len(v) \in 1 .. 4
        /\ \A i \in 1 .. Len(v) : v[i] < Radix <=> i = Len(v)
        /\ \A i \in 1 .. Len(v) : 1 + i <= Len(b) => b[1 + i] = v[i]
    BY <1>1, LengthBytes
  <1>3. PICK s \in 1 .. 4 : s = Len(v)
    BY <1>2
  <1>4. 1 + s <= Len(b) /\ Len(b) \in Nat
    BY <1>1, <1>3
  <1>5. \A i \in 1 .. s : b[1 + i] = v[i]
    BY <1>2, <1>3, <1>4
  <1>6. s \in LengthSizes(b) /\ \A i \in LengthSizes(b) : s <= i
    <2>1. s \in LengthSizes(b)
      <3>1. s \in 1 .. s /\ s \in 1 .. Len(v)
        BY <1>3
      <3>2. v[s] < Radix /\ b[1 + s] = v[s]
        BY <1>2, <1>3, <1>5, <3>1
      <3>3. QED
        BY <1>4, <3>2 DEF LengthSizes
    <2>2. ASSUME NEW i \in LengthSizes(b), i < s PROVE FALSE
      <3>1. i \in 1 .. s /\ b[1 + i] < Radix
        BY <2>2 DEF LengthSizes
      <3>2. v[i] < Radix
        BY <1>5, <3>1
      <3>3. QED
        BY <1>2, <1>3, <2>2, <3>1, <3>2
    <2>3. \A i \in LengthSizes(b) : i \in 1 .. 4
      BY DEF LengthSizes
    <2>4. QED
      BY <2>1, <2>2, <2>3
  <1>7. Min(LengthSizes(b)) = s
    <2>1. LengthSizes(b) # {}
      BY <1>6
    <2>2. PICK m \in 1 .. 4 : /\ m = Min(LengthSizes(b)) /\ m \in LengthSizes(b)
                              /\ \A i \in LengthSizes(b) : m <= i
      BY <2>1, LengthSizeType
    <2>3. m <= s /\ s <= m
      BY <1>6, <2>2
    <2>4. QED
      BY <2>2, <2>3
  <1> DEFINE digit(i) == IF i <= s THEN b[1 + i] % Radix ELSE 0
             given(i) == IF i <= s THEN v[i] % Radix ELSE 0
  <1>8. DecodeVariableLength(b) = ValueOf(digit(1), digit(2), digit(3), digit(4))
    BY <1>7 DEF DecodeVariableLength, ValueOf
  <1>9. n \in Nat /\ n = ValueOf(given(1), given(2), given(3), given(4))
    <2>1. n \in Nat /\ n < Radix * Radix * Radix * Radix
      BY PayloadType DEF FramesOf, Kinds
    <2> HIDE DEF n
    <2>2. n = LET d(i) == IF i <= Len(v) THEN v[i] % Radix ELSE 0
              IN  ValueOf(d(1), d(2), d(3), d(4))
      BY <1>1, <2>1, VariableLength
    <2>3. QED
      BY <1>3, <2>1, <2>2
  <1>10. \A i \in 1 .. 4 : digit(i) = given(i)
    BY <1>5
  <1>11. DecodeVariableLength(b) = n
    <2>1. digit(1) = given(1) /\ digit(2) = given(2) /\ digit(3) = given(3) /\ digit(4) = given(4)
      BY <1>10
    <2> HIDE DEF digit, given
    <2>2. QED
      BY <1>8, <1>9, <2>1
  <1>12. Len(EncodePacket(f)) = 1 + s + n
    BY <1>1, <1>3, PacketBytes
  <1>13. QED
    BY <1>1, <1>3, <1>6, <1>7, <1>11, <1>12 DEF PacketSize

LEMMA PacketWaits ==
    ASSUME NEW f \in FramesOf("broker"), NEW b \in Seq(Nat),
           Agree(b, EncodePacket(f)), Len(b) < Len(EncodePacket(f))
    PROVE  CutPackets[b] = Nothing(b)
  <1>1. PICK v : v = EncodeVariableLength(Len(f.payload))
    OBVIOUS
  <1>2. /\ v \in Seq(Nat) /\ Len(v) \in 1 .. 4
        /\ \A i \in 1 .. Len(v) : v[i] < Radix <=> i = Len(v)
        /\ \A i \in 1 .. Len(v) : 1 + i <= Len(b) => b[1 + i] = v[i]
    BY <1>1, LengthBytes
  <1>3. Len(b) \in Nat
    OBVIOUS
  <1>4. b \in PacketsStop /\ PacketsBase(b) = Nothing(b)
    <2>1. CASE 1 + Len(v) <= Len(b)
      <3>1. LengthSizes(b) # {} /\ PacketSize(b) = Len(EncodePacket(f))
        BY <1>1, <2>1, LengthIsRead
      <3>2. QED
        BY <3>1 DEF PacketsStop, PacketsBase, Nothing
    <2>2. CASE ~(1 + Len(v) <= Len(b))
      <3>1. ASSUME NEW i \in LengthSizes(b) PROVE FALSE
        <4>1. i \in 1 .. 4 /\ 1 + i <= Len(b) /\ b[1 + i] < Radix
          BY DEF LengthSizes
        <4>2. i \in 1 .. Len(v) /\ i # Len(v)
          BY <1>2, <1>3, <2>2, <4>1
        <4>3. QED
          BY <1>2, <4>1, <4>2
      <3>2. LengthSizes(b) = {}
        BY <3>1
      <3>3. PICK m \in 1 .. 4, size \in Nat : m = Len(v) /\ size = Len(b)
        BY <1>2, <1>3
      <3>4. size <= 4
        <4>1. ~(1 + m <= size)
          BY <2>2, <3>3
        <4>2. QED
          BY <4>1
      <3>5. Corrupted(b) = FALSE
        BY <3>3, <3>4 DEF Corrupted
      <3>6. QED
        BY <3>2, <3>5 DEF PacketsStop, PacketsBase, Nothing
    <2>3. QED
      BY <2>1, <2>2
  <1>5. QED
    BY <1>4, CutPacketsUnfolds

LEMMA PacketIsCut ==
    ASSUME NEW f \in FramesOf("broker"), NEW r \in Seq(Nat)
    PROVE  IsThen(CutPackets[EncodePacket(f) \o r], f, CutPackets[r])
  <1> DEFINE n == Len(f.payload)
  <1>1. PICK e, v : e = EncodePacket(f) /\ v = EncodeVariableLength(n)
    OBVIOUS
  <1>2. /\ e \in Seq(Nat) /\ Len(e) = 1 + Len(v) + n /\ n \in Nat
        /\ e[1] = f.type
        /\ \A i \in 1 .. n : e[1 + Len(v) + i] = f.payload[i]
    BY <1>1, PacketBytes
  <1>3. PICK s \in 1 .. 4 : s = Len(v)
    <2>1. Agree(e, e)
      BY DEF Agree
    <2>2. Len(v) \in 1 .. 4
      BY <1>1, <1>2, <2>1, LengthBytes
    <2>3. QED
      BY <2>2
  <1>4. PICK b : b = e \o r
    OBVIOUS
  <1>5. /\ b \in Seq(Nat) /\ Len(b) = Len(e) + Len(r) /\ Len(r) \in Nat
        /\ \A i \in 1 .. Len(e) : b[i] = e[i]
    BY <1>2, <1>4, Concat
  <1> HIDE DEF n
  <1>6. Agree(b, e) /\ 1 + s <= Len(b) /\ Len(b) \in Nat
    BY <1>2, <1>3, <1>5 DEF Agree
  <1>7. LengthSizes(b) # {} /\ Min(LengthSizes(b)) = s /\ PacketSize(b) = Len(e)
    BY <1>1, <1>3, <1>5, <1>6, LengthIsRead DEF n
  <1>8. b \notin PacketsStop
    BY <1>2, <1>3, <1>5, <1>7 DEF PacketsStop
  <1>9. PacketsNext(b) = r
    <2>1. SubSeq(b, Len(e) + 1, Len(b)) = r
      BY <1>2, <1>4, PieceOfConcat
    <2>2. QED
      BY <1>7, <1>8, <2>1 DEF PacketsNext
  <1>10. b[1] = f.type
    <2>1. 1 \in 1 .. Len(e)
      BY <1>2, <1>3
    <2>2. QED
      BY <1>2, <1>5, <2>1
  <1>11. SubSeq(b, s + 2, PacketSize(b)) = f.payload
    <2>1. PICK first \in Nat, last \in Nat : first = s + 2 /\ last = Len(e)
      BY <1>2
    <2>2. last = 1 + s + n /\ last <= Len(b)
      BY <1>2, <1>3, <1>5, <2>1
    <2>3. first \in 1 .. Len(b) + 1 /\ last \in first - 1 .. Len(b) /\ last - first + 1 = n
      BY <1>2, <1>3, <1>6, <2>1, <2>2
    <2>4. PICK p : p = SubSeq(b, first, last)
      OBVIOUS
    <2>5. /\ p \in Seq(Nat) /\ Len(p) = last - first + 1
          /\ \A i \in 1 .. last - first + 1 : p[i] = b[first + i - 1]
      BY <1>5, <2>3, <2>4, Piece
    <2>6. ASSUME NEW i \in 1 .. n PROVE p[i] = f.payload[i]
      <3>1. first + i - 1 = 1 + s + i /\ 1 + s + i \in 1 .. Len(e) /\ i \in 1 .. last - first + 1
        BY <1>2, <1>3, <2>1, <2>3
      <3>2. p[i] = e[1 + s + i]
        BY <1>5, <2>5, <3>1
      <3>3. QED
        BY <1>2, <1>3, <3>2
    <2>7. f.payload \in Seq(Nat) /\ Len(f.payload) = n
      BY PayloadType DEF FramesOf, Kinds, n
    <2>8. p = f.payload
      BY <2>3, <2>5, <2>6, <2>7, SeqEqual
    <2>9. QED
      BY <1>7, <2>1, <2>4, <2>8
  <1>12. CutPackets[b] = PacketsStep(b, CutPackets[r])
    BY <1>5, <1>8, <1>9, CutPacketsUnfolds
  <1>13. f = [type |-> f.type, payload |-> f.payload]
    BY DEF FramesOf
  <1>14. PICK more \in Cuts : more = CutPackets[r]
    BY CutPacketsUnfolds
  <1>15. CutPackets[b] = [more EXCEPT !.frames = <<f>> \o @]
    BY <1>7, <1>10, <1>11, <1>12, <1>13, <1>14 DEF PacketsStep
  <1>16. PICK all : all = <<f>> \o more.frames
    OBVIOUS
  <1>17. CutPackets[b].frames = all /\ CutPackets[b].rest = more.rest
         /\ CutPackets[b].bad = more.bad
    BY <1>15, <1>16 DEF Cuts
  <1>18. QED
    BY <1>1, <1>4, <1>14, <1>16, <1>17 DEF IsThen

-----------------------------------------------------------------------------
(* Streams of frames.                                                      *)

\* s is what frames fs of a stream of kind k are encoded to: after[i] follows
\* frame i.
Encodes(k, s, fs) ==
    \E after \in [0 .. Len(fs) -> Seq(Nat)] :
        /\ after[0] = s /\ after[Len(fs)] = <<>>
        /\ \A i \in 1 .. Len(fs) : after[i - 1] = EncodingOf(k, fs[i]) \o after[i]

LEMMA NoFrames ==
    ASSUME NEW k
    PROVE  Encodes(k, <<>>, <<>>) /\ \A s : Encodes(k, s, <<>>) => s = <<>>
  <1>1. <<>> \in Seq(Nat) /\ Len(<<>>) = 0
    BY EmptySeq
  <1>2. Encodes(k, <<>>, <<>>)
    <2> DEFINE after == [i \in 0 .. Len(<<>>) |-> <<>>]
    <2>1. after \in [0 .. Len(<<>>) -> Seq(Nat)] /\ after[0] = <<>> /\ after[Len(<<>>)] = <<>>
      BY <1>1
    <2>2. \A i \in 1 .. Len(<<>>) : FALSE
      BY <1>1
    <2> HIDE DEF after
    <2>3. QED
      BY <2>1, <2>2 DEF Encodes
  <1>3. \A s : Encodes(k, s, <<>>) => s = <<>>
    BY <1>1 DEF Encodes
  <1>4. QED
    BY <1>2, <1>3

Associate(s, t, u) == (s \o t) \o u = s \o (t \o u)

LEMMA Associativity ==
    ASSUME NEW S, NEW s \in Seq(S), NEW t \in Seq(S), NEW u \in Seq(S)
    PROVE  Associate(s, t, u)
  BY ConcatAssociative DEF Associate

LEMMA FirstOfMany ==
    ASSUME NEW S, NEW f \in S, NEW s \in Seq(S), NEW t \in Seq(S)
    PROVE  /\ <<f>> \o s \in Seq(S)
           /\ (<<f>> \o s) \o t = <<f>> \o (s \o t)
  <1>1. PICK one \in Seq(S) : one = <<f>>
    <2>1. <<f>> \in Seq(S)
      OBVIOUS
    <2>2. QED
      BY <2>1
  <1>2. one \o s \in Seq(S)
    BY ConcatProperties
  <1>3. Associate(one, s, t)
    BY Associativity
  <1>4. QED
    BY <1>1, <1>2, <1>3 DEF Associate

\* A frame that is accepted is encoded at the end.
LEMMA OneMore ==
    ASSUME NEW k \in Kinds, NEW fs \in Seq(FramesOf(k)), NEW f \in FramesOf(k),
           NEW s \in Seq(Nat), Encodes(k, s, fs)
    PROVE  Encodes(k, s \o EncodingOf(k, f), Append(fs, f))
  <1>1. PICK e \in Seq(Nat) : e = EncodingOf(k, f)
    BY EncodingType
  <1>2. PICK n \in Nat : n = Len(fs)
    OBVIOUS
  <1>3. PICK after \in [0 .. n -> Seq(Nat)] :
            /\ after[0] = s /\ after[n] = <<>>
            /\ \A i \in 1 .. n : after[i - 1] = EncodingOf(k, fs[i]) \o after[i]
    BY <1>2 DEF Encodes
  <1>4. PICK gs : gs = Append(fs, f)
    OBVIOUS
  <1>5. Len(gs) = n + 1 /\ (\A i \in 1 .. n : gs[i] = fs[i]) /\ gs[n + 1] = f
    BY <1>2, <1>4, AppendProperties
  <1>6. <<>> \in Seq(Nat)
    BY EmptySeq
  <1> DEFINE new == [i \in 0 .. n + 1 |-> IF i <= n THEN after[i] \o e ELSE <<>>]
  <1>7. new \in [0 .. n + 1 -> Seq(Nat)]
    <2>1. ASSUME NEW i \in 0 .. n + 1 PROVE new[i] \in Seq(Nat)
      <3>1. CASE i <= n
        <4>1. after[i] \in Seq(Nat)
          BY <3>1
        <4>2. after[i] \o e \in Seq(Nat)
          BY <4>1, ConcatProperties
        <4>3. QED
          BY <3>1, <4>2
      <3>2. CASE ~(i <= n)
        BY <1>6, <3>2
      <3>3. QED
        BY <3>1, <3>2
    <2>2. QED
      BY <2>1
  <1>8. /\ \A i \in 0 .. n : new[i] = after[i] \o e
        /\ new[n + 1] = <<>>
    OBVIOUS
  <1> HIDE DEF new
  <1>9. new[0] = s \o e
    <2>1. 0 \in 0 .. n
      OBVIOUS
    <2>2. new[0] = after[0] \o e
      BY <1>8, <2>1
    <2>3. QED
      BY <1>3, <2>2
  <1>10. ASSUME NEW i \in 1 .. n + 1
         PROVE  new[i - 1] = EncodingOf(k, gs[i]) \o new[i]
    <2>1. CASE i = n + 1
      <3>1. new[n] = e
        <4>1. n \in 0 .. n /\ <<>> \o e = e
          BY ConcatEmptySeq
        <4>2. QED
          BY <1>3, <1>8, <4>1
      <3>2. e \o <<>> = e
        BY ConcatEmptySeq
      <3>3. i - 1 = n
        BY <2>1
      <3>4. QED
        BY <1>1, <1>5, <1>8, <2>1, <3>1, <3>2, <3>3
    <2>2. CASE i # n + 1
      <3>1. i \in 1 .. n /\ i \in 0 .. n /\ i - 1 \in 0 .. n
        BY <2>2
      <3>2. after[i - 1] = EncodingOf(k, fs[i]) \o after[i] /\ after[i] \in Seq(Nat)
        BY <1>3, <3>1
      <3>3. PICK g \in Seq(Nat) : g = EncodingOf(k, fs[i])
        <4>1. fs[i] \in FramesOf(k)
          BY <1>2, <3>1, ElementOfSeq
        <4>2. QED
          BY <4>1, EncodingType
      <3>4. (g \o after[i]) \o e = g \o (after[i] \o e)
        <4>1. PICK a \in Seq(Nat) : a = after[i]
          BY <3>2
        <4>2. Associate(g, a, e)
          BY Associativity
        <4>3. QED
          BY <4>1, <4>2 DEF Associate
      <3>5. QED
        BY <1>5, <1>8, <3>1, <3>2, <3>3, <3>4
    <2>3. QED
      BY <2>1, <2>2
  <1>11. \E a \in [0 .. Len(gs) -> Seq(Nat)] :
            /\ a[0] = s \o e /\ a[Len(gs)] = <<>>
            /\ \A i \in 1 .. Len(gs) : a[i - 1] = EncodingOf(k, gs[i]) \o a[i]
    BY <1>5, <1>7, <1>8, <1>9, <1>10
  <1>12. QED
    BY <1>1, <1>4, <1>11 DEF Encodes

\* The stream of some frames starts with the first of them.
LEMMA FirstFrame ==
    ASSUME NEW k \in Kinds, NEW fs \in Seq(FramesOf(k)), fs # <<>>,
           NEW s \in Seq(Nat), Encodes(k, s, fs)
    PROVE  \E f \in FramesOf(k), gs \in Seq(FramesOf(k)), t \in Seq(Nat) :
              /\ fs = <<f>> \o gs /\ s = EncodingOf(k, f) \o t
              /\ Encodes(k, t, gs)
  <1>1. PICK n \in Nat : Len(fs) = n + 1
    <2>1. Len(fs) \in Nat \ {0}
      BY EmptySeq
    <2>2. Len(fs) - 1 \in Nat /\ Len(fs) = (Len(fs) - 1) + 1
      BY <2>1
    <2>3. QED
      BY <2>2
  <1>2. PICK after \in [0 .. n + 1 -> Seq(Nat)] :
            /\ after[0] = s /\ after[n + 1] = <<>>
            /\ \A i \in 1 .. n + 1 : after[i - 1] = EncodingOf(k, fs[i]) \o after[i]
    BY <1>1 DEF Encodes
  <1> DEFINE f == fs[1]
             gs == SubSeq(fs, 2, n + 1)
             t == after[1]
  <1>3. f \in FramesOf(k) /\ t \in Seq(Nat) /\ s = EncodingOf(k, f) \o t
    <2>1. 1 \in 1 .. Len(fs) /\ 1 \in 1 .. n + 1 /\ 1 \in 0 .. n + 1 /\ 1 - 1 = 0
      BY <1>1
    <2>2. after[1 - 1] = EncodingOf(k, fs[1]) \o after[1]
      BY <1>2, <2>1
    <2>3. QED
      BY <1>2, <2>1, <2>2, ElementOfSeq
  <1>4. fs = <<f>> \o gs
    <2>1. 1 \in 1 .. Len(fs) /\ n + 1 \in 1 .. Len(fs) /\ 1 + 1 = 2
      BY <1>1
    <2>2. SubSeq(fs, 1, n + 1) = <<fs[1]>> \o SubSeq(fs, 1 + 1, n + 1)
      BY <2>1, SubSeqRecursiveFirst
    <2>3. SubSeq(fs, 1, n + 1) = fs
      BY <1>1, SubSeqFull
    <2>4. QED
      BY <2>1, <2>2, <2>3
  <1>5. /\ gs \in Seq(FramesOf(k)) /\ Len(gs) = n
        /\ \A i \in 1 .. n : gs[i] = fs[i + 1]
    <2>1. PICK first \in Nat, last \in Nat : first = 2 /\ last = n + 1
      OBVIOUS
    <2>2. first \in 1 .. Len(fs) + 1 /\ last \in first - 1 .. Len(fs) /\ last - first + 1 = n
      BY <1>1, <2>1
    <2>3. PICK p : p = SubSeq(fs, first, last)
      OBVIOUS
    <2>4. /\ p \in Seq(FramesOf(k)) /\ Len(p) = last - first + 1
          /\ \A i \in 1 .. last - first + 1 : p[i] = fs[first + i - 1]
      BY <2>2, <2>3, Piece
    <2>5. \A i \in 1 .. n : first + i - 1 = i + 1
      BY <2>1
    <2>6. QED
      BY <2>1, <2>2, <2>3, <2>4, <2>5
  <1> HIDE DEF gs
  <1> DEFINE rest == [i \in 0 .. n |-> after[i + 1]]
  <1>6. rest \in [0 .. n -> Seq(Nat)] /\ rest[0] = t /\ rest[n] = <<>>
    BY <1>2
  <1>7. ASSUME NEW i \in 1 .. n PROVE rest[i - 1] = EncodingOf(k, gs[i]) \o rest[i]
    <2>1. PICK j \in 1 .. n + 1 : j = i + 1
      OBVIOUS
    <2>2. after[j - 1] = EncodingOf(k, fs[j]) \o after[j]
      BY <1>2
    <2>3. j - 1 = i /\ i \in 0 .. n /\ i - 1 \in 0 .. n /\ i - 1 + 1 = i
      BY <2>1
    <2>4. rest[i - 1] = after[i] /\ rest[i] = after[j] /\ gs[i] = fs[j]
      BY <1>5, <2>1, <2>3
    <2>5. QED
      BY <2>2, <2>3, <2>4
  <1> HIDE DEF rest, t
  <1>8. \E a \in [0 .. Len(gs) -> Seq(Nat)] :
            /\ a[0] = t /\ a[Len(gs)] = <<>>
            /\ \A i \in 1 .. Len(gs) : a[i - 1] = EncodingOf(k, gs[i]) \o a[i]
    BY <1>5, <1>6, <1>7
  <1>9. Encodes(k, t, gs)
    BY <1>8 DEF Encodes
  <1>10. QED
    BY <1>3, <1>4, <1>5, <1>9

\* What is cut of a stream of frames are its first frames, as many as are
\* whole, and what stays continues the stream.
CutsWell(k, b, u, fs) ==
    \E got, left \in Seq(FramesOf(k)) :
        /\ fs = got \o left
        /\ CutOf(k, b).frames = got
        /\ CutOf(k, b).bad = FALSE
        /\ Encodes(k, CutOf(k, b).rest \o u, left)

LEMMA OneIsCut ==
    ASSUME NEW k \in Kinds, NEW f \in FramesOf(k)
    PROVE  /\ \A b \in Seq(Nat) :
                 Agree(b, EncodingOf(k, f)) /\ Len(b) < Len(EncodingOf(k, f))
                     => CutOf(k, b) = Nothing(b)
           /\ \A r \in Seq(Nat) :
                 IsThen(CutOf(k, EncodingOf(k, f) \o r), f, CutOf(k, r))
  <1>1. CASE k = "broker"
    BY <1>1, PacketWaits, PacketIsCut DEF CutOf, EncodingOf
  <1>2. CASE k # "broker"
    <2>1. k \in {"up", "down"}
      BY <1>2 DEF Kinds
    <2>2. QED
      BY <1>2, <2>1, FrameWaits, FrameIsCut DEF CutOf, EncodingOf
  <1>3. QED
    BY <1>1, <1>2

LEMMA NothingIsCut ==
    ASSUME NEW k \in Kinds, NEW b \in Seq(Nat), NEW u \in Seq(Nat),
           NEW fs \in Seq(FramesOf(k)), Encodes(k, b \o u, fs), CutOf(k, b) = Nothing(b)
    PROVE  CutsWell(k, b, u, fs)
  <1>1. <<>> \in Seq(FramesOf(k)) /\ fs = <<>> \o fs
    BY EmptySeq, ConcatEmptySeq
  <1>2. CutOf(k, b).frames = <<>> /\ CutOf(k, b).bad = FALSE /\ CutOf(k, b).rest = b
    BY DEF Nothing
  <1>3. QED
    BY <1>1, <1>2 DEF CutsWell

LEMMA EmptyIsCut == ASSUME NEW k \in Kinds PROVE CutOf(k, <<>>) = Nothing(<<>>)
  <1>1. <<>> \in Seq(Nat) /\ Len(<<>>) = 0
    BY EmptySeq
  <1>2. PICK b \in Seq(Nat) : b = <<>> /\ Len(b) = 0
    BY <1>1
  <1>3. CutFrames[b] = Nothing(b)
    <2>1. b \in FramesStop /\ FramesBase(b) = Nothing(b)
      BY <1>2, HeaderIsFour DEF FramesStop, FramesBase, Nothing
    <2>2. QED
      BY <2>1, CutFramesUnfolds
  <1>4. CutPackets[b] = Nothing(b)
    <2>1. LengthSizes(b) = {}
      BY <1>2 DEF LengthSizes
    <2>2. Corrupted(b) = FALSE
      BY <1>2 DEF Corrupted
    <2>3. b \in PacketsStop /\ PacketsBase(b) = Nothing(b)
      BY <2>1, <2>2 DEF PacketsStop, PacketsBase, Nothing
    <2>4. QED
      BY <2>3, CutPacketsUnfolds
  <1>5. QED
    BY <1>2, <1>3, <1>4 DEF CutOf

LEMMA StreamIsCutFrom ==
    ASSUME NEW k \in Kinds, NEW b \in Seq(Nat), NEW u \in Seq(Nat),
           NEW fs \in Seq(FramesOf(k)), Encodes(k, b \o u, fs),
           \A r \in Seq(Nat) : Len(r) < Len(b) =>
               \A gs \in Seq(FramesOf(k)) : Encodes(k, r \o u, gs) => CutsWell(k, r, u, gs)
    PROVE  CutsWell(k, b, u, fs)
  <1>1. CASE fs = <<>>
    <2>1. b \o u = <<>>
      BY <1>1, NoFrames
    <2>2. b = <<>>
      BY <2>1, ConcatEqualIffEmpty
    <2>3. CutOf(k, b) = Nothing(b)
      BY <2>2, EmptyIsCut
    <2>4. QED
      BY <2>3, NothingIsCut
  <1>2. CASE fs # <<>>
    <2>1. b \o u \in Seq(Nat)
      BY ConcatProperties
    <2>2. PICK f \in FramesOf(k), gs \in Seq(FramesOf(k)), t \in Seq(Nat) :
              /\ fs = <<f>> \o gs /\ b \o u = EncodingOf(k, f) \o t
              /\ Encodes(k, t, gs)
      BY <1>2, <2>1, FirstFrame
    <2>3. PICK e \in Seq(Nat) : e = EncodingOf(k, f)
      BY EncodingType
    <2>4. Len(e) \in Nat \ {0} /\ Len(b) \in Nat /\ b \o u = e \o t
      BY <2>2, <2>3, EncodingType
    <2>5. CASE Len(b) < Len(e)
      <3>1. Agree(b, e)
        BY <2>4, PartsAgree
      <3>2. CutOf(k, b) = Nothing(b)
        BY <2>3, <2>5, <3>1, OneIsCut
      <3>3. QED
        BY <3>2, NothingIsCut
    <2>6. CASE ~(Len(b) < Len(e))
      <3>1. Len(e) <= Len(b)
        BY <2>4, <2>6
      <3>2. PICK r \in Seq(Nat) : b = e \o r /\ t = r \o u
        <4>1. Longer(b, u, e, t)
          BY <2>4, <3>1 DEF Longer
        <4>2. Divided(Nat, b, u, e, t)
          BY <4>1, LongerPart
        <4>3. QED
          BY <4>2 DEF Divided
      <3>3. Len(r) < Len(b)
        <4>1. Len(b) = Len(e) + Len(r) /\ Len(r) \in Nat
          BY <3>2, Concat
        <4>2. QED
          BY <2>4, <4>1
      <3>4. CutsWell(k, r, u, gs)
        BY <2>2, <3>2, <3>3
      <3>5. PICK got \in Seq(FramesOf(k)), left \in Seq(FramesOf(k)) :
                /\ gs = got \o left
                /\ CutOf(k, r).frames = got
                /\ CutOf(k, r).bad = FALSE
                /\ Encodes(k, CutOf(k, r).rest \o u, left)
        BY <3>4 DEF CutsWell
      <3>6. /\ CutOf(k, b).frames = <<f>> \o got /\ CutOf(k, b).bad = FALSE
            /\ CutOf(k, b).rest = CutOf(k, r).rest
        BY <2>3, <3>2, <3>5, OneIsCut DEF IsThen
      <3>7. PICK all \in Seq(FramesOf(k)) : all = <<f>> \o got /\ fs = all \o left
        <4>1. <<f>> \o got \in Seq(FramesOf(k)) /\ (<<f>> \o got) \o left = <<f>> \o (got \o left)
          BY FirstOfMany
        <4>2. QED
          BY <2>2, <3>5, <4>1
      <3>8. QED
        BY <3>5, <3>6, <3>7 DEF CutsWell
    <2>7. QED
      BY <2>5, <2>6
  <1>3. QED
    BY <1>1, <1>2

LEMMA StreamIsCut ==
    ASSUME NEW k \in Kinds, NEW u \in Seq(Nat)
    PROVE  \A b \in Seq(Nat) : \A fs \in Seq(FramesOf(k)) :
              Encodes(k, b \o u, fs) => CutsWell(k, b, u, fs)
  <1> DEFINE Good(b) == \A fs \in Seq(FramesOf(k)) :
                            Encodes(k, b \o u, fs) => CutsWell(k, b, u, fs)
             T == {b \in Seq(Nat) : ~Good(b)}
             size == [b \in Seq(Nat) |-> Len(b)]
  <1>1. ASSUME NEW b \in Seq(Nat), \A r \in Seq(Nat) : Len(r) < Len(b) => Good(r)
        PROVE  Good(b)
    BY <1>1, StreamIsCutFrom
  <1> HIDE DEF Good
  <1>2. T = {}
    <2>1. SUFFICES ASSUME T # {} PROVE FALSE
      OBVIOUS
    <2>2. \A b \in T : size[b] \in Nat
      OBVIOUS
    <2>3. PICK b \in T : \A d \in T : size[b] <= size[d]
      <3> HIDE DEF T, size
      <3>1. QED
        BY <2>1, <2>2, Smallest
    <2>4. \A r \in Seq(Nat) : Len(r) < Len(b) => Good(r)
      BY <2>3
    <2>5. QED
      BY <1>1, <2>4
  <1>3. \A b \in Seq(Nat) : Good(b)
    BY <1>2
  <1>4. QED
    BY <1>3 DEF Good

-----------------------------------------------------------------------------
(* The inductive invariant.                                                *)

StreamTypes ==
    /\ kind \in Kinds
    /\ sent \in Seq(FramesOf(kind)) /\ received \in Seq(AnyFrame)
    /\ queue \in Seq(Nat) /\ wire \in Seq(Nat) /\ buffer \in Seq(Nat)
    /\ sender \in BOOLEAN /\ reported \in BOOLEAN
    /\ receiver \in {"up", "gone", "aborted"}
    /\ damage \in 0 .. MaxDamage

\* Only a client socket has a queue.
Bounds ==
    /\ m_queuedBytes = Len(queue) /\ m_queuedBytes <= MaxQueue
    /\ kind # "up" => queue = <<>>
    /\ kind # "broker" => Len(buffer) < HeaderSize + MaxPayload + 1

Stream == buffer \o (wire \o queue)

\* While nothing is damaged, the bytes that are still under way, and those
\* that were lost in the queue of a sender that is gone, encode the frames
\* that were sent and not yet received.
Remaining ==
    \E left \in Seq(FramesOf(kind)) :
        /\ sent = received \o left
        /\ receiver = "up" =>
              \E lost \in Seq(Nat) : /\ sender => lost = <<>>
                                     /\ Encodes(kind, Stream \o lost, left)

Faithful ==
    damage = 0 => ~reported /\ received \in Seq(FramesOf(kind)) /\ Remaining

StreamInv == StreamTypes /\ Bounds /\ Faithful

LEMMA InitStreamInv == Init => StreamInv
  <1>1. ASSUME Init PROVE StreamInv
    <2>1. Len(<<>>) = 0 /\ (\A S : <<>> \in Seq(S))
      BY EmptySeq
    <2>2. StreamTypes
      <3>1. sent \in Seq(FramesOf(kind)) /\ received \in Seq(AnyFrame)
            /\ queue \in Seq(Nat) /\ wire \in Seq(Nat) /\ buffer \in Seq(Nat)
        BY <1>1, EmptySeq DEF Init
      <3>2. damage \in 0 .. MaxDamage
        BY <1>1, StreamAssumption DEF Init
      <3>3. QED
        BY <1>1, <3>1, <3>2 DEF Init, StreamTypes
    <2>3. Bounds
      BY <1>1, <2>1, HeaderIsFour, StreamAssumption DEF Init, Bounds
    <2>4. Faithful
      <3>1. sent = received \o sent
        BY <1>1, <2>1, ConcatEmptySeq DEF Init
      <3>2. sent \in Seq(FramesOf(kind)) /\ received \in Seq(FramesOf(kind))
        BY <1>1, <2>1 DEF Init
      <3>3. QED
        BY <1>1, <3>1, <3>2 DEF Init, Faithful, Remaining
    <2>5. QED
      BY <2>2, <2>3, <2>4 DEF StreamInv
  <1>2. QED
    BY <1>1

\* What flushWriteQueue takes from the queue is put on the wire, and counted.
LEMMA FlushKeeps ==
    ASSUME NEW q \in Seq(Nat), NEW count, count = Len(q), StreamTypes,
           FlushWriteQueue(q, count)
    PROVE  /\ queue' \in Seq(Nat) /\ wire' \in Seq(Nat)
           /\ m_queuedBytes' = Len(queue')
           /\ Len(queue') <= Len(q)
           /\ receiver = "up" => wire' \o queue' = wire \o q
  <1>1. wire \in Seq(Nat) /\ Len(wire) \in Nat /\ Len(q) \in Nat
    BY DEF StreamTypes
  <1> DEFINE room == IF Room > Len(wire) THEN Room - Len(wire) ELSE 0
  <1>2. room \in Nat
    BY <1>1, StreamAssumption
  <1> HIDE DEF room
  <1>3. PICK n \in 0 .. Len(q) : n = Min({Len(q), room})
    <2>1. Min({Len(q), room}) = IF Len(q) <= room THEN Len(q) ELSE room
      BY <1>1, <1>2, MinOfTwo
    <2>2. Min({Len(q), room}) \in 0 .. Len(q)
      BY <1>1, <1>2, <2>1
    <2>3. QED
      BY <2>2
  <1>4. /\ wire' = Written(SubSeq(q, 1, n)) /\ queue' = SubSeq(q, n + 1, Len(q))
        /\ m_queuedBytes' = count - n
    BY <1>3 DEF FlushWriteQueue, room
  <1>5. /\ n + 1 \in 1 .. Len(q) + 1 /\ Len(q) \in n + 1 - 1 .. Len(q)
        /\ 1 \in 1 .. Len(q) + 1 /\ n \in 1 - 1 .. Len(q) /\ Len(q) \in n .. Len(q)
    BY <1>1
  <1>6. PICK w, r : w = SubSeq(q, 1, n) /\ r = SubSeq(q, n + 1, Len(q))
    OBVIOUS
  <1>7. w \in Seq(Nat) /\ r \in Seq(Nat) /\ Len(r) = Len(q) - (n + 1) + 1
    BY <1>5, <1>6, Piece
  <1>8. w \o r = q
    <2>1. SubSeq(q, 1, n) \o SubSeq(q, n + 1, Len(q)) = SubSeq(q, 1, Len(q))
      BY <1>5, ConcatAdjacentSubSeq
    <2>2. SubSeq(q, 1, Len(q)) = q
      BY SubSeqFull
    <2>3. QED
      BY <1>6, <2>1, <2>2
  <1>9. queue' \in Seq(Nat) /\ m_queuedBytes' = Len(queue') /\ Len(queue') <= Len(q)
    BY <1>1, <1>4, <1>6, <1>7
  <1>10. wire' \in Seq(Nat)
    <2>1. wire \o w \in Seq(Nat) /\ <<>> \in Seq(Nat)
      BY <1>1, <1>7, ConcatProperties, EmptySeq
    <2>2. QED
      BY <1>4, <1>6, <2>1 DEF Written
  <1>11. receiver = "up" => wire' \o queue' = wire \o q
    <2>1. Associate(wire, w, r)
      BY <1>1, <1>7, Associativity
    <2>2. QED
      BY <1>4, <1>6, <1>8, <2>1 DEF Written, Associate
  <1>12. QED
    BY <1>9, <1>10, <1>11

LEMMA CutType ==
    ASSUME StreamTypes, NEW b \in Seq(Nat)
    PROVE  /\ Cut(b) \in Cuts
           /\ kind # "broker" => Len(Cut(b).rest) < HeaderSize + MaxPayload + 1
           /\ kind = "broker" \/ Len(b) <= MaxBuffer => Cut(b) = CutOf(kind, b)
  <1>1. /\ CutFrames[b] \in Cuts /\ CutPackets[b] \in Cuts
        /\ Len(CutFrames[b].rest) < HeaderSize + MaxPayload + 1
    BY CutFramesUnfolds, CutPacketsUnfolds, FramesLeaveLessThanOne
  <1>2. PICK none : none = [frames |-> <<>>, rest |-> <<>>, bad |-> TRUE]
    OBVIOUS
  <1>3. none \in Cuts /\ Len(none.rest) < HeaderSize + MaxPayload + 1
    <2>1. <<>> \in Seq(AnyFrame) /\ <<>> \in Seq(Nat) /\ Len(<<>>) = 0
      BY EmptySeq
    <2>2. 0 < HeaderSize + MaxPayload + 1
      BY HeaderIsFour, StreamAssumption
    <2>3. QED
      BY <1>2, <2>1, <2>2 DEF Cuts
  <1>4. CASE kind = "broker"
    BY <1>1, <1>4 DEF Cut, CutOf
  <1>5. CASE kind # "broker" /\ Len(b) > MaxBuffer
    <2>1. Cut(b) = none
      BY <1>2, <1>5 DEF Cut, ProcessStreamBuffer
    <2>2. ~(Len(b) <= MaxBuffer)
      BY <1>5, StreamAssumption
    <2>3. QED
      BY <1>3, <1>5, <2>1, <2>2
  <1>6. CASE kind # "broker" /\ ~(Len(b) > MaxBuffer)
    <2>1. Cut(b) = CutFrames[b]
      BY <1>6 DEF Cut, ProcessStreamBuffer
    <2>2. QED
      BY <1>1, <1>6, <2>1 DEF CutOf
  <1>7. QED
    BY <1>4, <1>5, <1>6

\* Bytes put at the end of the queue are put at the end of the stream.
Grows(b, w, q, e) ==
    /\ b \o (w \o (q \o e)) = (b \o (w \o q)) \o e
    /\ w \o q \in Seq(Nat) /\ b \o (w \o q) \in Seq(Nat) /\ q \o e \in Seq(Nat)

LEMMA StreamGrows ==
    ASSUME NEW b \in Seq(Nat), NEW w \in Seq(Nat), NEW q \in Seq(Nat), NEW e \in Seq(Nat)
    PROVE  Grows(b, w, q, e)
  <1>1. w \o q \in Seq(Nat) /\ q \o e \in Seq(Nat)
    BY ConcatProperties
  <1>2. PICK v \in Seq(Nat) : v = w \o q
    BY <1>1
  <1>3. Associate(w, q, e)
    BY Associativity
  <1>4. Associate(b, v, e)
    BY Associativity
  <1>5. b \o v \in Seq(Nat)
    BY ConcatProperties
  <1>6. QED
    BY <1>1, <1>2, <1>3, <1>4, <1>5 DEF Grows, Associate

LEMMA SendKeepsInv ==
    ASSUME StreamInv, NEW p \in Payloads[kind], SendFrame(p)
    PROVE  StreamInv'
  <1> USE DEF StreamInv
  <1>1. StreamTypes /\ Bounds /\ Faithful
    OBVIOUS
  <1>2. PICK f \in FramesOf(kind) : f = [type |-> Len(sent) + 1, payload |-> p]
    <2>1. Len(sent) \in Nat /\ Len(sent) < MaxFrames /\ MaxFrames \in Nat
      BY <1>1, StreamAssumption DEF StreamTypes, SendFrame
    <2>2. Len(sent) + 1 \in 1 .. MaxFrames
      BY <2>1
    <2>3. QED
      BY <2>2 DEF FramesOf
  <1>3. PICK e \in Seq(Nat) : e = Encode(f) /\ e = EncodingOf(kind, f) /\ Len(e) \in Nat
    BY <1>1, EncodingType DEF Encode, EncodingOf, StreamTypes
  <1>4. /\ sender /\ sent' = Append(sent, f)
        /\ IF kind = "up"
           THEN /\ m_queuedBytes + Len(e) <= MaxQueue
                /\ FlushWriteQueue(queue \o e, m_queuedBytes + Len(e))
           ELSE /\ wire' = Written(e)
                /\ UNCHANGED <<queue, m_queuedBytes>>
        /\ UNCHANGED <<kind, received, buffer, sender, receiver, reported, damage>>
    BY <1>2, <1>3 DEF SendFrame
  <1>5. /\ queue \in Seq(Nat) /\ wire \in Seq(Nat) /\ buffer \in Seq(Nat)
        /\ Len(queue) \in Nat /\ m_queuedBytes = Len(queue)
    BY <1>1 DEF StreamTypes, Bounds
  <1>6. PICK q : q = queue \o e
    OBVIOUS
  <1>7. q \in Seq(Nat) /\ Len(q) = Len(queue) + Len(e)
    BY <1>5, <1>6, Concat
  <1>8. /\ queue' \in Seq(Nat) /\ wire' \in Seq(Nat)
        /\ m_queuedBytes' = Len(queue') /\ m_queuedBytes' <= MaxQueue
        /\ kind # "up" => queue' = <<>>
        /\ receiver = "up" => wire' \o queue' = wire \o q
    <2>1. CASE kind = "up"
      <3>1. FlushWriteQueue(q, m_queuedBytes + Len(e)) /\ m_queuedBytes + Len(e) = Len(q)
            /\ Len(q) <= MaxQueue
        BY <1>4, <1>5, <1>6, <1>7, <2>1
      <3>2. /\ queue' \in Seq(Nat) /\ wire' \in Seq(Nat)
            /\ m_queuedBytes' = Len(queue')
            /\ Len(queue') <= Len(q)
            /\ receiver = "up" => wire' \o queue' = wire \o q
        BY <1>1, <1>7, <3>1, FlushKeeps
      <3>3. Len(queue') \in Nat /\ Len(q) \in Nat /\ MaxQueue \in Nat
        BY <1>7, <3>2, StreamAssumption
      <3>4. m_queuedBytes' <= MaxQueue
        BY <3>1, <3>2, <3>3
      <3>5. QED
        BY <2>1, <3>2, <3>4
    <2>2. CASE kind # "up"
      <3>1. /\ wire' = Written(e) /\ queue' = queue /\ m_queuedBytes' = m_queuedBytes
            /\ queue = <<>> /\ m_queuedBytes <= MaxQueue
        BY <1>1, <1>4, <2>2 DEF Bounds
      <3>2. wire \o e \in Seq(Nat) /\ <<>> \in Seq(Nat)
        BY <1>5, ConcatProperties, EmptySeq
      <3>3. <<>> \o e = e /\ (wire \o e) \o <<>> = wire \o e
        BY <3>2, ConcatEmptySeq
      <3>4. receiver = "up" => wire' \o queue' = wire \o q
        BY <1>6, <3>1, <3>3 DEF Written
      <3>5. wire' \in Seq(Nat)
        BY <3>1, <3>2 DEF Written
      <3>6. QED
        BY <1>5, <2>2, <3>1, <3>4, <3>5
    <2>3. QED
      BY <2>1, <2>2
  <1>9. StreamTypes'
    <2>1. sent' \in Seq(FramesOf(kind))
      BY <1>1, <1>4, AppendProperties DEF StreamTypes
    <2>2. QED
      BY <1>1, <1>4, <1>8, <2>1 DEF StreamTypes
  <1>10. Bounds'
    BY <1>1, <1>4, <1>8 DEF Bounds
  <1>11. Faithful'
    <2>1. SUFFICES ASSUME damage = 0
                   PROVE  ~reported /\ received \in Seq(FramesOf(kind)) /\ Remaining'
      BY <1>4 DEF Faithful
    <2>2. ~reported /\ received \in Seq(FramesOf(kind)) /\ Remaining
      BY <1>1, <2>1 DEF Faithful
    <2>3. PICK left \in Seq(FramesOf(kind)) :
              /\ sent = received \o left
              /\ receiver = "up" =>
                    \E lost \in Seq(Nat) : /\ sender => lost = <<>>
                                           /\ Encodes(kind, Stream \o lost, left)
      BY <2>2 DEF Remaining
    <2>4. PICK more : more = Append(left, f)
      OBVIOUS
    <2>5. more \in Seq(FramesOf(kind)) /\ sent' = received' \o more
      <3>1. Append(left, f) = left \o <<f>> /\ Append(sent, f) = sent \o <<f>>
        BY <1>1, AppendIsConcat DEF StreamTypes
      <3>2. PICK one \in Seq(FramesOf(kind)) : one = <<f>>
        <4>1. <<f>> \in Seq(FramesOf(kind))
          OBVIOUS
        <4>2. QED
          BY <4>1
      <3>3. Associate(received, left, one)
        BY <2>2, Associativity
      <3>4. QED
        BY <1>4, <2>3, <2>4, <3>1, <3>2, <3>3, AppendProperties DEF Associate
    <2>6. receiver = "up" => Encodes(kind, Stream' \o <<>>, more)
      <3>1. SUFFICES ASSUME receiver = "up" PROVE Encodes(kind, Stream' \o <<>>, more)
        OBVIOUS
      <3>2. Encodes(kind, Stream \o <<>>, left)
        BY <1>4, <2>3, <3>1
      <3>3. Stream \in Seq(Nat) /\ Stream' = Stream \o e
        <4>1. buffer \in Seq(Nat) /\ wire \in Seq(Nat) /\ queue \in Seq(Nat)
          BY <1>5
        <4>2. /\ buffer \o (wire \o (queue \o e)) = (buffer \o (wire \o queue)) \o e
              /\ buffer \o (wire \o queue) \in Seq(Nat)
          <5>1. Grows(buffer, wire, queue, e)
            BY <4>1, StreamGrows
          <5>2. QED
            BY <5>1 DEF Grows
        <4>3. Stream' = buffer \o (wire' \o queue')
          BY <1>4 DEF Stream
        <4>4. QED
          BY <1>6, <1>8, <3>1, <4>2, <4>3 DEF Stream
      <3>4. Stream \o <<>> = Stream /\ Stream' \o <<>> = Stream'
        <4>1. Stream' \in Seq(Nat)
          BY <3>3, ConcatProperties
        <4>2. QED
          BY <3>3, <4>1, ConcatEmptySeq
      <3>5. Encodes(kind, Stream \o e, more)
        BY <1>1, <1>3, <2>4, <3>2, <3>3, <3>4, OneMore DEF StreamTypes
      <3>6. QED
        BY <3>3, <3>4, <3>5
    <2>7. Remaining'
      <3>1. <<>> \in Seq(Nat)
        BY EmptySeq
      <3>2. QED
        BY <1>4, <2>5, <2>6, <3>1 DEF Remaining
    <2>8. QED
      BY <2>2, <2>7
  <1>12. QED
    BY <1>9, <1>10, <1>11

LEMMA BytesWrittenKeepsInv ==
    ASSUME StreamInv, BytesWritten
    PROVE  StreamInv'
  <1> USE DEF StreamInv
  <1>1. StreamTypes /\ Bounds /\ Faithful
    OBVIOUS
  <1>2. /\ FlushWriteQueue(queue, m_queuedBytes) /\ kind = "up"
        /\ UNCHANGED <<kind, sent, received, buffer, sender, receiver, reported, damage>>
    BY DEF BytesWritten
  <1>3. queue \in Seq(Nat) /\ Len(queue) \in Nat /\ m_queuedBytes = Len(queue)
    BY <1>1 DEF StreamTypes, Bounds
  <1>4. /\ queue' \in Seq(Nat) /\ wire' \in Seq(Nat)
        /\ m_queuedBytes' = Len(queue')
        /\ Len(queue') <= Len(queue)
        /\ receiver = "up" => wire' \o queue' = wire \o queue
    BY <1>1, <1>2, <1>3, FlushKeeps
  <1>5. StreamTypes'
    BY <1>1, <1>2, <1>4 DEF StreamTypes
  <1>6. Bounds'
    <2>1. Len(queue') \in Nat /\ MaxQueue \in Nat
      BY <1>4, StreamAssumption
    <2>2. m_queuedBytes' <= MaxQueue
      BY <1>1, <1>3, <1>4, <2>1 DEF Bounds
    <2>3. QED
      BY <1>1, <1>2, <1>4, <2>2 DEF Bounds
  <1>7. Faithful'
    BY <1>1, <1>2, <1>4 DEF Faithful, Remaining, Stream
  <1>8. QED
    BY <1>5, <1>6, <1>7

\* The bytes w that are read leave the wire for the buffer b.
Regroups(b, w, v, q, l) ==
    (b \o ((w \o v) \o q)) \o l = (b \o w) \o ((v \o q) \o l)

LEMMA StreamRegroups ==
    ASSUME NEW b \in Seq(Nat), NEW w \in Seq(Nat), NEW v \in Seq(Nat), NEW q \in Seq(Nat),
           NEW l \in Seq(Nat)
    PROVE  Regroups(b, w, v, q, l)
  <1>1. PICK x \in Seq(Nat) : x = v \o q
    BY ConcatProperties
  <1>2. PICK y \in Seq(Nat) : y = b \o w
    BY ConcatProperties
  <1>3. Associate(w, v, q)
    BY Associativity
  <1>4. Associate(b, w, x)
    BY Associativity
  <1>5. Associate(y, x, l)
    BY Associativity
  <1>6. QED
    BY <1>1, <1>2, <1>3, <1>4, <1>5 DEF Regroups, Associate

LEMMA PartIsRead ==
    ASSUME StreamTypes, NEW n \in 1 .. Min({MaxRead, Len(wire)})
    PROVE  LET w == SubSeq(wire, 1, n)  v == SubSeq(wire, n + 1, Len(wire))
           IN  /\ n \in Nat /\ n >= 1 /\ n <= MaxRead /\ n <= Len(wire)
               /\ w \in Seq(Nat) /\ v \in Seq(Nat) /\ Len(w) = n /\ w \o v = wire
  <1>1. wire \in Seq(Nat)
    BY DEF StreamTypes
  <1>2. n \in Nat /\ n >= 1 /\ n <= MaxRead /\ n <= Len(wire)
    <2>1. MaxRead \in Int /\ Len(wire) \in Int
      BY <1>1, StreamAssumption
    <2>2. Min({MaxRead, Len(wire)}) = IF MaxRead <= Len(wire) THEN MaxRead ELSE Len(wire)
      BY <2>1, MinOfTwo
    <2>3. QED
      BY <2>1, <2>2
  <1>3. PICK w, v : w = SubSeq(wire, 1, n) /\ v = SubSeq(wire, n + 1, Len(wire))
    OBVIOUS
  <1>4. /\ 1 \in 1 .. Len(wire) + 1 /\ n \in 1 - 1 .. Len(wire)
        /\ n + 1 \in 1 .. Len(wire) + 1 /\ Len(wire) \in n + 1 - 1 .. Len(wire)
        /\ Len(wire) \in n .. Len(wire) /\ n - 1 + 1 = n
    BY <1>1, <1>2
  <1>5. w \in Seq(Nat) /\ v \in Seq(Nat) /\ Len(w) = n - 1 + 1
    BY <1>1, <1>3, <1>4, Piece
  <1>6. SubSeq(wire, 1, n) \o SubSeq(wire, n + 1, Len(wire)) = SubSeq(wire, 1, Len(wire))
    BY <1>1, <1>4, ConcatAdjacentSubSeq
  <1>7. SubSeq(wire, 1, Len(wire)) = wire
    BY <1>1, SubSeqFull
  <1>8. QED
    BY <1>2, <1>3, <1>4, <1>5, <1>6, <1>7

LEMMA ReadKeepsInv ==
    ASSUME StreamInv, NEW n \in 1 .. Min({MaxRead, Len(wire)}), ReadyRead(n)
    PROVE  StreamInv'
  <1>1. StreamTypes /\ Bounds /\ Faithful
    BY DEF StreamInv
  <1>2. queue \in Seq(Nat) /\ wire \in Seq(Nat) /\ buffer \in Seq(Nat) /\ kind \in Kinds
    BY <1>1 DEF StreamTypes
  <1>3. n \in Nat /\ n >= 1 /\ n <= MaxRead /\ n <= Len(wire)
    BY <1>1, PartIsRead
  <1>4. PICK w, v : w = SubSeq(wire, 1, n) /\ v = SubSeq(wire, n + 1, Len(wire))
    OBVIOUS
  <1>5. w \in Seq(Nat) /\ v \in Seq(Nat) /\ Len(w) = n /\ w \o v = wire
    BY <1>1, <1>4, PartIsRead
  <1>6. PICK b \in Seq(Nat) : b = buffer \o w /\ Len(b) = Len(buffer) + n
    BY <1>2, <1>5, Concat
  <1>7. PICK cut : cut = Cut(b)
    OBVIOUS
  <1>8. /\ cut \in Cuts
        /\ kind # "broker" => Len(cut.rest) < HeaderSize + MaxPayload + 1
        /\ cut = CutOf(kind, b)
    <2>1. kind = "broker" \/ Len(b) <= MaxBuffer
      <3>1. CASE kind = "broker"
        BY <3>1
      <3>2. CASE kind # "broker"
        <4>1. Len(buffer) < HeaderSize + MaxPayload + 1
          BY <1>1, <3>2 DEF Bounds
        <4>2. /\ Len(buffer) \in Nat /\ HeaderSize = 4 /\ MaxPayload \in Nat
              /\ MaxRead \in Nat /\ MaxBuffer \in Nat
              /\ HeaderSize + MaxPayload + MaxRead <= MaxBuffer
          BY <1>2, HeaderIsFour, StreamAssumption
        <4>3. QED
          BY <1>3, <1>6, <4>1, <4>2
      <3>3. QED
        BY <3>1, <3>2
    <2>2. QED
      BY <1>1, <1>7, <2>1, CutType
  <1>9. /\ receiver = "up"
        /\ received' = received \o cut.frames
        /\ reported' = (reported \/ cut.bad)
        /\ buffer' = IF kind = "broker" /\ cut.bad THEN <<>> ELSE cut.rest
        /\ wire' = IF kind = "broker" /\ cut.bad THEN <<>> ELSE v
        /\ receiver' = IF kind = "broker" /\ cut.bad THEN "aborted" ELSE receiver
        /\ UNCHANGED <<kind, sent, queue, m_queuedBytes, sender, damage>>
    BY <1>4, <1>6, <1>7 DEF ReadyRead
  <1>10. cut.frames \in Seq(AnyFrame) /\ cut.rest \in Seq(Nat) /\ cut.bad \in BOOLEAN
    BY <1>8 DEF Cuts
  <1>11. StreamTypes'
    <2>1. received' \in Seq(AnyFrame)
      BY <1>1, <1>9, <1>10, ConcatProperties DEF StreamTypes
    <2>2. buffer' \in Seq(Nat) /\ wire' \in Seq(Nat)
      BY <1>5, <1>9, <1>10, EmptySeq
    <2>3. QED
      BY <1>1, <1>9, <1>10, <2>1, <2>2 DEF StreamTypes
  <1>12. Bounds'
    BY <1>1, <1>8, <1>9 DEF Bounds
  <1>13. Faithful'
    <2>1. SUFFICES ASSUME damage = 0
                   PROVE  ~reported' /\ received' \in Seq(FramesOf(kind)) /\ Remaining'
      BY <1>9 DEF Faithful
    <2>2. ~reported /\ received \in Seq(FramesOf(kind)) /\ Remaining
      BY <1>1, <2>1 DEF Faithful
    <2>3. PICK left \in Seq(FramesOf(kind)) :
              /\ sent = received \o left
              /\ \E lost \in Seq(Nat) : /\ sender => lost = <<>>
                                        /\ Encodes(kind, Stream \o lost, left)
      BY <1>9, <2>2 DEF Remaining
    <2>4. PICK lost \in Seq(Nat) : /\ sender => lost = <<>>
                                   /\ Encodes(kind, Stream \o lost, left)
      BY <2>3
    <2>5. PICK u \in Seq(Nat) : u = (v \o queue) \o lost
      <3>1. v \o queue \in Seq(Nat)
        BY <1>2, <1>5, ConcatProperties
      <3>2. (v \o queue) \o lost \in Seq(Nat)
        BY <3>1, ConcatProperties
      <3>3. QED
        BY <3>2
    <2>6. Stream \o lost = b \o u
      <3>1. Regroups(buffer, w, v, queue, lost)
        BY <1>2, <1>5, StreamRegroups
      <3>2. QED
        BY <1>5, <1>6, <2>5, <3>1 DEF Regroups, Stream
    <2>7. CutsWell(kind, b, u, left)
      BY <1>2, <2>4, <2>6, StreamIsCut
    <2>8. PICK got \in Seq(FramesOf(kind)), more \in Seq(FramesOf(kind)) :
              /\ left = got \o more
              /\ cut.frames = got
              /\ cut.bad = FALSE
              /\ Encodes(kind, cut.rest \o u, more)
      BY <1>8, <2>7 DEF CutsWell
    <2>9. /\ received' = received \o got /\ reported' = reported
          /\ buffer' = cut.rest /\ wire' = v /\ receiver' = "up"
      <3>1. reported \in BOOLEAN
        BY <1>1 DEF StreamTypes
      <3>2. (reported \/ cut.bad) = reported
        BY <2>8, <3>1
      <3>3. QED
        BY <1>9, <2>8, <3>2
    <2>10. received \o got \in Seq(FramesOf(kind))
      BY <2>2, ConcatProperties
    <2>11. sent' = received' \o more
      <3>1. PICK r \in Seq(FramesOf(kind)) : r = received
        BY <2>2
      <3>2. Associate(r, got, more)
        BY Associativity
      <3>3. QED
        BY <1>9, <2>3, <2>8, <2>9, <3>1, <3>2 DEF Associate
    <2>12. Stream' \o lost = cut.rest \o u
      <3>1. Stream' = cut.rest \o (v \o queue)
        BY <1>9, <2>9 DEF Stream
      <3>2. PICK x \in Seq(Nat), r \in Seq(Nat) : x = v \o queue /\ r = cut.rest
        <4>1. v \o queue \in Seq(Nat)
          BY <1>2, <1>5, ConcatProperties
        <4>2. QED
          BY <1>10, <4>1
      <3>3. Associate(r, x, lost)
        BY Associativity
      <3>4. QED
        BY <2>5, <3>1, <3>2, <3>3 DEF Associate
    <2>13. Encodes(kind, Stream' \o lost, more)
      BY <2>8, <2>12
    <2>14. Remaining'
      BY <1>9, <2>4, <2>11, <2>13 DEF Remaining
    <2>15. QED
      BY <2>2, <2>9, <2>10, <2>14
  <1>14. QED
    BY <1>11, <1>12, <1>13 DEF StreamInv

LEMMA DamageKeepsInv ==
    ASSUME StreamInv, NEW i \in 1 .. Len(wire), NEW x \in Bytes, DamageByte(i, x)
    PROVE  StreamInv'
  <1>1. StreamTypes /\ Bounds
    BY DEF StreamInv
  <1>2. /\ damage' = damage + 1 /\ damage < MaxDamage
        /\ wire' = [wire EXCEPT ![i] = x]
        /\ UNCHANGED <<kind, sent, received, queue, m_queuedBytes, buffer, sender,
                       receiver, reported>>
    BY DEF DamageByte
  <1>3. wire' \in Seq(Nat)
    <2>1. wire \in Seq(Nat) /\ x \in Nat
      BY <1>1 DEF StreamTypes, Bytes
    <2>2. QED
      BY <1>2, <2>1, ExceptSeq
  <1>4. damage' \in 0 .. MaxDamage /\ damage' # 0
    <2>1. damage \in 0 .. MaxDamage /\ MaxDamage \in Nat
      BY <1>1, StreamAssumption DEF StreamTypes
    <2>2. QED
      BY <1>2, <2>1
  <1>5. StreamTypes' /\ Bounds' /\ Faithful'
    BY <1>1, <1>2, <1>3, <1>4 DEF StreamTypes, Bounds, Faithful
  <1>6. QED
    BY <1>5 DEF StreamInv

LEMMA SenderGoneKeepsInv ==
    ASSUME StreamInv, SenderGone
    PROVE  StreamInv'
  <1>1. StreamTypes /\ Bounds /\ Faithful
    BY DEF StreamInv
  <1>2. /\ sender /\ sender' = FALSE
        /\ queue' = <<>> /\ m_queuedBytes' = 0
        /\ UNCHANGED <<kind, sent, received, wire, buffer, receiver, reported, damage>>
    BY DEF SenderGone
  <1>3. queue \in Seq(Nat) /\ wire \in Seq(Nat) /\ buffer \in Seq(Nat)
    BY <1>1 DEF StreamTypes
  <1>4. <<>> \in Seq(Nat) /\ Len(<<>>) = 0 /\ 0 <= MaxQueue
    BY EmptySeq, StreamAssumption
  <1>5. StreamTypes' /\ Bounds'
    BY <1>1, <1>2, <1>4 DEF StreamTypes, Bounds
  <1>6. Faithful'
    <2>1. SUFFICES ASSUME damage = 0
                   PROVE  ~reported /\ received \in Seq(FramesOf(kind)) /\ Remaining'
      BY <1>2 DEF Faithful
    <2>2. ~reported /\ received \in Seq(FramesOf(kind)) /\ Remaining
      BY <1>1, <2>1 DEF Faithful
    <2>3. PICK left \in Seq(FramesOf(kind)) :
              /\ sent = received \o left
              /\ receiver = "up" => Encodes(kind, Stream \o <<>>, left)
      BY <1>2, <2>2 DEF Remaining
    <2>4. Stream \o <<>> = Stream' \o queue
      <3>1. Stream \in Seq(Nat) /\ wire \o queue \in Seq(Nat)
        <4>1. Grows(buffer, wire, queue, <<>>)
          BY <1>3, <1>4, StreamGrows
        <4>2. QED
          BY <4>1 DEF Grows, Stream
      <3>2. Stream \o <<>> = Stream /\ wire \o <<>> = wire
        BY <1>3, <3>1, ConcatEmptySeq
      <3>3. Stream' = buffer \o wire
        BY <1>2, <3>2 DEF Stream
      <3>4. Associate(buffer, wire, queue)
        BY <1>3, Associativity
      <3>5. QED
        BY <3>2, <3>3, <3>4 DEF Stream, Associate
    <2>5. receiver' = "up" =>
              \E lost \in Seq(Nat) : /\ sender' => lost = <<>>
                                     /\ Encodes(kind, Stream' \o lost, left)
      BY <1>2, <1>3, <2>3, <2>4
    <2>6. Remaining'
      BY <1>2, <2>3, <2>5 DEF Remaining
    <2>7. QED
      BY <2>2, <2>6
  <1>7. QED
    BY <1>5, <1>6 DEF StreamInv

LEMMA ReceiverGoneKeepsInv ==
    ASSUME StreamInv, ReceiverGone
    PROVE  StreamInv'
  <1>1. StreamTypes /\ Bounds /\ Faithful
    BY DEF StreamInv
  <1>2. /\ receiver' = "gone" /\ wire' = <<>> /\ buffer' = <<>>
        /\ UNCHANGED <<kind, sent, received, queue, m_queuedBytes, sender, reported, damage>>
    BY DEF ReceiverGone
  <1>3. <<>> \in Seq(Nat) /\ Len(<<>>) = 0 /\ 0 < HeaderSize + MaxPayload + 1
    BY EmptySeq, HeaderIsFour, StreamAssumption
  <1>4. StreamTypes' /\ Bounds'
    BY <1>1, <1>2, <1>3 DEF StreamTypes, Bounds
  <1>5. Faithful'
    BY <1>1, <1>2 DEF Faithful, Remaining
  <1>6. QED
    BY <1>4, <1>5 DEF StreamInv

\* A new connection begins as a stream of no frames.
LEMMA ConnectKeepsInv ==
    ASSUME StreamInv, Connect
    PROVE  StreamInv'
  <1>1. StreamTypes
    BY DEF StreamInv
  <1>2. /\ sender' = TRUE /\ receiver' = "up" /\ sent' = <<>> /\ received' = <<>>
        /\ queue' = <<>> /\ m_queuedBytes' = 0 /\ wire' = <<>> /\ buffer' = <<>>
        /\ reported' = FALSE /\ damage' = 0 /\ kind' = kind
    BY DEF Connect
  <1>3. <<>> \in Seq(Nat) /\ <<>> \in Seq(AnyFrame) /\ <<>> \in Seq(FramesOf(kind))
    BY EmptySeq
  <1>4. Len(<<>>) = 0 /\ 0 < HeaderSize + MaxPayload + 1 /\ 0 <= MaxQueue /\ 0 \in 0 .. MaxDamage
    BY EmptySeq, HeaderIsFour, StreamAssumption
  <1>5. StreamTypes' /\ Bounds'
    BY <1>1, <1>2, <1>3, <1>4 DEF StreamTypes, Bounds
  <1>6. Faithful'
    <2>1. <<>> \o <<>> = <<>>
      BY <1>3, ConcatEmptySeq
    <2>2. Stream' \o <<>> = <<>>
      BY <1>2, <2>1 DEF Stream
    <2>3. Encodes(kind, Stream' \o <<>>, <<>>)
      BY <2>2, NoFrames
    <2>4. Remaining'
      BY <1>2, <1>3, <2>1, <2>3 DEF Remaining
    <2>5. QED
      BY <1>2, <1>3, <2>4 DEF Faithful
  <1>7. QED
    BY <1>5, <1>6 DEF StreamInv

LEMMA StepKeepsInv == StreamInv /\ [Next]_vars => StreamInv'
  <1> SUFFICES ASSUME StreamInv, [Next]_vars PROVE StreamInv'
    OBVIOUS
  <1>1. ASSUME NEW p \in Payloads[kind], SendFrame(p) PROVE StreamInv'
    BY <1>1, SendKeepsInv
  <1>2. CASE BytesWritten
    BY <1>2, BytesWrittenKeepsInv
  <1>3. CASE Read
    BY <1>3, ReadKeepsInv DEF Read
  <1>4. ASSUME NEW i \in 1 .. Len(wire), NEW x \in Bytes, DamageByte(i, x)
        PROVE  StreamInv'
    BY <1>4, DamageKeepsInv
  <1>5. CASE SenderGone
    BY <1>5, SenderGoneKeepsInv
  <1>6. CASE ReceiverGone
    BY <1>6, ReceiverGoneKeepsInv
  <1>7. CASE Connect
    BY <1>7, ConnectKeepsInv
  <1>8. CASE UNCHANGED vars
    BY <1>8 DEF vars, StreamInv, StreamTypes, Bounds, Faithful, Remaining, Stream
  <1>9. QED
    BY <1>1, <1>2, <1>3, <1>4, <1>5, <1>6, <1>7, <1>8 DEF Next

LEMMA StreamInvariant == Spec => []StreamInv
  BY InitStreamInv, StepKeepsInv, PTL DEF Spec

-----------------------------------------------------------------------------
(* What follows from it.                                                   *)

\* The count of queued bytes is right and within its limit, and the buffer of
\* a P2P receiver holds less than one frame, whatever was damaged.
\* (sendFrame and flushWriteQueue, p2p_socket.cpp:159-216; processStreamBuffer,
\* 40-99)
THEOREM BuffersStayBounded == Spec => []BuffersAreBounded
  <1>1. StreamInv => BuffersAreBounded
    BY DEF StreamInv, Bounds, BuffersAreBounded
  <1>2. QED
    BY <1>1, StreamInvariant, PTL

\* A stream that nobody damaged is never reported as malformed, whatever its
\* payloads hold and however it is written and read.
\* (processStreamBuffer, p2p_socket.cpp:40-99; processIncomingData,
\* mqtt_signaling.cpp:418-466)
THEOREM NoFalseAlarmHolds == Spec => []NoFalseAlarm
  <1>1. StreamInv => NoFalseAlarm
    <2>1. ASSUME StreamInv, reported PROVE damage > 0
      <3>1. damage \in Nat /\ damage # 0
        BY <2>1, StreamAssumption DEF StreamInv, StreamTypes, Faithful
      <3>2. QED
        BY <3>1
    <2>2. QED
      BY <2>1 DEF NoFalseAlarm
  <1>2. QED
    BY <1>1, StreamInvariant, PTL

LEMMA PartIsPrefix ==
    ASSUME NEW S, NEW s \in Seq(S), NEW t \in Seq(S)
    PROVE  IsPrefix(s, s \o t)
  <1>1. Len(s) <= Len(s \o t)
    BY Concat
  <1>2. SubSeq(s \o t, 1, Len(s)) = s /\ SubSeq(s, 1, Len(s)) = s
    BY PieceOfConcat, SubSeqFull
  <1>3. QED
    BY <1>1, <1>2 DEF IsPrefix

\* What was received are the first of the frames that were sent.
ArrivedInOrder == damage = 0 => IsPrefix(received, sent)

\* Until a byte of the connection is damaged, frames arrive whole, in order and
\* once.
\* (processStreamBuffer, p2p_socket.cpp:40-99; processIncomingData,
\* mqtt_signaling.cpp:418-466; flushWriteQueue, p2p_socket.cpp:196-216)
THEOREM UndamagedArriveInOrder == Spec => []ArrivedInOrder
  <1>1. StreamInv => ArrivedInOrder
    <2>1. ASSUME StreamInv, damage = 0 PROVE IsPrefix(received, sent)
      <3>1. PICK left \in Seq(FramesOf(kind)) : sent = received \o left
        BY <2>1 DEF StreamInv, Faithful, Remaining
      <3>2. received \in Seq(FramesOf(kind))
        BY <2>1 DEF StreamInv, Faithful
      <3>3. QED
        BY <3>1, <3>2, PartIsPrefix
    <2>2. QED
      BY <2>1 DEF ArrivedInOrder
  <1>2. QED
    BY <1>1, StreamInvariant, PTL

\* All variables keep their types on a stream that is not damaged; what a
\* damaged checksum lets pass depends on the checksum.
\* (P2PFrame::decode, framing.cpp:49-77)
THEOREM StreamTypeCorrect ==
    ASSUME MaxDamage = 0
    PROVE  Spec => []TypeOK
  <1>1. StreamInv => TypeOK
    <2>1. SUFFICES ASSUME StreamInv PROVE TypeOK
      OBVIOUS
    <2>2. StreamTypes /\ Bounds /\ Faithful
      BY <2>1 DEF StreamInv
    <2>3. damage = 0
      BY <2>2 DEF StreamTypes
    <2>4. received \in Seq(FramesOf(kind)) /\ sent \in Seq(FramesOf(kind))
      BY <2>2, <2>3 DEF Faithful, StreamTypes
    <2>5. FramesOf(kind) \subseteq Frames
      BY <2>2 DEF FramesOf, Frames, StreamTypes
    <2>6. received \in Seq(Frames) /\ sent \in Seq(Frames)
      BY <2>4, <2>5, SeqMonotonic
    <2>7. m_queuedBytes \in 0 .. MaxQueue
      BY <2>2, StreamAssumption DEF Bounds, StreamTypes
    <2>8. QED
      BY <2>2, <2>6, <2>7 DEF StreamTypes, TypeOK
  <1>2. QED
    BY <1>1, StreamInvariant, PTL

\* The first elements of a sequence are one of its selections.
LEMMA FirstAreSelected ==
    ASSUME NEW S, NEW s \in Seq(S), NEW t \in Seq(S)
    PROVE  s \in Channel!Selections(s \o t)
  <1>1. PICK r \in Seq(S) : r = s \o t
    BY ConcatProperties
  <1>2. /\ Len(s) \in Nat /\ Len(r) \in Nat /\ Len(s) <= Len(r)
        /\ \A i \in 1 .. Len(s) : r[i] = s[i]
    BY <1>1, Concat
  <1>3. PICK n \in 0 .. Len(r) : n = Len(s)
    BY <1>2
  <1> DEFINE pick == [i \in 1 .. n |-> i]
  <1>4. pick \in Channel!Picks(n, Len(r))
    <2>1. pick \in [1 .. n -> 1 .. Len(r)]
      BY <1>2
    <2>2. \A i \in 2 .. n : pick[i - 1] < pick[i]
      OBVIOUS
    <2> HIDE DEF pick
    <2>3. QED
      BY <2>1, <2>2 DEF Channel!Picks
  <1>5. s = [i \in 1 .. n |-> r[pick[i]]]
    <2>1. s = [i \in 1 .. n |-> s[i]]
      BY <1>3, LenProperties
    <2>2. \A i \in 1 .. n : r[pick[i]] = s[i]
      BY <1>2, <1>3
    <2> HIDE DEF pick
    <2>3. [i \in 1 .. n |-> r[pick[i]]] = [i \in 1 .. n |-> s[i]]
      BY <2>2
    <2>4. QED
      BY <2>1, <2>3
  <1> HIDE DEF pick
  <1>6. s \in Channel!Selections(r)
    BY <1>4, <1>5 DEF Channel!Selections
  <1>7. QED
    BY <1>1, <1>6

\* A read of an undamaged stream delivers some frames, or none.
LEMMA ReadDelivers ==
    ASSUME StreamInv, StreamInv', NEW n \in 1 .. Min({MaxRead, Len(wire)}), ReadyRead(n),
           damage = 0
    PROVE  [Channel!Next]_(Channel!channelVars)
  <1>1. damage' = 0 /\ sent' = sent /\ kind' = kind /\ damage' = damage
    BY DEF ReadyRead
  <1>2. received \in Seq(FramesOf(kind)) /\ received' \in Seq(FramesOf(kind))
    BY <1>1 DEF StreamInv, Faithful
  <1>3. PICK left \in Seq(FramesOf(kind)) : sent = received' \o left
    BY <1>1 DEF StreamInv, Faithful, Remaining
  <1>4. PICK got \in Seq(AnyFrame) : received' = received \o got
    <2>1. StreamTypes /\ buffer \in Seq(Nat)
      BY DEF StreamInv, StreamTypes
    <2>2. PICK w \in Seq(Nat) : w = SubSeq(wire, 1, n)
      BY <2>1, PartIsRead
    <2>3. buffer \o w \in Seq(Nat)
      BY <2>1, ConcatProperties
    <2>4. Cut(buffer \o w) \in Cuts
      BY <2>1, <2>3, CutType
    <2>5. received' = received \o Cut(buffer \o w).frames
      BY <2>2 DEF ReadyRead
    <2>6. QED
      BY <2>4, <2>5 DEF Cuts
  <1>5. IsPrefix(received, received')
    <2>1. received \in Seq(AnyFrame)
      BY DEF StreamInv, StreamTypes
    <2>2. QED
      BY <1>4, <2>1, PartIsPrefix
  <1>6. received' \in Channel!Selections(sent) /\ IsPrefix(received', sent)
    BY <1>2, <1>3, FirstAreSelected, PartIsPrefix
  <1>7. CASE received' = received
    BY <1>1, <1>7 DEF Channel!channelVars
  <1>8. CASE received' # received
    <2>1. Channel!IsStrictPrefix(received, received') /\ Channel!IsPrefix(received', sent)
      BY <1>5, <1>6, <1>8 DEF IsPrefix, Channel!IsPrefix, Channel!IsStrictPrefix
    <2>2. (damage > 0)' = (damage > 0)
      BY <1>1
    <2>3. Channel!Deliver
      BY <1>1, <1>6, <2>1, <2>2 DEF Channel!Deliver
    <2>4. QED
      BY <2>3 DEF Channel!Next
  <1>9. QED
    BY <1>7, <1>8

\* Every step on a stream that is not damaged is a step of the channel, or
\* none that it sees.
LEMMA UndamagedStep ==
    ASSUME StreamInv, StreamInv', [Next]_vars, damage = 0, damage' = 0
    PROVE  [Channel!Next]_(Channel!channelVars)
  <1>1. ASSUME NEW p \in Payloads[kind], SendFrame(p)
        PROVE  [Channel!Next]_(Channel!channelVars)
    <2>1. PICK f : f = [type |-> Len(sent) + 1, payload |-> p]
      OBVIOUS
    <2>2. kind \in Kinds /\ Len(sent) \in Nat /\ Len(sent) < MaxFrames /\ MaxFrames \in Nat
      BY <1>1, StreamAssumption DEF SendFrame, StreamInv, StreamTypes
    <2>3. f \in Frames
      BY <2>1, <2>2 DEF Frames
    <2>4. sent' = Append(sent, f) /\ received' = received /\ damage' = damage
      BY <1>1, <2>1 DEF SendFrame
    <2>5. QED
      BY <2>3, <2>4 DEF Channel!Next, Channel!Accept
  <1>2. CASE BytesWritten
    BY <1>2 DEF BytesWritten, Channel!channelVars
  <1>3. CASE Read
    BY <1>3, ReadDelivers DEF Read
  <1>4. ASSUME NEW i \in 1 .. Len(wire), NEW x \in Bytes, DamageByte(i, x)
        PROVE  FALSE
    BY <1>4 DEF DamageByte
  <1>5. CASE SenderGone
    BY <1>5 DEF SenderGone, Channel!channelVars
  <1>6. CASE ReceiverGone
    BY <1>6 DEF ReceiverGone, Channel!channelVars
  <1>7. CASE Connect
    BY <1>7 DEF Connect, Channel!Next, Channel!Reconnect
  <1>8. CASE UNCHANGED vars
    BY <1>8 DEF vars, Channel!channelVars
  <1>9. QED
    BY <1>1, <1>2, <1>3, <1>4, <1>5, <1>6, <1>7, <1>8 DEF Next

\* A stream that is not damaged implements the channel P2PSocket and
\* MqttSignaling assume: frames arrive whole, in order and once.  What a
\* damaged stream may deliver depends on what the checksum tells apart.
\* (processStreamBuffer, p2p_socket.cpp:40-99; processIncomingData,
\* mqtt_signaling.cpp:418-466; flushWriteQueue, p2p_socket.cpp:196-216)
THEOREM ImplementsUndamagedChannel ==
    ASSUME MaxDamage = 0
    PROVE  Spec => ImplementsChannel
  <1>1. Init => Channel!Init
    BY DEF Init, Channel!Init
  <1>2. StreamInv /\ StreamInv' /\ [Next]_vars => [Channel!Next]_(Channel!channelVars)
    <2>1. SUFFICES ASSUME StreamInv, StreamInv', [Next]_vars
                   PROVE  [Channel!Next]_(Channel!channelVars)
      OBVIOUS
    <2>2. damage = 0 /\ damage' = 0
      BY <2>1 DEF StreamInv, StreamTypes
    <2>3. QED
      BY <2>1, <2>2, UndamagedStep
  <1>3. QED
    BY <1>1, <1>2, StreamInvariant, PTL DEF Spec, ImplementsChannel, Channel!Spec

==============================================================================
