----------------------------- MODULE RpcStreams -----------------------------
(***************************************************************************)
(* What the streams of fragments of RpcLink hold, and in what order, when  *)
(* they are sent, cut and read.                                            *)
(***************************************************************************)
EXTENDS RpcLinkInv, TLAPS

----------------------------------------------------------------------------
(* Streams of fragments *)

\* What the concatenation of two streams holds, and when it is in order.
LEMMA CatStreams ==
    ASSUME NEW s \in Seq(Fragment), NEW t \in Seq(Fragment)
    PROVE  /\ s \o t \in Seq(Fragment)
           /\ Pieces(s \o t) = Pieces(s) \cup Pieces(t)
           /\ Sorted(s) /\ Sorted(t)
              /\ (\A f \in Pieces(s), g \in Pieces(t) : Before(f, g)) => Sorted(s \o t)
           /\ Unterminated(s) /\ Unterminated(t) => Unterminated(s \o t)
<1>1. s \o t \in Seq(Fragment)
  OBVIOUS
<1>2. \A i \in DOMAIN (s \o t) : \/ i \in DOMAIN s /\ (s \o t)[i] = s[i]
                                 \/ i - Len(s) \in DOMAIN t /\ (s \o t)[i] = t[i - Len(s)]
  OBVIOUS
<1>3. \A i \in DOMAIN s : i \in DOMAIN (s \o t) /\ (s \o t)[i] = s[i]
  OBVIOUS
<1>4. \A i \in DOMAIN t : i + Len(s) \in DOMAIN (s \o t) /\ (s \o t)[i + Len(s)] = t[i]
  OBVIOUS
<1>5. Pieces(s \o t) \subseteq Pieces(s) \cup Pieces(t)
  BY <1>2 DEF Pieces
<1>6. Pieces(s) \subseteq Pieces(s \o t)
  BY <1>3 DEF Pieces
<1>7. Pieces(t) \subseteq Pieces(s \o t)
  BY <1>4 DEF Pieces
<1>8. ASSUME Sorted(s), Sorted(t), \A f \in Pieces(s), g \in Pieces(t) : Before(f, g)
      PROVE  Sorted(s \o t)
  <2> SUFFICES ASSUME NEW i \in DOMAIN (s \o t), NEW j \in DOMAIN (s \o t), i < j
               PROVE  Before((s \o t)[i], (s \o t)[j])
    BY DEF Sorted
  <2>1. CASE j <= Len(s)
    BY <2>1, <1>8 DEF Sorted
  <2>2. CASE i > Len(s)
    BY <2>2, <1>8 DEF Sorted
  <2>3. CASE i <= Len(s) /\ j > Len(s)
    BY <2>3, <1>8 DEF Pieces
  <2> QED
    BY <2>1, <2>2, <2>3
<1>9. Unterminated(s) /\ Unterminated(t) => Unterminated(s \o t)
  BY <1>2 DEF Unterminated
<1> QED
  BY <1>1, <1>5, <1>6, <1>7, <1>8, <1>9

\* A stretch of a stream.
LEMMA SubStreams ==
    ASSUME NEW s \in Seq(Fragment), NEW a \in 1..(Len(s) + 1), NEW b \in 0..Len(s), a <= b + 1
    PROVE  /\ SubSeq(s, a, b) \in Seq(Fragment)
           /\ Pieces(SubSeq(s, a, b)) \subseteq Pieces(s)
           /\ Sorted(s) => Sorted(SubSeq(s, a, b))
           /\ Len(SubSeq(s, a, b)) = b + 1 - a
           /\ \A i \in 1..(b + 1 - a) : SubSeq(s, a, b)[i] = s[a + i - 1]
  BY DEF Pieces, Sorted

\* Cutting an ordered stream in two: everything behind the cut comes later.
LEMMA CutStream ==
    ASSUME NEW s \in Seq(Fragment), Sorted(s), NEW k \in DOMAIN s
    PROVE  /\ From(s, k) \in Seq(Fragment) /\ Sorted(From(s, k))
           /\ Pieces(From(s, k)) \subseteq Pieces(s)
           /\ \A f \in Pieces(From(s, k)) : \A i \in 1..k : Before(s[i], f)
           /\ \A f \in Pieces(SubSeq(s, 1, k)), g \in Pieces(From(s, k)) : Before(f, g)
           /\ Pieces(s) = Pieces(SubSeq(s, 1, k)) \cup Pieces(From(s, k))
<1> k \in 1..Len(s)
  OBVIOUS
<1>1. /\ From(s, k) \in Seq(Fragment) /\ Sorted(From(s, k))
      /\ Pieces(From(s, k)) \subseteq Pieces(s)
      /\ Len(From(s, k)) = Len(s) - k
      /\ \A i \in 1..(Len(s) - k) : From(s, k)[i] = s[k + i]
  BY SubStreams DEF From
<1>2. /\ Pieces(SubSeq(s, 1, k)) \subseteq Pieces(s)
      /\ Len(SubSeq(s, 1, k)) = k
      /\ \A i \in 1..k : SubSeq(s, 1, k)[i] = s[i]
  BY SubStreams
<1>3. \A f \in Pieces(From(s, k)) : \A i \in 1..k : Before(s[i], f)
  <2> SUFFICES ASSUME NEW f \in Pieces(From(s, k)), NEW i \in 1..k
               PROVE  Before(s[i], f)
    OBVIOUS
  <2>1. PICK j \in DOMAIN From(s, k) : f = From(s, k)[j]
    BY DEF Pieces
  <2>2. j \in 1..(Len(s) - k) /\ f = s[k + j]
    BY <1>1, <2>1
  <2>3. k + j \in DOMAIN s /\ i \in DOMAIN s /\ i < k + j
    BY <2>2
  <2> QED
    BY <2>2, <2>3 DEF Sorted
<1>4. \A f \in Pieces(SubSeq(s, 1, k)), g \in Pieces(From(s, k)) : Before(f, g)
  <2> SUFFICES ASSUME NEW f \in Pieces(SubSeq(s, 1, k)), NEW g \in Pieces(From(s, k))
               PROVE  Before(f, g)
    OBVIOUS
  <2>1. PICK i \in DOMAIN SubSeq(s, 1, k) : f = SubSeq(s, 1, k)[i]
    BY DEF Pieces
  <2>2. i \in 1..k /\ f = s[i]
    BY <1>2, <2>1
  <2> QED
    BY <1>3, <2>2
<1>5. \A i \in DOMAIN s : s[i] \in Pieces(SubSeq(s, 1, k)) \cup Pieces(From(s, k))
  <2> TAKE i \in DOMAIN s
  <2>1. CASE i <= k
    BY <2>1, <1>2 DEF Pieces
  <2>2. CASE i > k
    <3>0. i - k \in 1..(Len(s) - k) /\ k + (i - k) = i
      BY <2>2
    <3>1. i - k \in DOMAIN From(s, k) /\ From(s, k)[i - k] = s[i]
      BY <3>0, <1>1
    <3> QED
      BY <3>1 DEF Pieces
  <2> QED
    BY <2>1, <2>2
<1>6. Pieces(s) \subseteq Pieces(SubSeq(s, 1, k)) \cup Pieces(From(s, k))
  BY <1>5 DEF Pieces
<1> QED
  BY <1>1, <1>2, <1>3, <1>4, <1>6

\* The line of a response is its two pieces, in order.
LEMMA LineStream ==
    ASSUME NEW n \in Calls
    PROVE  /\ Line(n) \in Seq(Fragment) /\ Sorted(Line(n))
           /\ Pieces(Line(n)) = {Piece(n, "head"), Piece(n, "tail")}
           /\ Piece(n, "head") \in Fragment /\ Piece(n, "tail") \in Fragment
           /\ Piece(n, "head").call = n /\ Piece(n, "tail").call = n
<1>1. /\ Piece(n, "head") \in Fragment /\ Piece(n, "tail") \in Fragment
      /\ Piece(n, "head").call = n /\ Piece(n, "tail").call = n
  BY DEF Piece, Fragment
<1>2. /\ Line(n) \in Seq(Fragment) /\ Len(Line(n)) = 2 /\ DOMAIN Line(n) = {1, 2}
      /\ Line(n)[1] = Piece(n, "head") /\ Line(n)[2] = Piece(n, "tail")
  BY <1>1 DEF Line
<1>3. Before(Piece(n, "head"), Piece(n, "tail"))
  BY DEF Before, Piece
<1>4. Sorted(Line(n))
  BY <1>2, <1>3 DEF Sorted
<1>5. Pieces(Line(n)) = {Piece(n, "head"), Piece(n, "tail")}
  BY <1>2 DEF Pieces
<1> QED
  BY <1>1, <1>2, <1>4, <1>5

\* Nothing on the wire is a stream without pieces.
LEMMA EmptyStream ==
    /\ <<>> \in Seq(Fragment) /\ Sorted(<<>>) /\ Pieces(<<>>) = {} /\ Unterminated(<<>>)
  BY DEF Sorted, Pieces, Unterminated

\* The elements of a stream, and the empty one.
LEMMA StreamElements ==
    ASSUME NEW s \in Seq(Fragment)
    PROVE  /\ Pieces(s) \subseteq Fragment
           /\ \A i \in DOMAIN s : s[i] \in Pieces(s)
           /\ Pieces(s) = {} <=> s = <<>>
<1>1. \A i \in DOMAIN s : s[i] \in Pieces(s) /\ s[i] \in Fragment
  BY DEF Pieces
<1>2. Pieces(s) \subseteq Fragment
  BY <1>1 DEF Pieces
<1>3. s # <<>> => 1 \in DOMAIN s
  OBVIOUS
<1> QED
  BY <1>1, <1>2, <1>3, EmptyStream
============================================================================
