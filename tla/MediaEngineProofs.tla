------------------------- MODULE MediaEngineProofs -------------------------
(***************************************************************************)
(* The C++ engine for every request, every output of ffmpeg and every      *)
(* segment file: the arithmetic of the splits, the artifacts, and the GIF  *)
(* that is assembled from them.                                            *)
(***************************************************************************)
EXTENDS MediaEngine, FiniteSetTheorems, SequenceTheorems, TLAPS

-----------------------------------------------------------------------------
(* Division. *)

\* What the quotient is.
LEMMA DivBounds ==
  ASSUME NEW a \in Int, NEW b \in Nat \ {0}
  PROVE  a \div b \in Int /\ b * (a \div b) <= a /\ a < b * (a \div b) + b
OBVIOUS

\* And that there is no other.
LEMMA DivUnique ==
  ASSUME NEW a \in Int, NEW b \in Nat \ {0}, NEW q \in Int, b * q <= a, a < b * q + b
  PROVE  a \div b = q
OBVIOUS

\* Ranges of a factor, from ranges of the product.
LEMMA FactorBounds ==
  ASSUME NEW m \in Nat \ {0}, NEW x \in Int
  PROVE  /\ m * x < 2 * m => x <= 1
         /\ m * x > -2 * m => x >= -1
         /\ m * x > -1 * m => x >= 0
         /\ m * x > 0 => x >= 1
OBVIOUS

\* CeilDiv rounds up, to at least one for what is not nothing.
LEMMA CeilDivBounds ==
  ASSUME NEW a \in Nat, NEW b \in Nat \ {0}
  PROVE  /\ CeilDiv(a, b) \in Nat /\ a <= CeilDiv(a, b) * b
         /\ a > 0 => CeilDiv(a, b) >= 1
<1> DEFINE q == (a + b - 1) \div b
<1>1. q \in Int /\ b * q <= a + b - 1 /\ a + b - 1 < b * q + b
  BY DivBounds
<1> HIDE DEF q
<1>2. b * q = q * b /\ b * q \in Int
  BY <1>1
<1>3. q >= 0
  <2>1. b * q > -1 * b
    BY <1>1, <1>2
  <2> QED
    BY <1>1, <2>1, FactorBounds
<1>4. a > 0 => q >= 1
  <2>1. a > 0 => b * q > 0
    BY <1>1, <1>2
  <2> QED
    BY <1>1, <2>1, FactorBounds
<1> QED
  BY <1>1, <1>2, <1>3, <1>4 DEF q, CeilDiv

\* The share of m of m * q + r when r of them get one more.
LEMMA CeilDivShare ==
  ASSUME NEW m \in Nat \ {0}, NEW q \in Nat, NEW r \in 0 .. m - 1
  PROVE  CeilDiv(m * q + r, m) = q + (IF r > 0 THEN 1 ELSE 0)
<1>1. m * q \in Nat /\ m * (q + 1) = m * q + m
  OBVIOUS
<1>2. CASE r > 0
  <2>1. m * (q + 1) <= m * q + r + m - 1 /\ m * q + r + m - 1 < m * (q + 1) + m
    BY <1>1, <1>2
  <2>2. (m * q + r + m - 1) \div m = q + 1
    BY <1>1, <2>1, DivUnique
  <2> QED
    BY <1>2, <2>2 DEF CeilDiv
<1>3. CASE r = 0
  <2>1. m * q <= m * q + r + m - 1 /\ m * q + r + m - 1 < m * q + m
    BY <1>1, <1>3
  <2>2. (m * q + r + m - 1) \div m = q
    BY <1>1, <2>1, DivUnique
  <2> QED
    BY <1>3, <2>2 DEF CeilDiv
<1> QED
  BY <1>2, <1>3

\* The printed sum is the sum of the printed numbers, but for one unit.
LEMMA PrintedSum ==
  ASSUME NEW a \in Nat, NEW b \in Nat, NEW n \in Nat \ {0}
  PROVE  /\ Printed(a, n) \in Nat
         /\ Printed(a + b, n) - (Printed(a, n) + Printed(b, n)) \in -1 .. 1
         /\ (Printed(a, n) + Printed(b, n)) - Printed(a + b, n) \in -1 .. 1
<1> DEFINE m == 2 * n
           x == (2 * a + n) \div m
           y == (2 * b + n) \div m
           z == (2 * (a + b) + n) \div m
<1>0. m \in Nat \ {0} /\ m = 2 * n
  OBVIOUS
<1>d. Printed(a, n) = x /\ Printed(b, n) = y /\ Printed(a + b, n) = z
  BY DEF Printed
<1> HIDE DEF m
<1>q. \A c \in Int : /\ c \div m \in Int /\ m * (c \div m) <= c /\ c < m * (c \div m) + m
  BY <1>0, DivBounds
<1>1. /\ x \in Int /\ m * x <= 2 * a + n /\ 2 * a + n < m * x + m
      /\ y \in Int /\ m * y <= 2 * b + n /\ 2 * b + n < m * y + m
      /\ z \in Int /\ m * z <= 2 * (a + b) + n /\ 2 * (a + b) + n < m * z + m
  <2>1. 2 * a + n \in Int /\ 2 * b + n \in Int /\ 2 * (a + b) + n \in Int
    OBVIOUS
  <2> QED
    BY <1>q, <2>1, Zenon
<1> HIDE DEF x, y, z
<1>2. m * (z - (x + y)) = m * z - m * x - m * y /\ m * x \in Int /\ m * y \in Int /\ m * z \in Int
  BY <1>0, <1>1
<1>3. z - (x + y) <= 1 /\ z - (x + y) >= -1
  <2>1. m * (z - (x + y)) < 2 * m /\ m * (z - (x + y)) > -2 * m
    BY <1>0, <1>1, <1>2
  <2> QED
    BY <1>0, <1>1, <2>1, FactorBounds
<1>4. x >= 0
  <2>1. m * x > -1 * m
    BY <1>0, <1>1, <1>2
  <2> QED
    BY <1>0, <1>1, <2>1, FactorBounds
<1> QED
  BY <1>1, <1>3, <1>4, <1>d

\* A whole number is printed as it is.
LEMMA PrintedWhole ==
  ASSUME NEW d \in Nat, NEW n \in Nat \ {0}
  PROVE  Printed(d * n, n) = d /\ Printed(0, n) = 0
<1>1. d * n \in Nat /\ (2 * n) * d = 2 * (d * n) /\ (2 * n) * 0 = 0
  OBVIOUS
<1>2. (2 * (d * n) + n) \div (2 * n) = d
  BY <1>1, DivUnique
<1>3. (2 * 0 + n) \div (2 * n) = 0
  BY <1>1, DivUnique
<1> QED
  BY <1>2, <1>3 DEF Printed

\* Max and Min of the small sets they are used for.
LEMMA MaxOfThree ==
  ASSUME NEW a \in Nat, NEW b \in Nat, NEW c \in Nat
  PROVE  Max({a, b, c}) \in {a, b, c} /\ \A x \in {a, b, c} : x <= Max({a, b, c})
<1>1. \E x \in {a, b, c} : \A y \in {a, b, c} : x >= y
  <2>1. CASE a >= b /\ a >= c
    BY <2>1
  <2>2. CASE b >= a /\ b >= c
    BY <2>2
  <2>3. CASE c >= a /\ c >= b
    BY <2>3
  <2> QED
    BY <2>1, <2>2, <2>3
<1>2. Max({a, b, c}) \in {a, b, c} /\ \A y \in {a, b, c} : Max({a, b, c}) >= y
  BY <1>1, Zenon DEF Max
<1> QED
  BY <1>2

\* The smaller of two numbers.
LEMMA MinOfTwo ==
  ASSUME NEW a \in Nat, NEW b \in Nat
  PROVE  Min({a, b}) = IF a <= b THEN a ELSE b
<1>1. \E x \in {a, b} : \A y \in {a, b} : x =< y
  <2>1. CASE a <= b
    BY <2>1
  <2>2. CASE b <= a
    BY <2>2
  <2> QED
    BY <2>1, <2>2
<1>2. Min({a, b}) \in {a, b} /\ \A y \in {a, b} : Min({a, b}) =< y
  BY <1>1, Zenon DEF Min
<1> QED
  BY <1>2

-----------------------------------------------------------------------------
(* split_video. *)

RequestOK == request \in Requests

\* The fields of a request.
LEMMA RequestFields ==
  ASSUME RequestOK
  PROVE  /\ request.fake \in BOOLEAN /\ request.duration \in Nat \ {0} /\ request.size \in Nat
         /\ request.target_duration \in Nat /\ request.target_size \in Nat
         /\ request.max_segments \in Nat
BY EngineAssumption DEF RequestOK

\* The number of segments of a bounded split: at least one, no more than allowed,
\* and enough for the targets unless that is too many.
LEMMA SplitCountBounds ==
  ASSUME RequestOK
  PROVE  /\ SplitCount \in Nat \ {0}
         /\ request.max_segments > 0 => SplitCount <= request.max_segments
         /\ request.max_segments > 0 /\ SplitCount < request.max_segments =>
              /\ request.target_duration > 0 =>
                   request.duration <= SplitCount * request.target_duration
              /\ request.target_size > 0 => request.size <= SplitCount * request.target_size
<1> DEFINE byDuration == IF request.target_duration > 0
                         THEN CeilDiv(request.duration, request.target_duration) ELSE 1
           bySize == IF request.target_size > 0 /\ request.size > 0
                     THEN CeilDiv(request.size, request.target_size) ELSE 1
           wanted == Max({1, byDuration, bySize})
<1>0. /\ request.duration \in Nat /\ request.size \in Nat
      /\ request.target_duration \in Nat /\ request.target_size \in Nat
      /\ request.max_segments \in Nat
  BY RequestFields
<1>1. /\ byDuration \in Nat
      /\ request.target_duration > 0 => request.duration <= byDuration * request.target_duration
  BY <1>0, CeilDivBounds
<1>2. /\ bySize \in Nat
      /\ request.target_size > 0 /\ request.size > 0 =>
           request.size <= bySize * request.target_size
  BY <1>0, CeilDivBounds
<1>3. SplitCount = IF request.max_segments > 0 THEN Min({wanted, request.max_segments}) ELSE wanted
  BY DEF SplitCount
<1> HIDE DEF byDuration, bySize
<1>4. wanted \in Nat /\ wanted >= 1 /\ wanted >= byDuration /\ wanted >= bySize
  BY <1>1, <1>2, MaxOfThree
<1> HIDE DEF wanted
<1>5. /\ SplitCount \in Nat \ {0}
      /\ request.max_segments > 0 => SplitCount <= request.max_segments
      /\ request.max_segments > 0 /\ SplitCount < request.max_segments => SplitCount = wanted
  BY <1>0, <1>3, <1>4, MinOfTwo
<1>6. \A a, b, c \in Nat : a <= b => a * c <= b * c /\ a * c \in Nat /\ b * c \in Nat
  OBVIOUS
<1>7. request.target_duration > 0 => request.duration <= wanted * request.target_duration
  BY <1>0, <1>1, <1>4, <1>6
<1>8. request.target_size > 0 => request.size <= wanted * request.target_size
  <2>1. wanted * request.target_size \in Nat
    BY <1>0, <1>4
  <2>2. CASE request.size > 0
    BY <1>0, <1>2, <1>4, <1>6, <2>2
  <2> QED
    BY <1>0, <2>1, <2>2
<1> QED
  BY <1>5, <1>7, <1>8

\* The fake split has at least one segment.
LEMMA FakeSegmentsBounds ==
  ASSUME RequestOK
  PROVE  FakeSegments \in Nat \ {0}
<1>1. request.size \in Nat /\ request.target_size \in Nat /\ request.max_segments \in Nat
  BY RequestFields
<1>2. request.target_size > 0 /\ request.size > 0 => CeilDiv(request.size, request.target_size) \in Nat \ {0}
  BY <1>1, CeilDivBounds
<1> QED
  BY <1>1, <1>2 DEF FakeSegments

\* Every fake segment has this many bytes, and the first Rest of them one more.
Whole == request.size \div FakeSegments
Rest == request.size - FakeSegments * Whole
Lesser(a, b) == IF a < b THEN a ELSE b
Share(i) ==
  [index |-> i, start |-> i * Whole + Lesser(i, Rest), length |-> Whole + (IF i < Rest THEN 1 ELSE 0)]

\* What the remaining segments get of the remaining bytes is what everybody gets.
LEMMA RemainingShare ==
  ASSUME RequestOK, NEW i \in 0 .. FakeSegments - 1
  PROVE  /\ Whole \in Nat /\ Rest \in 0 .. FakeSegments - 1
         /\ request.size = FakeSegments * Whole + Rest
         /\ ByteRange(i, i * Whole + Lesser(i, Rest)) = Share(i)
         /\ Share(i).start + Share(i).length = (i + 1) * Whole + Lesser(i + 1, Rest)
<1>1. FakeSegments \in Nat \ {0} /\ request.size \in Nat
  BY FakeSegmentsBounds, RequestFields
<1>2. /\ Whole \in Int /\ FakeSegments * Whole <= request.size
      /\ request.size < FakeSegments * Whole + FakeSegments
  <2>1. request.size \in Int
    BY <1>1
  <2> QED
    BY <1>1, <2>1, DivBounds, Zenon DEF Whole
<1>3. Whole \in Nat
  <2>1. FakeSegments * Whole > -1 * FakeSegments
    BY <1>1, <1>2
  <2> QED
    BY <1>1, <1>2, <2>1, FactorBounds
<1>4. FakeSegments * Whole \in Nat
  BY <1>1, <1>3
<1>5. Rest \in 0 .. FakeSegments - 1 /\ request.size = FakeSegments * Whole + Rest
  BY <1>1, <1>2, <1>4 DEF Rest
<1>6. i * Whole \in Nat /\ (i + 1) * Whole = i * Whole + Whole
  BY <1>1, <1>3
<1> DEFINE m == FakeSegments - i
           r == Rest - Lesser(i, Rest)
<1>7. m \in Nat \ {0} /\ r \in 0 .. m - 1 /\ (r > 0 <=> i < Rest)
  BY <1>1, <1>5 DEF Lesser
<1>8. m * Whole = FakeSegments * Whole - i * Whole
  BY <1>1, <1>3
<1>9. request.size - (i * Whole + Lesser(i, Rest)) = m * Whole + r
  <2>1. Lesser(i, Rest) \in Int
    BY <1>1, <1>5 DEF Lesser
  <2> QED
    BY <1>4, <1>5, <1>6, <1>8, <2>1
<1>10. CeilDiv(request.size - (i * Whole + Lesser(i, Rest)), FakeSegments - i)
         = Whole + (IF i < Rest THEN 1 ELSE 0)
  <2>1. CeilDiv(m * Whole + r, m) = Whole + (IF r > 0 THEN 1 ELSE 0)
    BY <1>3, <1>7, CeilDivShare
  <2> QED
    BY <1>7, <1>9, <2>1
<1>11. ByteRange(i, i * Whole + Lesser(i, Rest)) = Share(i)
  BY <1>10 DEF ByteRange, Share
<1>12. Share(i).start + Share(i).length = (i + 1) * Whole + Lesser(i + 1, Rest)
  BY <1>1, <1>3, <1>5, <1>6 DEF Share, Lesser
<1> QED
  BY <1>3, <1>5, <1>11, <1>12

Pieces == [index : Nat, start : Nat, length : Nat]

\* The piece of segment i of a split that is not left to the muxer.
Piece(i) == IF request.fake THEN Share(i) ELSE Window(i, SplitCount)

SplitInv ==
  /\ RequestOK
  /\ split \in {"parse", "running", "completed", "failed"}
  /\ pieces \in Seq(Pieces)
  /\ split = "parse" => pieces = <<>>
  /\ split \in {"running", "completed"} /\ ~Muxed =>
       /\ \A k \in 1 .. Len(pieces) : pieces[k] = Piece(k - 1)
       /\ IF split = "completed" THEN Len(pieces) = Wanted ELSE Len(pieces) < Wanted
  /\ split = "completed" => \A k \in 1 .. Len(pieces) : pieces[k].index = k - 1

\* There is at least one segment to make.
LEMMA WantedBounds ==
  ASSUME RequestOK
  PROVE  Wanted \in Nat \ {0} /\ (request.fake => Wanted = FakeSegments) /\ (~request.fake => Wanted = SplitCount)
BY SplitCountBounds, FakeSegmentsBounds, RequestFields DEF Wanted

\* A piece covers natural numbers of bytes or time.
LEMMA PieceType ==
  ASSUME RequestOK, NEW i \in 0 .. Wanted - 1
  PROVE  Piece(i) \in Pieces /\ Piece(i).index = i
<1>1. i \in Nat /\ Wanted \in Nat
  BY WantedBounds
<1>2. CASE request.fake
  <2>1. Whole \in Nat /\ Rest \in Nat
    BY <1>2, WantedBounds, RemainingShare
  <2>2. i * Whole \in Nat
    BY <1>1, <2>1
  <2> QED
    BY <1>1, <1>2, <2>1, <2>2 DEF Piece, Pieces, Share, Lesser
<1>3. CASE ~request.fake
  <2>1. SplitCount \in Nat \ {0} /\ request.duration \in Nat /\ request.duration * i \in Nat
    BY <1>1, SplitCountBounds, RequestFields
  <2>2. Printed(request.duration, SplitCount) \in Nat /\ Printed(request.duration * i, SplitCount) \in Nat
    BY <2>1, PrintedSum
  <2> QED
    BY <1>1, <1>3, <2>2 DEF Piece, Pieces, Window
<1> QED
  BY <1>2, <1>3, RequestFields

\* The piece that SplitSegment adds.
LEMMA NextPiece ==
  ASSUME SplitInv, split = "running", ~Muxed
  PROVE  LET i == Len(pieces)
         IN  (IF request.fake THEN ByteRange(i, Covered) ELSE Window(i, SplitCount)) = Piece(i)
<1> DEFINE i == Len(pieces)
<1>1. i \in Nat /\ i < Wanted /\ Wanted \in Nat /\ (pieces # <<>> => i >= 1)
  BY WantedBounds DEF SplitInv
<1>2. CASE request.fake
  <2>1. i \in 0 .. FakeSegments - 1
    BY <1>1, <1>2, WantedBounds DEF SplitInv
  <2>2. Covered = i * Whole + Lesser(i, Rest)
    <3>1. CASE pieces = <<>>
      <4>1. Whole \in Nat /\ Rest \in Nat
        BY <2>1, RemainingShare DEF SplitInv
      <4>2. i = 0 /\ Covered = 0
        BY <3>1 DEF Covered
      <4> QED
        BY <4>1, <4>2 DEF Lesser
    <3>2. CASE pieces # <<>>
      <4>1. i \in 1 .. Len(pieces) /\ i - 1 \in 0 .. FakeSegments - 1 /\ (i - 1) + 1 = i
        BY <1>1, <1>2, <2>1, <3>2, WantedBounds DEF SplitInv
      <4>2. pieces[i] = Share(i - 1)
        BY <1>2, <4>1 DEF SplitInv, Piece
      <4>3. Share(i - 1).start + Share(i - 1).length = i * Whole + Lesser(i, Rest)
        <5> DEFINE j == i - 1
        <5>1. Share(j).start + Share(j).length = (j + 1) * Whole + Lesser(j + 1, Rest)
          BY <4>1, RemainingShare DEF SplitInv
        <5>2. j + 1 = i
          BY <4>1
        <5> QED
          BY <5>1, <5>2
      <4> QED
        BY <3>2, <4>2, <4>3 DEF Covered, Last
    <3> QED
      BY <3>1, <3>2
  <2>3. ByteRange(i, Covered) = Share(i)
    BY <2>1, <2>2, RemainingShare DEF SplitInv
  <2> QED
    BY <1>2, <2>3 DEF Piece
<1>3. CASE ~request.fake
  BY <1>3 DEF Piece
<1> QED
  BY <1>2, <1>3

\* The definitions that look at the request alone.
LEMMA RequestFrame ==
  ASSUME UNCHANGED request
  PROVE  /\ RequestOK' <=> RequestOK
         /\ Muxed' <=> Muxed
         /\ Wanted' = Wanted /\ \A i : Piece(i)' = Piece(i)
<1>1. SplitCount' = SplitCount /\ FakeSegments' = FakeSegments
  BY Zenon DEF SplitCount, FakeSegments
<1>2. \A i : Share(i)' = Share(i) /\ Window(i, SplitCount)' = Window(i, SplitCount)
  BY <1>1, Zenon DEF Share, Window, Whole, Rest
<1> QED
  BY <1>1, <1>2 DEF RequestOK, Muxed, Wanted, Piece

\* The muxer's files are numbered without a gap, or refused.
LEMMA CollectNumbers ==
  ASSUME NEW found \in MuxerOutputs
  PROVE  /\ Len(Collect(found)) \in Nat
         /\ \A k \in 1 .. Len(Collect(found)) : Collect(found)[k] = k - 1
<1>1. Cardinality(found) \in Nat
  BY EngineAssumption, FS_CardinalityType
<1>2. CASE \A k \in 1 .. Cardinality(found) : Sorted(found)[k] = k - 1
  <2>1. Collect(found) = [k \in 1 .. Cardinality(found) |-> k - 1]
    BY <1>2 DEF Collect
  <2> QED
    BY <1>1, <2>1
<1>3. CASE ~(\A k \in 1 .. Cardinality(found) : Sorted(found)[k] = k - 1)
  <2>1. Collect(found) = <<>>
    BY <1>3, Zenon DEF Collect
  <2> QED
    BY <2>1
<1> QED
  BY <1>2, <1>3

\* Each step keeps what is known of the split.
LEMMA SplitStep ==
  ASSUME SplitInv, [EngineNext]_vars
  PROVE  SplitInv'
<1>0. RequestOK /\ Wanted \in Nat \ {0} /\ pieces \in Seq(Pieces) /\ Len(pieces) \in Nat
  BY WantedBounds DEF SplitInv
<1>1. CASE UNCHANGED <<request, split, pieces>>
  BY <1>1, RequestFrame DEF SplitInv
<1>2. CASE StartSplit
  <2>1. /\ split = "parse" /\ pieces = <<>> /\ UNCHANGED <<request, pieces>>
        /\ split' \in {"running", "failed"}
    BY <1>2 DEF StartSplit, SplitInv
  <2> QED
    BY <1>0, <2>1, RequestFrame DEF SplitInv
<1>3. CASE SplitSegment
  <2> DEFINE i == Len(pieces)
  <2>1. /\ split = "running" /\ ~Muxed /\ UNCHANGED request
        /\ pieces' = Append(pieces, Piece(i))
        /\ IF Len(pieces') = Wanted THEN split' = "completed" ELSE UNCHANGED split
    <3>1. split = "running" /\ ~Muxed /\ UNCHANGED request
      BY <1>3 DEF SplitSegment
    <3> QED
      BY <1>3, <3>1, NextPiece DEF SplitSegment, EndSplit
  <2>2. i \in 0 .. Wanted - 1 /\ \A k \in 1 .. i : pieces[k] = Piece(k - 1)
    BY <1>0, <2>1 DEF SplitInv
  <2>3. Piece(i) \in Pieces
    BY <1>0, <2>2, PieceType
  <2>4. /\ pieces' \in Seq(Pieces) /\ Len(pieces') = i + 1
        /\ \A k \in 1 .. Len(pieces') : pieces'[k] = Piece(k - 1)
    BY <1>0, <2>1, <2>2, <2>3
  <2>5. \A k \in 1 .. Len(pieces') : pieces'[k].index = k - 1
    BY <1>0, <2>2, <2>4, PieceType
  <2>6. split' \in {"running", "completed"} /\ (split' = "completed" <=> Len(pieces') = Wanted)
    BY <2>1
  <2> QED
    BY <1>0, <2>1, <2>2, <2>4, <2>5, <2>6, RequestFrame DEF SplitInv
<1>4. ASSUME NEW found \in MuxerOutputs, SplitWithMuxer(found) PROVE SplitInv'
  <2> DEFINE list == [k \in 1 .. Len(Collect(found)) |->
                        [index |-> Collect(found)[k], start |-> 0, length |-> 0]]
  <2>1. /\ Muxed /\ UNCHANGED request
        /\ \/ split' = "failed" /\ UNCHANGED pieces
           \/ split' = "completed" /\ pieces' = list
    BY <1>4 DEF SplitWithMuxer, EndSplit
  <2>2. /\ list \in Seq(Pieces) /\ \A k \in 1 .. Len(list) : list[k].index = k - 1
    BY CollectNumbers DEF Pieces
  <2> QED
    BY <1>0, <2>1, <2>2, RequestFrame DEF SplitInv
<1>5. CASE SplitFails
  <2>1. split' = "failed" /\ pieces' = <<>> /\ UNCHANGED request
    BY <1>5 DEF SplitFails
  <2> QED
    BY <1>0, <2>1, RequestFrame DEF SplitInv
<1> QED
  BY <1>1, <1>2, <1>3, <1>4, <1>5
  DEF EngineNext, vars, OpenSegment, WriteFrame, CloseArtifact, ProcessDies, StartAssemble, OpenInput,
      ReadFrame, AllRead, Encode, AssembleDies, Assembles

\* Before the request is read.
LEMMA SplitStart == EngineInit => SplitInv
BY DEF EngineInit, SplitInv, RequestOK

\* The segments follow the policy of the request, in every state.
LEMMA SplitAlways == EngineSpec => []SplitInv
BY SplitStart, SplitStep, PTL DEF EngineSpec

\* Whatever the duration and the number of segments, the windows cover the video
\* from its start to its end with gaps and overlaps of at most one printed unit.
THEOREM WindowsAlwaysTile == EngineSpec => []WindowsTile
<1>1. SplitInv => WindowsTile
  <2> DEFINE n == SplitCount
             d == request.duration
             end(k) == pieces[k].start + pieces[k].length
  <2> SUFFICES ASSUME SplitInv, split = "completed", ~request.fake, ~Muxed
               PROVE  /\ pieces[1].start = 0
                      /\ \A k \in 2 .. Len(pieces) : pieces[k].start - end(k - 1) \in -1 .. 1
                      /\ end(Len(pieces)) - d \in -1 .. 1
    BY DEF WindowsTile
  <2>1. n \in Nat \ {0} /\ d \in Nat /\ Len(pieces) = n
    BY SplitCountBounds, RequestFields, WantedBounds DEF SplitInv
  <2>2. \A k \in 1 .. n : /\ pieces[k].start = Printed(d * (k - 1), n)
                          /\ end(k) = Printed(d * (k - 1), n) + Printed(d, n)
    BY <2>1 DEF SplitInv, Piece, Window
  <2> HIDE DEF n, d, end
  <2>3. \A j \in Nat : d * j \in Nat /\ d * j + d = d * (j + 1)
    BY <2>1
  <2>4. pieces[1].start = 0
    <3>1. pieces[1].start = Printed(d * 0, n)
      BY <2>1, <2>2
    <3>2. d * 0 = 0
      BY <2>1
    <3> QED
      BY <2>1, <3>1, <3>2, PrintedWhole
  <2>5. ASSUME NEW k \in 2 .. Len(pieces) PROVE pieces[k].start - end(k - 1) \in -1 .. 1
    <3>1. k \in 1 .. n /\ k - 1 \in 1 .. n /\ k - 2 \in Nat /\ (k - 1) - 1 = k - 2 /\ (k - 2) + 1 = k - 1
      BY <2>1
    <3>2. pieces[k].start = Printed(d * (k - 1), n)
      BY <2>2, <3>1
    <3>3. end(k - 1) = Printed(d * (k - 2), n) + Printed(d, n)
      BY <2>2, <3>1
    <3>4. d * (k - 2) \in Nat /\ d * (k - 2) + d = d * (k - 1)
      BY <2>3, <3>1
    <3> QED
      BY <2>1, <3>2, <3>3, <3>4, PrintedSum
  <2>6. end(Len(pieces)) - d \in -1 .. 1
    <3>1. end(n) = Printed(d * (n - 1), n) + Printed(d, n)
      BY <2>1, <2>2
    <3>2. d * (n - 1) \in Nat /\ d * (n - 1) + d = d * n
      BY <2>1, <2>3
    <3>3. Printed(d * n, n) = d
      BY <2>1, PrintedWhole
    <3> QED
      BY <2>1, <3>1, <3>2, <3>3, PrintedSum
  <2> QED
    BY <2>4, <2>5, <2>6
<1> QED
  BY <1>1, SplitAlways, PTL

\* Every split numbers its segments without a gap and keeps to its policy.
THEOREM SplitsFollowPolicy == EngineSpec => []SplitFollowsPolicy
<1>1. SplitInv => SplitFollowsPolicy
  <2> SUFFICES ASSUME SplitInv, split = "completed", ~request.fake, ~Muxed
               PROVE  /\ Len(pieces) <= request.max_segments
                      /\ Len(pieces) < request.max_segments =>
                           /\ request.target_duration > 0 =>
                                request.duration <= Len(pieces) * request.target_duration
                           /\ request.target_size > 0 =>
                                request.size <= Len(pieces) * request.target_size
    BY DEF SplitFollowsPolicy, SplitInv
  <2>1. request.max_segments > 0 /\ Len(pieces) = SplitCount
    BY RequestFields, WantedBounds DEF SplitInv, Muxed
  <2> QED
    BY <2>1, SplitCountBounds DEF SplitInv
<1> QED
  BY <1>1, SplitAlways, PTL

\* The fake split hands out every byte once, in shares that differ by at most one.
THEOREM BytesArePartitioned == EngineSpec => []BytesPartitioned
<1>1. SplitInv => BytesPartitioned
  <2> SUFFICES ASSUME SplitInv, split = "completed", request.fake
               PROVE  /\ \A k \in 2 .. Len(pieces) :
                           pieces[k].start = pieces[k - 1].start + pieces[k - 1].length
                      /\ Covered = request.size
                      /\ \A k, l \in 1 .. Len(pieces) : pieces[k].length - pieces[l].length <= 1
    BY DEF BytesPartitioned
  <2>1. Len(pieces) = FakeSegments /\ FakeSegments \in Nat \ {0} /\ pieces # <<>>
    BY WantedBounds, FakeSegmentsBounds DEF SplitInv, Muxed
  <2>2. \A k \in 1 .. Len(pieces) : pieces[k] = Share(k - 1)
    BY DEF SplitInv, Muxed, Piece
  <2>3. /\ Whole \in Nat /\ Rest \in 0 .. FakeSegments - 1
        /\ request.size = FakeSegments * Whole + Rest
    <3>1. 0 \in 0 .. FakeSegments - 1
      BY <2>1
    <3> QED
      BY <3>1, RemainingShare DEF SplitInv
  <2>4. ASSUME NEW k \in 1 .. Len(pieces)
        PROVE  pieces[k].start + pieces[k].length = k * Whole + Lesser(k, Rest)
    <3> DEFINE j == k - 1
    <3>1. j \in 0 .. FakeSegments - 1 /\ j + 1 = k
      BY <2>1
    <3>2. Share(j).start + Share(j).length = (j + 1) * Whole + Lesser(j + 1, Rest)
      BY <3>1, RemainingShare DEF SplitInv
    <3> QED
      BY <2>2, <3>1, <3>2
  <2>5. ASSUME NEW k \in 2 .. Len(pieces)
        PROVE  pieces[k].start = pieces[k - 1].start + pieces[k - 1].length
    <3>1. k \in 1 .. Len(pieces) /\ k - 1 \in 1 .. Len(pieces)
      BY <2>1
    <3>2. pieces[k].start = (k - 1) * Whole + Lesser(k - 1, Rest)
      <4>1. pieces[k] = Share(k - 1)
        BY <2>2, <3>1
      <4>2. Share(k - 1).start = (k - 1) * Whole + Lesser(k - 1, Rest)
        BY Zenon DEF Share
      <4> QED
        BY <4>1, <4>2
    <3> QED
      BY <2>4, <3>1, <3>2
  <2>6. Covered = request.size
    <3>1. Covered = FakeSegments * Whole + Lesser(FakeSegments, Rest)
      BY <2>1, <2>4 DEF Covered, Last
    <3> QED
      BY <2>1, <2>3, <3>1 DEF Lesser
  <2>7. \A k \in 1 .. Len(pieces) : pieces[k].length \in {Whole, Whole + 1}
    BY <2>1, <2>2, <2>3 DEF Share
  <2>8. \A k, l \in 1 .. Len(pieces) : pieces[k].length - pieces[l].length <= 1
    BY <2>3, <2>7
  <2> QED
    BY <2>5, <2>6, <2>8
<1> QED
  BY <1>1, SplitAlways, PTL

-----------------------------------------------------------------------------
(* process_segment. *)

FramesUpTo(i, n) == [k \in 1 .. n |-> <<i, k>>]

\* Sequences of frames grow and are cut as expected.
LEMMA FramesUpToFacts ==
  ASSUME NEW i, NEW n \in Nat
  PROVE  /\ Len(FramesUpTo(i, n)) = n /\ FramesUpTo(i, 0) = <<>>
         /\ Append(FramesUpTo(i, n), <<i, n + 1>>) = FramesUpTo(i, n + 1)
         /\ \A m \in 0 .. n : SubSeq(FramesUpTo(i, n), 1, m) = FramesUpTo(i, m)
         /\ \A m \in 1 .. n : FramesUpTo(i, n)[m] = <<i, m>>
<1>1. /\ FramesUpTo(i, n) \in Seq({<<i, k>> : k \in Nat}) /\ Len(FramesUpTo(i, n)) = n
      /\ FramesUpTo(i, 0) = <<>>
  BY DEF FramesUpTo
<1>2. Append(FramesUpTo(i, n), <<i, n + 1>>) = FramesUpTo(i, n + 1)
  BY DEF FramesUpTo
<1>3. \A m \in 0 .. n : SubSeq(FramesUpTo(i, n), 1, m) = FramesUpTo(i, m)
  BY DEF FramesUpTo
<1>4. \A m \in 1 .. n : FramesUpTo(i, n)[m] = <<i, m>>
  BY DEF FramesUpTo
<1> QED
  BY <1>1, <1>2, <1>3, <1>4

\* They are sequences of pairs.
LEMMA FramesUpToType ==
  ASSUME NEW i \in Nat, NEW n \in Nat
  PROVE  FramesUpTo(i, n) \in Seq(Nat \X Nat)
BY DEF FramesUpTo

\* The segments there are files of.
Files == IF split = "completed" THEN Indexes ELSE {}

Artifacts == [header : BOOLEAN, frame_count : Nat, frames : Seq(Nat \X Nat)]

\* An artifact with other frames.
LEMMA ArtifactFrames ==
  ASSUME NEW file \in Artifacts, NEW list \in Seq(Nat \X Nat)
  PROVE  LET changed == [file EXCEPT !.frames = list]
         IN  /\ changed \in Artifacts /\ changed.frames = list
             /\ changed.frame_count = file.frame_count /\ changed.header = file.header
BY DEF Artifacts

\* What is known of one segment: the artifact is the beginning of what its header
\* announces, and all of it once the segment is reported complete.
SegmentOK(i) ==
  /\ \E n \in 0 .. artifact[i].frame_count : artifact[i].frames = FramesUpTo(i, n)
  /\ IF process[i] = "none" THEN artifact[i] = NoArtifact ELSE source[i] \in SegmentFiles
  /\ process[i] = "writing" => artifact[i].header
  /\ artifact[i].header => artifact[i].frame_count = Expected(source[i])
  /\ process[i] = "completed" =>
       artifact[i].header /\ artifact[i].frames = FramesUpTo(i, artifact[i].frame_count)

ArtifactsInv ==
  /\ process \in [Files -> ProcessPoints]
  /\ source \in [Files -> SegmentFiles \cup {{}}]
  /\ artifact \in [Files -> Artifacts]
  /\ \A i \in Files : SegmentOK(i)

\* A segment that a step leaves alone.
LEMMA SegmentFrame ==
  ASSUME NEW i, SegmentOK(i), artifact'[i] = artifact[i], process'[i] = process[i], source'[i] = source[i]
  PROVE  SegmentOK(i)'
BY DEF SegmentOK

\* The artifacts follow their headers, step by step.
LEMMA ArtifactsStep ==
  ASSUME SplitInv, ArtifactsInv, [EngineNext]_vars
  PROVE  ArtifactsInv'
<1>0. Len(pieces) \in Nat /\ Files \subseteq Nat
  BY DEF SplitInv, Files, Indexes
<1>1. CASE UNCHANGED <<split, pieces, process, source, artifact>>
  <2>1. Files' = Files
    BY <1>1 DEF Files, Indexes
  <2>2. \A i \in Files : SegmentOK(i)'
    BY <1>1, SegmentFrame DEF ArtifactsInv
  <2> QED
    BY <1>1, <2>1, <2>2 DEF ArtifactsInv
<1>2. CASE split # "completed" /\ split' # "completed" /\ UNCHANGED <<process, source, artifact>>
  <2>1. Files = {} /\ Files' = {}
    BY <1>2 DEF Files
  <2> QED
    BY <1>2, <2>1 DEF ArtifactsInv
<1>3. ASSUME NEW list \in Seq(Pieces), pieces' = list, EndSplit(list) PROVE ArtifactsInv'
  <2>1. Files' = 0 .. Len(list) - 1 /\ Files' \subseteq Nat
    BY <1>3 DEF EndSplit, Files, Indexes
  <2>2. /\ process' = [i \in Files' |-> "none"] /\ source' = [i \in Files' |-> {}]
        /\ artifact' = [i \in Files' |-> NoArtifact]
    BY <1>3, <2>1 DEF EndSplit
  <2>3. NoArtifact \in Artifacts
    BY DEF NoArtifact, Artifacts
  <2>4. ASSUME NEW i \in Files' PROVE SegmentOK(i)'
    <3>1. /\ NoArtifact.frames = FramesUpTo(i, 0) /\ NoArtifact.frame_count = 0
          /\ NoArtifact.header = FALSE
      BY FramesUpToFacts DEF NoArtifact
    <3>2. process'[i] = "none" /\ artifact'[i] = NoArtifact
      BY <2>2
    <3>3. \E n \in 0 .. NoArtifact.frame_count : NoArtifact.frames = FramesUpTo(i, n)
      BY <3>1
    <3> QED
      BY <3>1, <3>2, <3>3 DEF SegmentOK
  <2> QED
    BY <2>2, <2>3, <2>4 DEF ArtifactsInv, ProcessPoints
<1>4. ASSUME NEW i \in DOMAIN process, UNCHANGED <<split, pieces>>,
             NEW point \in ProcessPoints, process' = [process EXCEPT ![i] = point],
             NEW file \in SegmentFiles \cup {{}}, source' = [source EXCEPT ![i] = file],
             NEW result \in Artifacts, artifact' = [artifact EXCEPT ![i] = result],
             SegmentOK(i)'
      PROVE  ArtifactsInv'
  <2>1. Files' = Files /\ i \in Files
    BY <1>4 DEF Files, Indexes, ArtifactsInv
  <2>2. \A j \in Files : j # i => SegmentOK(j)'
    <3> SUFFICES ASSUME NEW j \in Files, j # i PROVE SegmentOK(j)'
      OBVIOUS
    <3>1. artifact'[j] = artifact[j] /\ process'[j] = process[j] /\ source'[j] = source[j]
      BY <1>4 DEF ArtifactsInv
    <3> QED
      BY <3>1, SegmentFrame DEF ArtifactsInv
  <2> QED
    BY <1>4, <2>1, <2>2 DEF ArtifactsInv
<1>5. ASSUME NEW i \in DOMAIN process
      PROVE  /\ i \in Files /\ i \in Nat /\ SegmentOK(i) /\ artifact[i] \in Artifacts
             /\ source[i] \in SegmentFiles \cup {{}} /\ process[i] \in ProcessPoints
             /\ DOMAIN source = Files /\ DOMAIN artifact = Files /\ DOMAIN process = Files
  BY <1>0 DEF ArtifactsInv
<1>6. ASSUME NEW i \in DOMAIN process, NEW file \in SegmentFiles, OpenSegment(i, file) PROVE ArtifactsInv'
  <2>1. /\ process[i] = "none" /\ source' = [source EXCEPT ![i] = file] /\ UNCHANGED <<split, pieces>>
        /\ artifact[i] = NoArtifact /\ source'[i] = file
    BY <1>5, <1>6 DEF OpenSegment, SegmentOK
  <2>2. Expected(file) \in Int /\ NoArtifact.frames = FramesUpTo(i, 0) /\ NoArtifact \in Artifacts
    BY EngineAssumption, FramesUpToFacts DEF Expected, NoArtifact, Artifacts
  <2>3. CASE Expected(file) > 0
    <3> DEFINE started == [header |-> TRUE, frame_count |-> Expected(file), frames |-> <<>>]
    <3>1. /\ process' = [process EXCEPT ![i] = "writing"]
          /\ artifact' = [artifact EXCEPT ![i] = started]
      BY <1>6, <2>3 DEF OpenSegment, Becomes
    <3>2. started \in Artifacts
      BY <2>2, <2>3 DEF Artifacts
    <3>3. process'[i] = "writing" /\ artifact'[i] = started
      BY <1>5, <3>1
    <3>4. \E n \in 0 .. started.frame_count : started.frames = FramesUpTo(i, n)
      BY <2>2, <2>3, FramesUpToFacts
    <3>5. SegmentOK(i)'
      BY <2>1, <3>3, <3>4 DEF SegmentOK
    <3> QED
      BY <1>4, <2>1, <3>1, <3>2, <3>5 DEF ProcessPoints
  <2>4. CASE ~(Expected(file) > 0)
    <3>1. process' = [process EXCEPT ![i] = "failed"] /\ UNCHANGED artifact
      BY <1>6, <2>4 DEF OpenSegment, Becomes
    <3>2. artifact' = [artifact EXCEPT ![i] = NoArtifact] /\ artifact'[i] = NoArtifact /\ process'[i] = "failed"
      BY <1>5, <2>1, <3>1 DEF ArtifactsInv
    <3>3. NoArtifact.header = FALSE /\ \E n \in 0 .. NoArtifact.frame_count : NoArtifact.frames = FramesUpTo(i, n)
      BY <2>2 DEF NoArtifact
    <3>4. SegmentOK(i)'
      BY <2>1, <3>2, <3>3 DEF SegmentOK
    <3> QED
      BY <1>4, <2>1, <2>2, <3>1, <3>2, <3>4 DEF ProcessPoints
  <2> QED
    BY <2>3, <2>4
<1>7. ASSUME NEW i \in DOMAIN process, WriteFrame(i) PROVE ArtifactsInv'
  <2>1. /\ process[i] = "writing" /\ UNCHANGED <<split, pieces, process, source>>
        /\ artifact' = [artifact EXCEPT ![i].frames = Append(@, <<i, Len(@) + 1>>)]
        /\ Len(artifact[i].frames) < Min({source[i].frames, artifact[i].frame_count})
    BY <1>7 DEF WriteFrame, MoreFrames
  <2>2. PICK n \in 0 .. artifact[i].frame_count : artifact[i].frames = FramesUpTo(i, n)
    BY <1>5 DEF SegmentOK
  <2>3. source[i].frames \in Nat /\ artifact[i].frame_count \in Nat
    BY <1>5, <2>1, EngineAssumption DEF SegmentOK, Artifacts
  <2>4. n \in Nat /\ n + 1 \in 0 .. artifact[i].frame_count /\ Len(artifact[i].frames) = n
    <3>1. n \in Nat
      BY <2>3
    <3>2. Len(artifact[i].frames) = n
      BY <2>2, <3>1, FramesUpToFacts
    <3>3. Min({source[i].frames, artifact[i].frame_count}) <= artifact[i].frame_count
      BY <2>3, MinOfTwo
    <3>4. Min({source[i].frames, artifact[i].frame_count}) \in Nat
      BY <2>3, MinOfTwo
    <3> QED
      BY <2>1, <2>3, <3>1, <3>2, <3>3, <3>4
  <2> DEFINE result == [artifact[i] EXCEPT !.frames = FramesUpTo(i, n + 1)]
  <2>5. Append(artifact[i].frames, <<i, Len(artifact[i].frames) + 1>>) = FramesUpTo(i, n + 1)
    BY <2>2, <2>4, FramesUpToFacts
  <2>6. artifact' = [artifact EXCEPT ![i] = result]
    BY <2>1, <2>5
  <2>7. /\ result \in Artifacts /\ result.frames = FramesUpTo(i, n + 1)
        /\ result.frame_count = artifact[i].frame_count /\ result.header = artifact[i].header
    BY <1>5, <2>4, FramesUpToType, ArtifactFrames
  <2> HIDE DEF result
  <2>8. artifact'[i] = result /\ process'[i] = "writing" /\ source'[i] = source[i]
    BY <1>5, <2>1, <2>6
  <2>9. SegmentOK(i)'
    <3>1. \E k \in 0 .. result.frame_count : result.frames = FramesUpTo(i, k)
      BY <2>4, <2>7
    <3>2. /\ source[i] \in SegmentFiles /\ artifact[i].header
          /\ artifact[i].frame_count = Expected(source[i])
      BY <1>5, <2>1 DEF SegmentOK
    <3> QED
      BY <2>7, <2>8, <3>1, <3>2 DEF SegmentOK
  <2>10. process' = [process EXCEPT ![i] = "writing"] /\ source' = [source EXCEPT ![i] = source[i]]
    BY <1>5, <2>1 DEF ArtifactsInv
  <2> QED
    BY <1>4, <1>5, <2>1, <2>6, <2>7, <2>9, <2>10 DEF ProcessPoints
<1>8. ASSUME NEW i \in DOMAIN process, CloseArtifact(i) PROVE ArtifactsInv'
  <2> DEFINE point == IF Len(artifact[i].frames) = artifact[i].frame_count THEN "completed" ELSE "failed"
  <2>1. /\ process[i] = "writing" /\ UNCHANGED <<split, pieces, source, artifact>>
        /\ process' = [process EXCEPT ![i] = point]
    BY <1>8 DEF CloseArtifact, Becomes
  <2>2. PICK n \in 0 .. artifact[i].frame_count : artifact[i].frames = FramesUpTo(i, n)
    BY <1>5 DEF SegmentOK
  <2>3. /\ source[i] \in SegmentFiles /\ artifact[i].header
        /\ artifact[i].frame_count = Expected(source[i]) /\ artifact[i].frame_count \in Nat
    BY <1>5, <2>1 DEF SegmentOK, Artifacts
  <2>4. point = "completed" => artifact[i].frames = FramesUpTo(i, artifact[i].frame_count)
    <3>1. n \in Nat
      BY <2>3
    <3>2. Len(artifact[i].frames) = n
      BY <2>2, <3>1, FramesUpToFacts
    <3> QED
      BY <2>2, <3>2
  <2>5. point \in {"completed", "failed"}
    OBVIOUS
  <2> HIDE DEF point
  <2>6. artifact'[i] = artifact[i] /\ process'[i] = point /\ source'[i] = source[i]
    BY <1>5, <2>1
  <2>7. SegmentOK(i)'
    BY <2>2, <2>3, <2>4, <2>5, <2>6 DEF SegmentOK
  <2>8. /\ source' = [source EXCEPT ![i] = source[i]] /\ artifact' = [artifact EXCEPT ![i] = artifact[i]]
    BY <1>5, <2>1 DEF ArtifactsInv
  <2> QED
    BY <1>4, <1>5, <2>1, <2>5, <2>7, <2>8 DEF ProcessPoints
<1>9. ASSUME NEW i \in DOMAIN process, NEW m \in -1 .. Len(artifact[i].frames), ProcessDies(i, m)
      PROVE  ArtifactsInv'
  <2> DEFINE result == IF m = -1 THEN NoArtifact
                       ELSE [artifact[i] EXCEPT !.frames = SubSeq(artifact[i].frames, 1, m)]
  <2>1. /\ process[i] = "writing" /\ UNCHANGED <<split, pieces, source>>
        /\ process' = [process EXCEPT ![i] = "failed"]
        /\ artifact' = [artifact EXCEPT ![i] = result]
    BY <1>9 DEF ProcessDies, Becomes
  <2>2. PICK n \in 0 .. artifact[i].frame_count : artifact[i].frames = FramesUpTo(i, n)
    BY <1>5 DEF SegmentOK
  <2>3. /\ source[i] \in SegmentFiles /\ artifact[i].header
        /\ artifact[i].frame_count = Expected(source[i]) /\ artifact[i].frame_count \in Nat
    BY <1>5, <2>1 DEF SegmentOK, Artifacts
  <2>4. n \in Nat /\ Len(artifact[i].frames) = n
    <3>1. n \in Nat
      BY <2>3
    <3> QED
      BY <2>2, <3>1, FramesUpToFacts
  <2>5. /\ result \in Artifacts
        /\ \E k \in 0 .. result.frame_count : result.frames = FramesUpTo(i, k)
        /\ result.header => result.frame_count = Expected(source[i])
    <3>1. CASE m = -1
      <4>1. result = NoArtifact
        BY <3>1
      <4>2. NoArtifact.frames = FramesUpTo(i, 0) /\ NoArtifact.frame_count = 0 /\ NoArtifact.header = FALSE
        BY FramesUpToFacts DEF NoArtifact
      <4>3. NoArtifact \in Artifacts
        BY DEF NoArtifact, Artifacts
      <4> HIDE DEF result
      <4> QED
        BY <4>1, <4>2, <4>3
    <3>2. CASE m # -1
      <4>1. m \in 0 .. n /\ m \in 0 .. artifact[i].frame_count /\ m \in Nat
        BY <2>3, <2>4, <3>2
      <4>2. SubSeq(artifact[i].frames, 1, m) = FramesUpTo(i, m)
        BY <2>2, <2>4, <4>1, FramesUpToFacts
      <4>3. result = [artifact[i] EXCEPT !.frames = FramesUpTo(i, m)]
        BY <3>2, <4>2
      <4> HIDE DEF result
      <4>4. /\ result \in Artifacts /\ result.frames = FramesUpTo(i, m)
            /\ result.frame_count = artifact[i].frame_count
        BY <1>5, <4>1, <4>3, FramesUpToType, ArtifactFrames
      <4> QED
        BY <2>3, <4>1, <4>4
    <3> QED
      BY <3>1, <3>2
  <2> HIDE DEF result
  <2>6. artifact'[i] = result /\ process'[i] = "failed" /\ source'[i] = source[i]
    BY <1>5, <2>1
  <2>7. SegmentOK(i)'
    BY <2>3, <2>5, <2>6 DEF SegmentOK
  <2>8. source' = [source EXCEPT ![i] = source[i]]
    BY <1>5, <2>1 DEF ArtifactsInv
  <2> QED
    BY <1>4, <1>5, <2>1, <2>5, <2>7, <2>8 DEF ProcessPoints
<1>10. CASE StartSplit \/ SplitFails
  BY <1>2, <1>10 DEF StartSplit, SplitFails, processVars
<1>11. CASE SplitSegment
  <2>1. split = "running" /\ pieces' \in Seq(Pieces)
    <3>1. SplitInv'
      BY SplitStep
    <3> QED
      BY <1>11, <3>1 DEF SplitSegment, SplitInv
  <2>2. \/ EndSplit(pieces')
        \/ UNCHANGED <<split, process, source, artifact>>
    BY <1>11 DEF SplitSegment, processVars
  <2> QED
    BY <1>2, <1>3, <2>1, <2>2
<1>12. ASSUME NEW found \in MuxerOutputs, SplitWithMuxer(found) PROVE ArtifactsInv'
  <2>1. split = "running" /\ pieces' \in Seq(Pieces)
    <3>1. SplitInv'
      BY SplitStep
    <3> QED
      BY <1>12, <3>1 DEF SplitWithMuxer, SplitInv
  <2>2. \/ EndSplit(pieces')
        \/ split' = "failed" /\ UNCHANGED <<process, source, artifact>>
    BY <1>12 DEF SplitWithMuxer, processVars
  <2> QED
    BY <1>2, <1>3, <2>1, <2>2
<1>13. CASE StartAssemble \/ OpenInput \/ ReadFrame \/ AllRead \/ Encode \/ AssembleDies \/ UNCHANGED vars
  BY <1>1, <1>13
  DEF StartAssemble, OpenInput, ReadFrame, AllRead, Encode, AssembleDies, Assembles, processVars, vars
<1> QED
  BY <1>6, <1>7, <1>8, <1>9, <1>10, <1>11, <1>12, <1>13 DEF EngineNext

\* Before the split there are no files.
LEMMA ArtifactsStart == EngineInit => ArtifactsInv
BY DEF EngineInit, ArtifactsInv, Files

\* The artifacts follow their headers, in every state.
LEMMA ArtifactsAlways == EngineSpec => [](SplitInv /\ ArtifactsInv)
BY SplitStart, SplitStep, ArtifactsStart, ArtifactsStep, PTL DEF EngineSpec

\* A segment that is reported complete has every frame its header announces,
\* whatever the container said and wherever other children died.
THEOREM CompletedArtifactsAreWhole == EngineSpec => []CompletedArtifactIsWhole
<1>1. ArtifactsInv => CompletedArtifactIsWhole
  BY DEF ArtifactsInv, CompletedArtifactIsWhole, SegmentOK, FramesUpTo
<1> QED
  BY <1>1, ArtifactsAlways, PTL

-----------------------------------------------------------------------------
(* FlattenSeq.  The induction over the parts is by a least counterexample,  *)
(* because the induction theorems of the library take an operator.          *)

\* A set of natural numbers has a least element.
LEMMA LeastNat ==
  ASSUME NEW S \in SUBSET Nat, S # {}
  PROVE  \E m \in S : \A k \in S : m <= k
<1> DEFINE R == {ss \in Nat \X Nat : ss[1] < ss[2]}
<1>1. IsWellFoundedOn(R, Nat)
  BY NatLessThanWellFounded DEF OpToRel
<1>2. \A k, m \in Nat : k < m => <<k, m>> \in R
  OBVIOUS
<1> HIDE DEF R
<1>3. PICK m \in S : \A k \in S : ~(<<k, m>> \in R)
  BY <1>1, WFMin
<1>4. \A k \in S : ~(k < m)
  BY <1>2, <1>3
<1>5. \A k \in S : m <= k
  BY <1>4
<1> QED
  BY <1>5

\* g has the concatenations of the first parts of s, up to the n-th.
Flattens(s, n, g) == g = [i \in 1 .. n |-> IF i = 1 THEN s[i] ELSE g[i - 1] \o s[i]]

\* There is such a g.
LEMMA FlattenExists ==
  ASSUME NEW s, NEW n \in Nat
  PROVE  \E g : Flattens(s, n, g)
<1> DEFINE Bad == {m \in Nat : ~\E g : Flattens(s, m, g)}
<1> SUFFICES ASSUME Bad # {} PROVE FALSE
  OBVIOUS
<1>1. PICK m \in Bad : \A k \in Bad : m <= k
  BY LeastNat
<1>2. m \in Nat /\ ~\E g : Flattens(s, m, g)
  OBVIOUS
<1>3. CASE m = 0
  <2>1. Flattens(s, 0, <<>>)
    BY DEF Flattens
  <2> QED
    BY <1>2, <1>3, <2>1
<1>4. CASE m > 0
  <2>1. m - 1 \in Nat /\ m - 1 \notin Bad
    BY <1>1, <1>2, <1>4
  <2>2. PICK g : Flattens(s, m - 1, g)
    BY <2>1
  <2> DEFINE last == IF m = 1 THEN s[m] ELSE g[m - 1] \o s[m]
             h == [i \in 1 .. m |-> IF i = m THEN last ELSE g[i]]
  <2>3. \A i \in 1 .. m - 1 : h[i] = g[i] /\ g[i] = IF i = 1 THEN s[i] ELSE g[i - 1] \o s[i]
    <3> SUFFICES ASSUME NEW i \in 1 .. m - 1
                 PROVE  h[i] = g[i] /\ g[i] = IF i = 1 THEN s[i] ELSE g[i - 1] \o s[i]
      OBVIOUS
    <3>1. i \in 1 .. m /\ i # m
      BY <1>2
    <3>2. h[i] = g[i]
      BY <3>1
    <3>3. g = [j \in 1 .. m - 1 |-> IF j = 1 THEN s[j] ELSE g[j - 1] \o s[j]]
      BY <2>2 DEF Flattens
    <3>4. g[i] = IF i = 1 THEN s[i] ELSE g[i - 1] \o s[i]
      BY <3>3, Zenon
    <3> QED
      BY <3>2, <3>4
  <2>4. h[m] = last /\ (m > 1 => h[m - 1] = g[m - 1])
    BY <1>2, <1>4
  <2>5. \A i \in 1 .. m : h[i] = IF i = 1 THEN s[i] ELSE h[i - 1] \o s[i]
    <3> SUFFICES ASSUME NEW i \in 1 .. m
                 PROVE  h[i] = IF i = 1 THEN s[i] ELSE h[i - 1] \o s[i]
      OBVIOUS
    <3>1. CASE i = m
      BY <1>2, <1>4, <2>4, <3>1
    <3>2. CASE i # m
      <4>1. i \in 1 .. m - 1 /\ (i # 1 => i - 1 \in 1 .. m - 1)
        BY <1>2, <3>2
      <4> QED
        BY <2>3, <4>1
    <3> QED
      BY <3>1, <3>2
  <2>6. h = [i \in 1 .. m |-> h[i]]
    OBVIOUS
  <2> HIDE DEF h
  <2>7. Flattens(s, m, h)
    BY <2>5, <2>6 DEF Flattens
  <2> QED
    BY <1>2, <2>7
<1> QED
  BY <1>2, <1>3, <1>4

\* The two have the same first n elements.
Agree(s, t, n) == \A k \in 1 .. n : s[k] = t[k]

\* The concatenations of the same parts are the same.
LEMMA FlattenUnique ==
  ASSUME NEW s, NEW t, NEW n \in Nat, NEW m \in Nat, n <= m, NEW g, NEW h,
         Flattens(s, n, g), Flattens(t, m, h), Agree(s, t, n)
  PROVE  Agree(g, h, n)
<1> DEFINE Bad == {k \in 1 .. n : g[k] # h[k]}
<1> SUFFICES ASSUME Bad # {} PROVE FALSE
  BY DEF Agree
<1>1. PICK k \in Bad : \A l \in Bad : k <= l
  <2>1. Bad \in SUBSET Nat
    OBVIOUS
  <2> QED
    BY <2>1, LeastNat
<1>2. k \in 1 .. n /\ k \in 1 .. m /\ g[k] # h[k] /\ s[k] = t[k]
  BY DEF Agree
<1>3. g[k] = IF k = 1 THEN s[k] ELSE g[k - 1] \o s[k]
  BY <1>2 DEF Flattens
<1>4. h[k] = IF k = 1 THEN t[k] ELSE h[k - 1] \o t[k]
  BY <1>2 DEF Flattens
<1>5. k # 1 => g[k - 1] = h[k - 1]
  BY <1>1, <1>2
<1> QED
  BY <1>2, <1>3, <1>4, <1>5

\* FlattenSeq is the last of the concatenations.
LEMMA FlattenSeqIs ==
  ASSUME NEW s, Len(s) \in Nat, Len(s) # 0
  PROVE  \E g : Flattens(s, Len(s), g) /\ FlattenSeq(s) = g[Len(s)]
<1> DEFINE F == CHOOSE g : g = [i \in 1 .. Len(s) |-> IF i = 1 THEN s[i] ELSE g[i - 1] \o s[i]]
<1>1. \E g : Flattens(s, Len(s), g)
  BY FlattenExists
<1>2. F = [i \in 1 .. Len(s) |-> IF i = 1 THEN s[i] ELSE F[i - 1] \o s[i]]
  BY <1>1, Zenon DEF Flattens
<1>3. FlattenSeq(s) = F[Len(s)]
  BY Zenon DEF FlattenSeq
<1> QED
  BY <1>2, <1>3, Zenon DEF Flattens

\* One part more: its elements are appended.
LEMMA FlattenGrows ==
  ASSUME NEW s, NEW t, Len(s) \in Nat, Len(t) = Len(s) + 1, t[Len(t)] \in Seq(Nat \X Nat),
         Len(s) = 0 => s = <<>>, Agree(s, t, Len(s))
  PROVE  FlattenSeq(t) = FlattenSeq(s) \o t[Len(t)]
<1>0. PICK n \in Nat : n = Len(s) /\ Len(t) = n + 1
  OBVIOUS
<1>1. PICK h : Flattens(t, n + 1, h) /\ FlattenSeq(t) = h[n + 1]
  BY <1>0, FlattenSeqIs
<1>2. h[n + 1] = IF n + 1 = 1 THEN t[n + 1] ELSE h[n] \o t[n + 1]
  <2>1. n + 1 \in 1 .. n + 1 /\ (n + 1) - 1 = n
    OBVIOUS
  <2>2. h = [i \in 1 .. n + 1 |-> IF i = 1 THEN t[i] ELSE h[i - 1] \o t[i]]
    BY <1>1 DEF Flattens
  <2>3. h[n + 1] = IF n + 1 = 1 THEN t[n + 1] ELSE h[(n + 1) - 1] \o t[n + 1]
    BY <2>1, <2>2, Zenon
  <2> QED
    BY <2>1, <2>3, Zenon
<1>3. CASE n = 0
  <2>1. FlattenSeq(s) = <<>>
    BY <1>0, <1>3 DEF FlattenSeq
  <2>2. FlattenSeq(t) = t[n + 1]
    BY <1>1, <1>2, <1>3
  <2> QED
    BY <1>0, <2>1, <2>2
<1>4. CASE n # 0
  <2>1. PICK g : Flattens(s, n, g) /\ FlattenSeq(s) = g[n]
    BY <1>0, <1>4, FlattenSeqIs
  <2>2. g[n] = h[n]
    <3>1. PICK m \in Nat : m = n + 1 /\ n <= m
      OBVIOUS
    <3>2. Flattens(s, n, g) /\ Flattens(t, m, h)
      BY <1>1, <2>1, <3>1, Zenon
    <3>3. Agree(s, t, n)
      BY <1>0
    <3>4. Agree(g, h, n)
      BY <3>1, <3>2, <3>3, FlattenUnique
    <3> QED
      BY <1>4, <3>4 DEF Agree
  <2>3. n + 1 # 1
    BY <1>4
  <2> QED
    BY <1>0, <1>1, <1>2, <2>1, <2>2, <2>3, Zenon
<1> QED
  BY <1>3, <1>4

-----------------------------------------------------------------------------
(* assemble_gif.                                                            *)

\* An element appended at the end of two sequences.
LEMMA AppendConcat ==
  ASSUME NEW S, NEW a \in Seq(S), NEW b \in Seq(S), NEW e \in S
  PROVE  Append(a \o b, e) = a \o Append(b, e)
<1>1. a \o b \in Seq(S) /\ <<e>> \in Seq(S)
  OBVIOUS
<1>2. Append(a \o b, e) = (a \o b) \o <<e>>
  BY <1>1, AppendIsConcat
<1>3. Append(b, e) = b \o <<e>>
  BY AppendIsConcat
<1>4. (a \o b) \o <<e>> = a \o (b \o <<e>>)
  <2>1. PICK c \in Seq(S) : c = <<e>>
    BY <1>1
  <2>2. (a \o b) \o c = a \o (b \o c)
    BY ConcatAssociative
  <2> QED
    BY <2>1, <2>2
<1> QED
  BY <1>2, <1>3, <1>4

\* The frames of the first n segments, as many as their files announce.
Parts(files, n) == [k \in 1 .. n |-> FramesUpTo(k - 1, Expected(files[k - 1]))]
Joined(files, n) == FlattenSeq(Parts(files, n))

\* Sequences given by a function on 1 .. n.
LEMMA PartsFacts ==
  ASSUME NEW files, NEW n \in Nat
  PROVE  /\ Len(Parts(files, n)) = n
         /\ \A k \in 1 .. n : Parts(files, n)[k] = FramesUpTo(k - 1, Expected(files[k - 1]))
         /\ n = 0 => Parts(files, n) = <<>>
BY DEF Parts

\* One segment more.
LEMMA JoinedGrows ==
  ASSUME NEW files, NEW n \in Nat, Expected(files[n]) \in Nat
  PROVE  Joined(files, n + 1) = Joined(files, n) \o FramesUpTo(n, Expected(files[n]))
<1> DEFINE s == Parts(files, n)
           t == Parts(files, n + 1)
<1>1. Len(s) = n /\ (n = 0 => s = <<>>) /\ \A k \in 1 .. n : s[k] = FramesUpTo(k - 1, Expected(files[k - 1]))
  BY PartsFacts
<1>2. Len(t) = n + 1 /\ \A k \in 1 .. n + 1 : t[k] = FramesUpTo(k - 1, Expected(files[k - 1]))
  BY PartsFacts
<1> HIDE DEF s, t
<1>3. n + 1 \in 1 .. n + 1 /\ (n + 1) - 1 = n /\ 1 .. n \subseteq 1 .. n + 1
  OBVIOUS
<1>4. t[n + 1] = FramesUpTo(n, Expected(files[n]))
  BY <1>2, <1>3, Zenon
<1>5. Agree(s, t, n)
  BY <1>1, <1>2, <1>3, Zenon DEF Agree
<1>6. t[n + 1] \in Seq(Nat \X Nat)
  BY <1>4, FramesUpToType
<1>7. FlattenSeq(t) = FlattenSeq(s) \o t[Len(t)]
  BY <1>1, <1>2, <1>5, <1>6, FlattenGrows
<1> QED
  BY <1>2, <1>4, <1>7, Zenon DEF Joined, s, t

\* No segment.
LEMMA JoinedNone == ASSUME NEW files PROVE Joined(files, 0) = <<>>
<1>1. Len(Parts(files, 0)) = 0 /\ Parts(files, 0) = <<>>
  BY PartsFacts
<1> QED
  BY <1>1 DEF Joined, FlattenSeq

\* What has been read so far: all frames of the inputs before the current one,
\* and the first ones of that.
GifInv ==
  /\ assemble = "none" => input = 0 /\ frames = <<>>
  /\ assemble # "none" => split = "completed" /\ \A i \in Indexes : process[i] \in {"completed", "failed"}
  /\ assemble \in {"open", "reading", "encoding"} =>
       input \in 0 .. Len(pieces) /\ Joined(source, input) \in Seq(Nat \X Nat)
  /\ assemble \in {"open", "encoding"} => frames = Joined(source, input)
  /\ assemble = "encoding" => input = Len(pieces)
  /\ assemble = "reading" =>
       /\ input \in Indexes /\ artifact[input].header
       /\ frame \in 0 .. artifact[input].frame_count
       /\ frames = Joined(source, input) \o FramesUpTo(input, frame)
  /\ assemble = "completed" => gif = Joined(source, Len(pieces))

\* What is read stays a beginning of what the segments hold, step by step.
LEMMA GifStep ==
  ASSUME SplitInv, ArtifactsInv, GifInv, [EngineNext]_vars
  PROVE  GifInv'
<1>0. Len(pieces) \in Nat
  BY DEF SplitInv
<1>1. CASE UNCHANGED vars
  BY <1>1 DEF GifInv, vars, Indexes
<1>2. CASE assemble = "none" /\ UNCHANGED assembleVars
  BY <1>2 DEF GifInv, assembleVars
<1>3. CASE StartSplit \/ SplitSegment \/ SplitFails \/ \E found \in MuxerOutputs : SplitWithMuxer(found)
  <2>1. split # "completed" /\ UNCHANGED assembleVars
    BY <1>3 DEF StartSplit, SplitSegment, SplitFails, SplitWithMuxer
  <2> QED
    BY <1>2, <2>1 DEF GifInv
<1>4. ASSUME NEW i \in DOMAIN process, process[i] \in {"none", "writing"}, UNCHANGED assembleVars
      PROVE  GifInv'
  <2>1. split = "completed" => i \in Indexes
    BY <1>4 DEF ArtifactsInv, Files
  <2>2. assemble = "none"
    BY <1>4, <2>1 DEF GifInv
  <2> QED
    BY <1>2, <1>4, <2>2
<1>5. ASSUME NEW i \in DOMAIN process,
             \/ \E file \in SegmentFiles : OpenSegment(i, file)
             \/ WriteFrame(i) \/ CloseArtifact(i)
             \/ \E n \in -1 .. Len(artifact[i].frames) : ProcessDies(i, n)
      PROVE  GifInv'
  BY <1>4, <1>5 DEF OpenSegment, WriteFrame, CloseArtifact, ProcessDies
<1>6. CASE StartAssemble
  <2>1. /\ assemble = "none" /\ split = "completed" /\ assemble' = "open"
        /\ \A i \in Indexes : process[i] \in {"completed", "failed"}
        /\ UNCHANGED <<split, pieces, process, source, artifact, input, frame, frames, gif>>
    BY <1>6 DEF StartAssemble, Assembles, processVars
  <2>2. input = 0 /\ frames = <<>> /\ frames = Joined(source, input) /\ frames \in Seq(Nat \X Nat)
    BY <2>1, JoinedNone DEF GifInv
  <2>3. input \in 0 .. Len(pieces) /\ Joined(source, input) \in Seq(Nat \X Nat)
    <3>1. Joined(source, input) \in Seq(Nat \X Nat)
      BY <2>2, Zenon
    <3>2. input \in 0 .. Len(pieces)
      <4>1. input = 0
        BY <2>2
      <4> QED
        BY <1>0, <4>1
    <3> QED
      BY <3>1, <3>2
  <2>4. Indexes' = Indexes
    BY <2>1 DEF Indexes
  <2> QED
    BY <2>1, <2>2, <2>3, <2>4 DEF GifInv
<1>7. ASSUME assemble # "none", assemble' # "none", UNCHANGED <<split, pieces, process, source, artifact>>
      PROVE  /\ split' = "completed" /\ Indexes' = Indexes
             /\ (\A i \in Indexes : process[i] \in {"completed", "failed"})'
  BY <1>7 DEF GifInv, Indexes
<1>8. ASSUME assemble # "none", assemble' = "failed", UNCHANGED <<split, pieces, process, source, artifact>>
      PROVE  GifInv'
  BY <1>7, <1>8 DEF GifInv
<1>9. CASE OpenInput
  <2>1. /\ assemble = "open" /\ input \in Indexes /\ frame' = 0
        /\ assemble' \in {"reading", "failed"}
        /\ assemble' = "reading" => artifact[input].header
        /\ UNCHANGED <<split, pieces, process, source, artifact, input, frames, gif>>
    BY <1>9 DEF OpenInput, Assembles, processVars, Readable
  <2>2. /\ input \in Nat /\ artifact[input] \in Artifacts /\ frames = Joined(source, input)
        /\ frames \in Seq(Nat \X Nat)
    <3>1. input \in Nat /\ input \in Files
      BY <1>0, <2>1 DEF GifInv, Files, Indexes
    <3>2. artifact[input] \in Artifacts
      BY <3>1 DEF ArtifactsInv
    <3>3. frames = Joined(source, input) /\ frames \in Seq(Nat \X Nat)
      BY <2>1 DEF GifInv
    <3> QED
      BY <3>1, <3>2, <3>3
  <2>3. frames = frames \o FramesUpTo(input, 0) /\ 0 \in 0 .. artifact[input].frame_count
    <3>1. FramesUpTo(input, 0) = <<>>
      BY FramesUpToFacts
    <3>2. frames \o <<>> = frames
      BY <2>2, ConcatEmptySeq
    <3>3. artifact[input].frame_count \in Nat
      BY <2>2 DEF Artifacts
    <3>4. frames = frames \o FramesUpTo(input, 0)
      BY <3>1, <3>2, Zenon
    <3> QED
      BY <3>3, <3>4
  <2>4. CASE assemble' = "reading"
    BY <1>7, <2>1, <2>2, <2>3, <2>4 DEF GifInv
  <2> QED
    BY <1>8, <2>1, <2>4
<1>10. CASE ReadFrame
  <2>1. /\ assemble = "reading" /\ UNCHANGED <<split, pieces, process, source, artifact, gif>>
        /\ input \in Indexes /\ input \in Nat
        /\ frame \in 0 .. artifact[input].frame_count
        /\ frames = Joined(source, input) \o FramesUpTo(input, frame)
        /\ Joined(source, input) \in Seq(Nat \X Nat)
        /\ artifact[input].header
    BY <1>0, <1>10 DEF ReadFrame, Assembles, processVars, GifInv, Indexes
  <2>2. /\ artifact[input].frame_count \in Nat
        /\ artifact[input].frame_count = Expected(source[input])
        /\ frame \in Nat
    BY <2>1 DEF ArtifactsInv, SegmentOK, Artifacts, Files, GifInv
  <2>3. CASE NextFrame = "frame" /\ assemble' = "reading" /\ frame' = frame + 1
             /\ frames' = Append(frames, artifact[input].frames[frame + 1]) /\ UNCHANGED input
    <3>1. frame < artifact[input].frame_count /\ frame < Len(artifact[input].frames)
      BY <2>2, <2>3 DEF NextFrame
    <3>2. PICK n \in 0 .. artifact[input].frame_count : artifact[input].frames = FramesUpTo(input, n)
      BY <2>1 DEF ArtifactsInv, SegmentOK, Files, GifInv
    <3>3. n \in Nat
      BY <2>2
    <3>4. Len(artifact[input].frames) = n
      BY <3>2, <3>3, FramesUpToFacts
    <3>5. frame + 1 \in 1 .. n /\ frame + 1 \in 0 .. artifact[input].frame_count
      BY <2>2, <3>1, <3>3, <3>4
    <3>6. artifact[input].frames[frame + 1] = <<input, frame + 1>>
      BY <3>2, <3>3, <3>5, FramesUpToFacts
    <3>7. FramesUpTo(input, frame) \in Seq(Nat \X Nat)
      BY <2>1, <2>2, FramesUpToType
    <3>8. Append(FramesUpTo(input, frame), <<input, frame + 1>>) = FramesUpTo(input, frame + 1)
      BY <2>2, FramesUpToFacts
    <3>9. frames' = Joined(source, input) \o FramesUpTo(input, frame + 1)
      <4>1. frames' = Append(Joined(source, input) \o FramesUpTo(input, frame), <<input, frame + 1>>)
        BY <2>1, <2>3, <3>6
      <4>2. PICK e : e = <<input, frame + 1>>
        OBVIOUS
      <4>3. PICK S : S = Nat \X Nat
        OBVIOUS
      <4>4. PICK a \in Seq(S), b \in Seq(S) : a = Joined(source, input) /\ b = FramesUpTo(input, frame)
        BY <2>1, <3>7, <4>3, Zenon
      <4>5. e \in S
        BY <2>1, <2>2, <4>2, <4>3
      <4>6. Append(a \o b, e) = a \o Append(b, e)
        BY <4>5, AppendConcat
      <4> QED
        BY <3>8, <4>1, <4>2, <4>4, <4>6, Zenon
    <3> QED
      BY <1>7, <2>1, <2>3, <3>5, <3>9 DEF GifInv
  <2>4. CASE NextFrame = "end" /\ assemble' = "open" /\ input' = input + 1 /\ UNCHANGED <<frame, frames>>
    <3>1. frame = artifact[input].frame_count
      BY <2>1, <2>2, <2>4 DEF NextFrame
    <3>2. Joined(source, input + 1) = Joined(source, input) \o FramesUpTo(input, frame)
      BY <2>1, <2>2, <3>1, JoinedGrows
    <3>3. FramesUpTo(input, frame) \in Seq(Nat \X Nat)
      BY <2>1, <2>2, FramesUpToType
    <3>4. frames = Joined(source, input + 1) /\ frames \in Seq(Nat \X Nat)
      BY <2>1, <3>2, <3>3
    <3>5. input + 1 \in 0 .. Len(pieces)
      BY <1>0, <2>1 DEF Indexes
    <3> QED
      BY <1>7, <2>1, <2>4, <3>4, <3>5 DEF GifInv
  <2>5. CASE assemble' = "failed"
    BY <1>8, <2>1, <2>5
  <2> QED
    BY <1>10, <2>3, <2>4, <2>5 DEF ReadFrame, Assembles
<1>11. CASE AllRead
  <2>1. /\ assemble = "open" /\ input \notin Indexes /\ assemble' \in {"failed", "encoding"}
        /\ UNCHANGED <<split, pieces, process, source, artifact, input, frame, frames, gif>>
    BY <1>11 DEF AllRead, Assembles, processVars
  <2>2. input = Len(pieces)
    BY <1>0, <2>1 DEF GifInv, Indexes
  <2>3. CASE assemble' = "encoding"
    BY <1>7, <2>1, <2>2, <2>3 DEF GifInv
  <2> QED
    BY <1>8, <2>1, <2>3
<1>12. CASE Encode
  <2>1. /\ assemble = "encoding" /\ assemble' = "completed" /\ gif' = frames
        /\ UNCHANGED <<split, pieces, process, source, artifact, input, frame, frames>>
    BY <1>12 DEF Encode, Assembles, processVars
  <2> QED
    BY <1>7, <2>1 DEF GifInv
<1>13. CASE AssembleDies
  BY <1>8, <1>13 DEF AssembleDies, Assembles, processVars
<1> QED
  BY <1>1, <1>3, <1>5, <1>6, <1>9, <1>10, <1>11, <1>12, <1>13 DEF EngineNext

\* Nothing has been read at the start.
LEMMA GifStart == EngineInit => GifInv
BY DEF EngineInit, GifInv

\* A GIF that is reported complete has all announced frames of all segments in order,
\* for every split, every set of files that the children left, and every point at
\* which one of them died.
THEOREM GifsAreWhole == EngineSpec => []GifIsWhole
<1>1. EngineSpec => []GifInv
  BY SplitStart, SplitStep, ArtifactsStart, ArtifactsStep, GifStart, GifStep, PTL DEF EngineSpec
<1>2. GifInv => GifIsWhole
  BY DEF GifInv, GifIsWhole, Joined, Parts, FramesUpTo, FramesOf
<1> QED
  BY <1>1, <1>2, PTL
=============================================================================
