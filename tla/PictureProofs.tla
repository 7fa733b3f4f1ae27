---------------------------- MODULE PictureProofs ----------------------------
(***************************************************************************)
(* Proofs about Picture, for every set of windows, request and addresses:  *)
(* the frame EncodeFrame accepts is the frame it draws, a settled window   *)
(* is shown as its whole client area, and the encoder's size fits.         *)
(***************************************************************************)
EXTENDS Picture, TLAPS

\* Everything of a capture goes with its pool.
NothingKept == pool = {} => sourceView = None /\ cachedSource = None /\ queue = <<>>

\* A frame waiting to be handled is in a buffer of the present pool.
OfThePool(texture) ==
    /\ texture.at \in pool
    /\ texture.made = pools
    /\ texture.size = surfaceSize

QueueOfPool == \A i \in DOMAIN queue : OfThePool(queue[i].texture)

\* A view is cached under its texture's address, and while it is there no other
\* texture is at that address: the pointer test is then as good as one of identity.
ViewHoldsTexture ==
    sourceView # None =>
        /\ sourceView.at = cachedSource
        /\ sourceView.at \in pool => OfThePool(sourceView)

\* A pointer without a view is what a view that could not be made has left.
LostIsKnown == sourceView = None /\ cachedSource # None => viewLost

ViewInv == NothingKept /\ QueueOfPool /\ ViewHoldsTexture /\ LostIsKnown

-----------------------------------------------------------------------------
\* The encoder's size is a pair of natural numbers.
LEMMA FitIsASize ==
    ASSUME NEW source \in [Axes -> Nat], NEW max \in [Axes -> Nat]
    PROVE  FitPreservingAspect(source, max) \subseteq [Axes -> Nat]
<1> DEFINE s == Scale(source, max)
<1>1. s[1] \in Nat /\ s[2] \in Nat \ {0}
  <2>1. CASE (\A a \in Axes : source[a] > 0) /\ (\E a \in Axes : max[a] > 0)
    <3>1. \A a \in Axes : /\ LimitOn(a, source, max)[1] \in Nat
                          /\ LimitOn(a, source, max)[2] \in Nat \ {0}
      BY <2>1 DEF LimitOn, Axes
    <3>2. "x" \in Axes /\ "y" \in Axes BY DEF Axes
    <3>3. s = Tighter(<<1, 1>>, Tighter(LimitOn("x", source, max), LimitOn("y", source, max)))
      BY <2>1 DEF Scale
    <3> HIDE DEF s
    <3>4. PICK l \in {LimitOn("x", source, max), LimitOn("y", source, max)} :
              Tighter(LimitOn("x", source, max), LimitOn("y", source, max)) = l
      BY DEF Tighter
    <3>5. l[1] \in Nat /\ l[2] \in Nat \ {0} BY <3>1, <3>2
    <3>6. s \in {<<1, 1>>, l} BY <3>3, <3>4 DEF Tighter
    <3> QED BY <3>5, <3>6
  <2>2. CASE ~((\A a \in Axes : source[a] > 0) /\ (\E a \in Axes : max[a] > 0))
    BY <2>2 DEF Scale
  <2> QED BY <2>1, <2>2
<1> HIDE DEF s
<1>2. \A a \in Axes : Truncated(source[a], s) \subseteq Int
  <2> SUFFICES ASSUME NEW a \in Axes PROVE Truncated(source[a], s) \subseteq Int
    OBVIOUS
  <2>1. source[a] * s[1] \in Nat BY <1>1
  <2>2. (source[a] * s[1]) \div s[2] \in Int BY <1>1, <2>1
  <2> QED BY <2>2 DEF Truncated
<1>3. \A v \in Int : AtLeastTwo(v) \in Nat BY DEF AtLeastTwo, Even
<1>4. "x" \in Axes /\ "y" \in Axes BY DEF Axes
<1> QED BY <1>2, <1>3, <1>4 DEF FitPreservingAspect, s

-----------------------------------------------------------------------------
(* FitPreservingAspect.                                                      *)

\* Truncating division.
LEMMA Division ==
    ASSUME NEW v \in Nat, NEW d \in Nat \ {0}
    PROVE  /\ v \div d \in Nat
           /\ (v \div d) * d <= v
           /\ v < (v \div d + 1) * d
           /\ v % d = 0 => (v \div d) * d = v
OBVIOUS

\* A product can be compared by its first factor.
LEMMA Cancel ==
    ASSUME NEW v \in Int, NEW w \in Int, NEW d \in Nat \ {0}
    PROVE  /\ v * d <= w * d => v <= w
           /\ v * d < w * d => v < w
OBVIOUS

\* A side is made even by taking at most one pixel off it, and is never below two.
LEMMA SideIsEven ==
    ASSUME NEW v \in Int
    PROVE  /\ AtLeastTwo(v) \in Nat /\ AtLeastTwo(v) % 2 = 0 /\ AtLeastTwo(v) >= 2
           /\ AtLeastTwo(v) >= v - 1
           /\ AtLeastTwo(v) <= v \/ (AtLeastTwo(v) = 2 /\ v < 2)
BY DEF AtLeastTwo, Even

\* The scale is 1 when no limit is below the source, and otherwise the limit that
\* asks for the most.
LEMMA ScaleBinds ==
    ASSUME NEW source \in [Axes -> Nat], NEW max \in [Axes -> Nat],
           \A a \in Axes : source[a] > 1
    PROVE  \/ /\ Scale(source, max) = <<1, 1>>
              /\ \A a \in Axes : max[a] = 0 \/ source[a] <= max[a]
           \/ \E a \in Axes :
                 /\ max[a] > 0 /\ max[a] < source[a]
                 /\ Scale(source, max) = <<max[a], source[a]>>
                 /\ \A c \in Axes : max[c] = 0 \/ source[c] * max[a] <= max[c] * source[a]
<1> DEFINE lx == LimitOn("x", source, max)
           ly == LimitOn("y", source, max)
<1>0. "x" \in Axes /\ "y" \in Axes /\ \A a \in Axes : a \in {"x", "y"} BY DEF Axes
<1>1. /\ lx = IF max["x"] > 0 THEN <<max["x"], source["x"]>> ELSE <<1, 1>>
      /\ ly = IF max["y"] > 0 THEN <<max["y"], source["y"]>> ELSE <<1, 1>>
  BY DEF LimitOn
<1>2. CASE \A a \in Axes : max[a] = 0
  BY <1>2 DEF Scale
<1>3. CASE \E a \in Axes : max[a] > 0
  <2>1. Scale(source, max) = Tighter(<<1, 1>>, Tighter(lx, ly)) BY <1>3 DEF Scale
  <2> DEFINE sx == source["x"] sy == source["y"] mx == max["x"] my == max["y"]
  <2>2. sx \in Nat /\ sy \in Nat /\ mx \in Nat /\ my \in Nat /\ sx > 1 /\ sy > 1
    BY <1>0
  <2> HIDE DEF sx, sy, mx, my, lx, ly
  <2>3. CASE lx[1] * ly[2] <= ly[1] * lx[2]
    <3>1. Tighter(lx, ly) = lx BY <2>3 DEF Tighter
    <3>2. CASE mx = 0
      <4>1. lx = <<1, 1>> BY <1>1, <3>2 DEF mx
      <4>2. Scale(source, max) = <<1, 1>> BY <2>1, <3>1, <4>1 DEF Tighter
      <4>3. my = 0 \/ sy <= my BY <1>1, <2>2, <2>3, <4>1 DEF my, sy
      <4>4. QED BY <1>0, <3>2, <4>2, <4>3 DEF mx, my, sy
    <3>3. CASE mx > 0
      <4>1. lx = <<mx, sx>> BY <1>1, <3>3 DEF mx, sx
      <4>2. my = 0 => mx <= sx BY <1>1, <2>2, <2>3, <4>1 DEF my
      <4>3. my = 0 \/ sy * mx <= my * sx
        <5>1. CASE my > 0
          <6>1. ly = <<my, sy>> BY <1>1, <5>1 DEF my, sy
          <6>2. mx * sy <= my * sx BY <2>3, <4>1, <6>1
          <6>3. QED BY <2>2, <6>2
        <5>2. QED BY <2>2, <5>1
      <4>4. CASE sx <= mx
        <5>1. Scale(source, max) = <<1, 1>>
          BY <2>1, <2>2, <3>1, <4>1, <4>4 DEF Tighter
        <5>2. my = 0 \/ sy <= my
          <6>1. CASE my # 0
            <7>1. sy * sx <= sy * mx BY <2>2, <4>4
            <7>2. sy * sx <= my * sx BY <2>2, <4>3, <6>1, <7>1
            <7>3. QED BY <2>2, <7>2, Cancel
          <6>2. QED BY <6>1
        <5>3. QED BY <1>0, <4>4, <5>1, <5>2 DEF mx, my, sx, sy
      <4>5. CASE mx < sx
        <5>1. Scale(source, max) = <<mx, sx>>
          BY <2>1, <2>2, <3>1, <4>1, <4>5 DEF Tighter
        <5>2. sx * mx <= mx * sx BY <2>2
        <5>3. QED BY <1>0, <3>3, <4>3, <4>5, <5>1, <5>2 DEF mx, my, sx, sy
      <4>6. QED BY <2>2, <4>4, <4>5
    <3>4. QED BY <2>2, <3>2, <3>3
  <2>4. CASE ~(lx[1] * ly[2] <= ly[1] * lx[2])
    <3>1. Tighter(lx, ly) = ly BY <2>4 DEF Tighter
    <3>2. CASE my = 0
      <4>1. ly = <<1, 1>> BY <1>1, <3>2 DEF my
      <4>2. Scale(source, max) = <<1, 1>> BY <2>1, <3>1, <4>1 DEF Tighter
      <4>3. mx = 0 \/ sx <= mx BY <1>1, <2>2, <2>4, <4>1 DEF mx, sx
      <4>4. QED BY <1>0, <3>2, <4>2, <4>3 DEF mx, my, sx
    <3>3. CASE my > 0
      <4>1. ly = <<my, sy>> BY <1>1, <3>3 DEF my, sy
      <4>3. mx = 0 \/ sx * my <= mx * sy
        <5>1. CASE mx > 0
          <6>1. lx = <<mx, sx>> BY <1>1, <5>1 DEF mx, sx
          <6>2. ~(mx * sy <= my * sx) BY <2>4, <4>1, <6>1
          <6>3. QED BY <2>2, <6>2
        <5>2. QED BY <2>2, <5>1
      <4>4. CASE sy <= my
        <5>1. Scale(source, max) = <<1, 1>>
          BY <2>1, <2>2, <3>1, <4>1, <4>4 DEF Tighter
        <5>2. mx = 0 \/ sx <= mx
          <6>1. CASE mx # 0
            <7>1. sx * sy <= sx * my BY <2>2, <4>4
            <7>2. sx * sy <= mx * sy BY <2>2, <4>3, <6>1, <7>1
            <7>3. QED BY <2>2, <7>2, Cancel
          <6>2. QED BY <6>1
        <5>3. QED BY <1>0, <4>4, <5>1, <5>2 DEF mx, my, sx, sy
      <4>5. CASE my < sy
        <5>1. Scale(source, max) = <<my, sy>>
          BY <2>1, <2>2, <3>1, <4>1, <4>5 DEF Tighter
        <5>2. sy * my <= my * sy BY <2>2
        <5>3. QED BY <1>0, <3>3, <4>3, <4>5, <5>1, <5>2 DEF mx, my, sx, sy
      <4>6. QED BY <2>2, <4>4, <4>5
    <3>4. QED BY <2>2, <3>2, <3>3
  <2>5. QED BY <2>3, <2>4
<1>4. QED BY <1>2, <1>3

\* A side that is not scaled is made even and nothing else.
LEMMA SideAsItIs ==
    ASSUME NEW side \in Nat, side > 1, NEW v \in Truncated(side, <<1, 1>>)
    PROVE  AtLeastTwo(v) % 2 = 0 /\ AtLeastTwo(v) \in 2 .. side /\ AtLeastTwo(v) >= side - 1
<1>1. v = side BY DEF Truncated
<1>2. QED BY <1>1, SideIsEven

\* The side whose limit binds ends at most two pixels below it.
LEMMA SideAtItsLimit ==
    ASSUME NEW side \in Nat, NEW limit \in Nat, limit > 1, limit < side,
           NEW v \in Truncated(side, <<limit, side>>)
    PROVE  AtLeastTwo(v) % 2 = 0 /\ AtLeastTwo(v) \in 2 .. limit /\ AtLeastTwo(v) >= limit - 2
<1>1. (side * limit) \div side = limit OBVIOUS
<1>2. v \in {limit, limit - 1} BY <1>1 DEF Truncated
<1>3. QED BY <1>2, SideIsEven

\* The other side follows at the same scale, m/s: it stays within itself and its
\* own limit, and rounding moves it by at most two pixels.
LEMMA SideInProportion ==
    ASSUME NEW side \in Nat, side > 1, NEW m \in Nat, NEW s \in Nat, m > 1, m < s,
           NEW limit \in Nat, limit # 1, limit = 0 \/ side * m <= limit * s,
           NEW v \in Truncated(side, <<m, s>>)
    PROVE  /\ AtLeastTwo(v) % 2 = 0 /\ AtLeastTwo(v) \in 2 .. side
           /\ limit = 0 \/ AtLeastTwo(v) <= limit
           /\ side * m <= AtLeastTwo(v) * s + 2 * s
           /\ AtLeastTwo(v) * s < side * m + 2 * s
<1> DEFINE e == (side * m) \div s
           g == AtLeastTwo(v)
<1>1. e \in Nat /\ e * s <= side * m /\ side * m < (e + 1) * s
  <2>1. side * m \in Nat OBVIOUS
  <2> QED BY <2>1, Division
<1>2. v = e \/ (v = e - 1 /\ e * s = side * m)
  <2>1. side * m \in Nat OBVIOUS
  <2>2. (side * m) % s = 0 => e * s = side * m BY <2>1, Division
  <2> QED BY <2>2 DEF Truncated
<1> HIDE DEF e
<1>3. v \in Int BY <1>1, <1>2
<1>4. /\ g \in Nat /\ g % 2 = 0 /\ g >= 2 /\ g >= v - 1
      /\ g <= v \/ (g = 2 /\ v < 2)
  BY <1>3, SideIsEven
<1> HIDE DEF g
<1>5. e <= side
  <2>1. side * m <= side * s OBVIOUS
  <2>2. e * s <= side * s BY <1>1, <2>1
  <2> QED BY <1>1, <2>2, Cancel
<1>6. limit = 0 \/ e <= limit
  <2>1. CASE limit # 0
    <3>1. e * s <= limit * s BY <1>1, <2>1
    <3> QED BY <1>1, <3>1, Cancel
  <2> QED BY <2>1
<1>7. g \in 2 .. side /\ (limit = 0 \/ g <= limit) BY <1>1, <1>2, <1>4, <1>5, <1>6
<1>8. side * m <= (v + 1) * s
  <2>1. CASE v = e BY <1>1, <2>1
  <2>2. CASE v = e - 1 /\ e * s = side * m BY <1>1, <2>2
  <2> QED BY <1>2, <2>1, <2>2
<1>9. (v + 1) * s <= (g + 2) * s BY <1>3, <1>4
<1>10. (g + 2) * s = g * s + 2 * s BY <1>4
<1>11. g * s < side * m + 2 * s
  <2>1. side * m > 0 OBVIOUS
  <2>2. CASE g <= v
    <3>1. g * s <= v * s BY <1>3, <1>4, <2>2
    <3>2. v * s <= e * s BY <1>1, <1>2
    <3> QED BY <1>1, <1>3, <1>4, <3>1, <3>2
  <2>3. CASE g = 2 BY <2>1, <2>3
  <2> QED BY <1>4, <2>2, <2>3
<1> QED BY <1>3, <1>4, <1>7, <1>8, <1>9, <1>10, <1>11 DEF g

\* How far rounding can turn a picture, the limit of the side s being m.
LEMMA Skewed ==
    ASSUME NEW s \in Nat, NEW q \in Nat, s > 1, q > 1, NEW m \in Nat,
           NEW f \in Nat, f <= m, f >= m - 2,
           NEW g \in Nat, q * m <= g * s + 2 * s, g * s < q * m + 2 * s
    PROVE  /\ f * q - g * s < 3 * s + 2 * q
           /\ g * s - f * q < 2 * s + 3 * q
<1>1. f * q <= q * m OBVIOUS
<1>2. q * m <= f * q + 2 * q
  <2>1. m * q <= (f + 2) * q OBVIOUS
  <2>2. (f + 2) * q = f * q + 2 * q OBVIOUS
  <2> QED BY <2>1, <2>2
<1>3. f * q \in Int /\ g * s \in Int /\ q * m \in Int OBVIOUS
<1> QED BY <1>1, <1>2, <1>3

\* What FitFits asks of one size.
LEMMA FitIsGood ==
    ASSUME NEW source \in [Axes -> Nat], NEW max \in [Axes -> Nat],
           \A a \in Axes : source[a] > 1 /\ max[a] # 1,
           NEW fitted \in FitPreservingAspect(source, max)
    PROVE  /\ \A a \in Axes : Fits(fitted[a], source[a], max[a])
           /\ \E a \in Axes : fitted[a] + 3 >= Bound(source[a], max[a])
           /\ InProportion(fitted, source)
<1> DEFINE scale == Scale(source, max)
<1>1. "x" \in Axes /\ "y" \in Axes /\ \A a \in Axes : a \in {"x", "y"} BY DEF Axes
<1>2. PICK w \in Truncated(source["x"], scale), h \in Truncated(source["y"], scale) :
          fitted = [a \in Axes |-> AtLeastTwo(IF a = "x" THEN w ELSE h)]
  BY DEF FitPreservingAspect
<1>3. fitted["x"] = AtLeastTwo(w) /\ fitted["y"] = AtLeastTwo(h) BY <1>1, <1>2
<1> DEFINE sx == source["x"] sy == source["y"] mx == max["x"] my == max["y"]
           fx == fitted["x"] fy == fitted["y"]
<1>4. /\ sx \in Nat /\ sy \in Nat /\ mx \in Nat /\ my \in Nat
      /\ sx > 1 /\ sy > 1 /\ mx # 1 /\ my # 1
  BY <1>1
<1>5. SUFFICES /\ Fits(fx, sx, mx) /\ Fits(fy, sy, my)
               /\ fx + 3 >= Bound(sx, mx) \/ fy + 3 >= Bound(sy, my)
               /\ fx * sy - fy * sx < 3 * sx + 2 * sy
               /\ -(fx * sy - fy * sx) < 2 * sx + 3 * sy
  BY <1>1 DEF InProportion
<1>6. w \in Truncated(sx, scale) /\ h \in Truncated(sy, scale) OBVIOUS
<1>7. \/ scale = <<1, 1>> /\ (mx = 0 \/ sx <= mx) /\ (my = 0 \/ sy <= my)
      \/ /\ mx > 0 /\ mx < sx /\ scale = <<mx, sx>>
         /\ my = 0 \/ sy * mx <= my * sx
      \/ /\ my > 0 /\ my < sy /\ scale = <<my, sy>>
         /\ mx = 0 \/ sx * my <= mx * sy
  BY <1>1, ScaleBinds
<1>8. fx = AtLeastTwo(w) /\ fy = AtLeastTwo(h) BY <1>3
<1> HIDE DEF scale, sx, sy, mx, my, fx, fy
\* Nothing binds.
<1>9. CASE scale = <<1, 1>> /\ (mx = 0 \/ sx <= mx) /\ (my = 0 \/ sy <= my)
  <2>1. /\ fx % 2 = 0 /\ fx \in 2 .. sx /\ fx >= sx - 1
        /\ fy % 2 = 0 /\ fy \in 2 .. sy /\ fy >= sy - 1
    BY <1>4, <1>6, <1>8, <1>9, SideAsItIs
  <2>2. Bound(sx, mx) = sx /\ Bound(sy, my) = sy BY <1>4, <1>9 DEF Bound
  <2>3. /\ sx * sy <= fx * sy + sy /\ fx * sy <= sx * sy
        /\ sx * sy <= fy * sx + sx /\ fy * sx <= sx * sy
    <3>1. fx = sx \/ fx = sx - 1 BY <1>4, <2>1
    <3>2. fy = sy \/ fy = sy - 1 BY <1>4, <2>1
    <3>3. (sx - 1) * sy = sx * sy - sy /\ (sy - 1) * sx = sx * sy - sx BY <1>4
    <3> QED BY <1>4, <3>1, <3>2, <3>3
  <2>4. fx * sy \in Int /\ fy * sx \in Int /\ sx * sy \in Int BY <1>4, <2>1
  <2> QED BY <1>4, <2>1, <2>2, <2>3, <2>4 DEF Fits
\* The width's limit does...
<1>10. CASE /\ mx > 0 /\ mx < sx /\ scale = <<mx, sx>>
            /\ my = 0 \/ sy * mx <= my * sx
  <2>1. fx % 2 = 0 /\ fx \in 2 .. mx /\ fx >= mx - 2
    BY <1>4, <1>6, <1>8, <1>10, SideAtItsLimit
  <2>2. /\ fy % 2 = 0 /\ fy \in 2 .. sy /\ (my = 0 \/ fy <= my)
        /\ sy * mx <= fy * sx + 2 * sx /\ fy * sx < sy * mx + 2 * sx
    BY <1>4, <1>6, <1>8, <1>10, SideInProportion
  <2>3. Bound(sx, mx) = mx /\ Bound(sy, my) \in {sy, my} /\ (my = 0 => Bound(sy, my) = sy)
    BY <1>4, <1>10 DEF Bound
  <2>4. /\ fx * sy - fy * sx < 3 * sx + 2 * sy
        /\ fy * sx - fx * sy < 2 * sx + 3 * sy
    BY <1>4, <2>1, <2>2, Skewed
  <2>5. fx * sy \in Int /\ fy * sx \in Int BY <1>4, <2>1, <2>2
  <2> QED BY <1>4, <2>1, <2>2, <2>3, <2>4, <2>5 DEF Fits
\* ...or the height's.
<1>11. CASE /\ my > 0 /\ my < sy /\ scale = <<my, sy>>
            /\ mx = 0 \/ sx * my <= mx * sy
  <2>1. fy % 2 = 0 /\ fy \in 2 .. my /\ fy >= my - 2
    BY <1>4, <1>6, <1>8, <1>11, SideAtItsLimit
  <2>2. /\ fx % 2 = 0 /\ fx \in 2 .. sx /\ (mx = 0 \/ fx <= mx)
        /\ sx * my <= fx * sy + 2 * sy /\ fx * sy < sx * my + 2 * sy
    BY <1>4, <1>6, <1>8, <1>11, SideInProportion
  <2>3. Bound(sy, my) = my /\ Bound(sx, mx) \in {sx, mx} /\ (mx = 0 => Bound(sx, mx) = sx)
    BY <1>4, <1>11 DEF Bound
  <2>4. /\ fy * sx - fx * sy < 3 * sy + 2 * sx
        /\ fx * sy - fy * sx < 2 * sy + 3 * sx
    BY <1>4, <2>1, <2>2, Skewed
  <2>5. fx * sy \in Int /\ fy * sx \in Int BY <1>4, <2>1, <2>2
  <2> QED BY <1>4, <2>1, <2>2, <2>3, <2>4, <2>5 DEF Fits
<1> QED BY <1>7, <1>9, <1>10, <1>11

-----------------------------------------------------------------------------
(* ComputeCrop.                                                              *)

\* ComputeCrop's answer is an area.
LEMMA CropIsAnArea ==
    ASSUME NEW w \in Geometry, NEW size \in [Axes -> Nat], NEW told \in Answers
    PROVE  ComputeCrop(w, size, told) \in Areas
<1>1. \A a \in Axes : Origin(w, told, a) \in Int BY DEF Origin, Geometry
<1>2. \A v, lo, hi \in Int : Clamp(v, lo, hi) \in Int BY DEF Clamp
<1>3. Whole(size) \in Areas BY DEF Whole, Areas
<1> DEFINE lo == [a \in Axes |-> Clamp(Origin(w, told, a), 0, size[a])]
           hi == [a \in Axes |-> Clamp(Origin(w, told, a) + w.client[a], lo[a], size[a])]
<1>4. lo \in [Axes -> Int] BY <1>1, <1>2
<1>5. hi \in [Axes -> Int]
  <2> HIDE DEF lo
  <2>1. \A a \in Axes : Origin(w, told, a) + w.client[a] \in Int BY <1>1 DEF Geometry
  <2>2. \A a \in Axes : lo[a] \in Int /\ size[a] \in Int BY <1>4
  <2>3. \A a \in Axes : Clamp(Origin(w, told, a) + w.client[a], lo[a], size[a]) \in Int
    BY <1>2, <2>1, <2>2
  <2> QED BY <2>3, Zenon
<1>6. [lo |-> lo, hi |-> hi] \in Areas BY <1>4, <1>5 DEF Areas
<1> QED BY <1>3, <1>6 DEF ComputeCrop

\* Where the client area lies inside a buffer of the window's size, the crop is
\* the client area.
LEMMA CropIsClientArea ==
    ASSUME NEW w \in Geometry, ~Empty(ClientArea(w)), Inside(ClientArea(w), w.surface)
    PROVE  ComputeCrop(w, w.surface, "visible") = ClientArea(w)
<1> DEFINE lo == [a \in Axes |-> Clamp(Origin(w, "visible", a), 0, w.surface[a])]
           hi == [a \in Axes |-> Clamp(Origin(w, "visible", a) + w.client[a], lo[a], w.surface[a])]
           far == [a \in Axes |-> w.origin[a] + w.client[a]]
<1>1. /\ w.origin \in [Axes -> Int] /\ w.client \in [Axes -> Nat]
      /\ w.surface \in [Axes -> Nat]
  BY DEF Geometry
<1>2. \A a \in Axes : /\ w.client[a] > 0
                      /\ 0 <= w.origin[a]
                      /\ w.origin[a] + w.client[a] <= w.surface[a]
  BY <1>1 DEF Empty, Inside, ClientArea, SizeOf
<1>3. \A a \in Axes : Origin(w, "visible", a) = w.origin[a] BY <1>1 DEF Origin
<1>4. lo = w.origin BY <1>1, <1>2, <1>3 DEF Clamp
<1>5. hi = far BY <1>1, <1>2, <1>3, <1>4 DEF Clamp
<1>6. \A a \in Axes : w.client[a] # 0 /\ ~(hi[a] <= lo[a])
  <2>1. \A a \in Axes : far[a] = w.origin[a] + w.client[a] OBVIOUS
  <2> HIDE DEF lo, hi, far
  <2> QED BY <1>1, <1>2, <1>4, <1>5, <2>1
<1>7. CASE w.client = w.surface
  <2>1. \A a \in Axes : w.origin[a] = 0 BY <1>1, <1>2, <1>7
  <2>2. w.origin = [a \in Axes |-> 0] BY <1>1, <2>1
  <2>3. far = w.surface BY <1>1, <1>7, <2>1
  <2> QED BY <1>7, <2>2, <2>3 DEF ComputeCrop, Whole, ClientArea
<1>8. CASE w.client # w.surface
  <2>1. ComputeCrop(w, w.surface, "visible") = [lo |-> lo, hi |-> hi]
    <3> HIDE DEF far
    <3> QED BY <1>6, <1>8 DEF ComputeCrop
  <2> QED BY <1>4, <1>5, <2>1 DEF ClientArea
<1> QED BY <1>7, <1>8
-----------------------------------------------------------------------------
\* What one EncodeFrame does to the views and the picture, whichever way it goes.
\* The texture comes from the queue, so its address is taken.
LEMMA EncodeFrameStep ==
    ASSUME TypeOK, NothingKept, ViewHoldsTexture, LostIsKnown,
           NEW texture \in Textures, OfThePool(texture),
           NEW crop \in Areas, NEW wanted \in Areas \cup {None},
           EncodeFrame(texture, crop, wanted)
    PROVE  /\ cachedSource' \in Addresses \cup {None}
           /\ sourceView' \in Textures \cup {None}
           /\ target' \in BOOLEAN
           /\ viewLost' \in BOOLEAN
           /\ picture' \in [of : Textures \cup {None}, crop : Areas] \cup {None}
           /\ asked' \in [of : Textures, wanted : Areas \cup {None}, blind : BOOLEAN] \cup {None}
           /\ sourceView' \in {sourceView, texture, None}
           /\ sourceView' # None => sourceView'.at = cachedSource'
           /\ sourceView' = None /\ cachedSource' # None => viewLost'
           /\ \/ UNCHANGED pictureVars
              \/ /\ picture'.of = texture \/ (picture'.of = None /\ asked'.blind)
                 /\ picture'.crop = crop
                 /\ asked'.of = texture
                 /\ asked'.wanted = wanted
<1> USE DEF TypeOK
<1>1. CASE UNCHANGED <<scalerVars, pictureVars>>
  BY <1>1 DEF scalerVars, pictureVars, ViewHoldsTexture, LostIsKnown
<1>2. CASE Copy(texture, crop, wanted)
  BY <1>2 DEF Copy, scalerVars, ViewHoldsTexture, LostIsKnown
<1>3. CASE SourceViewFails(texture)
  BY <1>3 DEF SourceViewFails, pictureVars
<1>4. ASSUME RebuildSourceView(texture)
      PROVE  /\ cachedSource' \in Addresses \cup {None}
             /\ sourceView' \in Textures \cup {None}
             /\ viewLost' \in BOOLEAN
             /\ sourceView' \in {sourceView, texture, None}
             /\ sourceView' # None => sourceView'.at = cachedSource'
             /\ sourceView' = None /\ cachedSource' # None => viewLost'
             /\ sourceView' = texture \/ (sourceView' = None /\ viewLost')
  <2>1. texture.at \in Addresses /\ texture.at # None
    BY PictureAssumption DEF Textures
  <2>2. CASE SourceIsCached(texture) /\ UNCHANGED <<cachedSource, sourceView, viewLost>>
    <3>1. CASE sourceView = None
      BY <2>1, <2>2, <3>1 DEF LostIsKnown, SourceIsCached
    <3>2. CASE sourceView # None
      <4>1. sourceView.at = texture.at /\ OfThePool(sourceView)
        BY <2>2, <3>2 DEF ViewHoldsTexture, OfThePool, SourceIsCached
      <4>2. sourceView = texture BY <3>2, <4>1 DEF OfThePool, Textures
      <4> QED BY <2>2, <3>2, <4>2 DEF ViewHoldsTexture
    <3> QED BY <3>1, <3>2
  <2>3. CASE sourceView' = texture /\ cachedSource' = texture.at /\ viewLost' = FALSE
    <3>1. viewLost' \in BOOLEAN BY <2>3, Zenon
    <3> QED BY <2>1, <2>3, <3>1, PictureAssumption
  <2> QED BY <1>4, <2>2, <2>3 DEF RebuildSourceView
<1>5. CASE DrawBreaksOff(texture)
  <2>1. target' \in BOOLEAN BY <1>5 DEF DrawBreaksOff
  <2> QED BY <1>4, <1>5, <2>1 DEF DrawBreaksOff, pictureVars
<1>6. CASE Drawn(texture, crop, wanted)
  <2>1. target' \in BOOLEAN BY <1>6, Zenon DEF Drawn
  <2>2. RebuildSourceView(texture) BY <1>6 DEF Drawn
  <2>3. /\ picture' = [of |-> sourceView', crop |-> crop]
        /\ asked' = [of |-> texture, wanted |-> wanted, blind |-> viewLost']
    BY <1>6 DEF Drawn
  <2>4. picture' \in [of : Textures \cup {None}, crop : Areas] BY <1>4, <2>2, <2>3
  <2>5. asked' \in [of : Textures, wanted : Areas \cup {None}, blind : BOOLEAN]
    BY <1>4, <2>2, <2>3
  <2>6. picture'.of = texture \/ (picture'.of = None /\ asked'.blind)
    BY <1>4, <2>2, <2>3, Zenon
  <2>7. picture'.crop = crop /\ asked'.of = texture /\ asked'.wanted = wanted BY <2>3
  <2> QED BY <1>4, <2>1, <2>2, <2>4, <2>5, <2>6, <2>7
<1>7. \/ UNCHANGED <<scalerVars, pictureVars>> \/ Copy(texture, crop, wanted)
      \/ SourceViewFails(texture) \/ DrawBreaksOff(texture) \/ Drawn(texture, crop, wanted)
  BY DEF EncodeFrame, Draw
<1> QED BY <1>1, <1>2, <1>3, <1>5, <1>6, <1>7

\* ...and to the pool: a new one is nowhere the view or the frame in hand is.
LEMMA NewPool ==
    ASSUME TypeOK, NEW size \in [Axes -> Nat], NEW held, MakePool(size, held)
    PROVE  /\ pools' \in Nat /\ pool' \subseteq Addresses /\ pool' # {}
           /\ surfaceSize' \in [Axes -> Nat] /\ queue' = <<>>
           /\ pool' \cap held = {}
BY DEF TypeOK, MakePool

-----------------------------------------------------------------------------
Inv == TypeOK /\ ViewInv /\ DrawnIsAsked /\ WholeWindow

LEMMA InvInit == Init => Inv
<1> SUFFICES ASSUME Init PROVE Inv OBVIOUS
<1>1. TypeOK
  <2>1. surfaceSize \in [Axes -> Nat] BY DEF Init
  <2>2. target \in BOOLEAN /\ viewLost \in BOOLEAN BY Zenon DEF Init
  <2> QED BY <2>1, <2>2 DEF Init, TypeOK
<1>2. ViewInv
  BY DEF Init, ViewInv, NothingKept, QueueOfPool, ViewHoldsTexture, LostIsKnown
<1> QED BY <1>1, <1>2 DEF Init, Inv, DrawnIsAsked, WholeWindow

\* A frame that is handled.
LEMMA FrameKeepsInv ==
    ASSUME Inv, OnFrameArrived
    PROVE  Inv'
<1> USE DEF Inv
<1> DEFINE frame == Head(queue)
<1>1. frame \in Frames /\ OfThePool(frame.texture) /\ Tail(queue) \in Seq(Frames)
  BY DEF OnFrameArrived, TypeOK, ViewInv, QueueOfPool
<1>2. frame.texture \in Textures /\ frame.window \in Geometry
  BY <1>1, PictureAssumption DEF Frames
<1>3. frame.texture.size \in [Axes -> Nat] /\ frame.window.surface \in [Axes -> Nat]
  BY <1>2 DEF Textures, Geometry
<1>4. window \in Geometry BY PictureAssumption DEF TypeOK
<1>5. PICK told \in Answers :
          EncodeFrame(frame.texture, ComputeCrop(window, frame.texture.size, told),
                      Owed(frame, told))
  BY DEF OnFrameArrived
<1> DEFINE crop == ComputeCrop(window, frame.texture.size, told)
           wanted == Owed(frame, told)
<1>6. crop \in Areas BY <1>3, <1>4, CropIsAnArea
<1>7. wanted \in {None, crop}
  <2>1. CASE wanted = None BY <2>1
  <2>2. CASE wanted # None
    <3>1. /\ told = "visible" /\ frame.texture.size = window.surface
          /\ ~Empty(ClientArea(window)) /\ Inside(ClientArea(window), window.surface)
          /\ wanted = ClientArea(window)
      BY <2>2 DEF Owed
    <3> QED BY <1>4, <3>1, CropIsClientArea
  <2> QED BY <2>1, <2>2
<1> HIDE DEF crop, wanted, frame
<1>8. /\ cachedSource' \in Addresses \cup {None}
      /\ sourceView' \in Textures \cup {None}
      /\ target' \in BOOLEAN
      /\ viewLost' \in BOOLEAN
      /\ picture' \in [of : Textures \cup {None}, crop : Areas] \cup {None}
      /\ asked' \in [of : Textures, wanted : Areas \cup {None}, blind : BOOLEAN] \cup {None}
      /\ sourceView' \in {sourceView, frame.texture, None}
      /\ sourceView' # None => sourceView'.at = cachedSource'
      /\ sourceView' = None /\ cachedSource' # None => viewLost'
      /\ \/ UNCHANGED pictureVars
         \/ /\ picture'.of = frame.texture \/ (picture'.of = None /\ asked'.blind)
            /\ picture'.crop = crop
            /\ asked'.of = frame.texture
            /\ asked'.wanted = wanted
  BY <1>1, <1>2, <1>5, <1>6, <1>7, EncodeFrameStep DEF ViewInv, crop, wanted
<1>9. DrawnIsAsked' /\ WholeWindow'
  BY <1>7, <1>8 DEF DrawnIsAsked, WholeWindow, pictureVars
<1>10. UNCHANGED <<window, encoder>> BY DEF OnFrameArrived
<1>11. CASE /\ queue' = Tail(queue)
            /\ UNCHANGED <<pools, pool, surfaceSize>>
  <2>1. TypeOK' BY <1>1, <1>8, <1>10, <1>11 DEF TypeOK
  <2>2. QueueOfPool'
    <3>1. queue \in Seq(Frames) /\ queue # <<>> BY DEF TypeOK, OnFrameArrived
    <3>2. ASSUME NEW i \in DOMAIN Tail(queue) PROVE OfThePool(Tail(queue)[i].texture)
      <4>1. i + 1 \in DOMAIN queue /\ Tail(queue)[i] = queue[i + 1] BY <3>1
      <4> QED BY <4>1 DEF ViewInv, QueueOfPool
    <3> QED BY <1>11, <3>2 DEF QueueOfPool, OfThePool
  <2>3. pool # {} BY <1>1 DEF OfThePool
  <2>4. ViewHoldsTexture'
    <3> SUFFICES ASSUME sourceView' # None, sourceView'.at \in pool'
                 PROVE  OfThePool(sourceView)'
      BY <1>8 DEF ViewHoldsTexture
    <3> QED BY <1>1, <1>8, <1>11 DEF OfThePool, ViewInv, ViewHoldsTexture
  <2> QED BY <1>8, <1>9, <1>11, <2>1, <2>2, <2>3, <2>4
          DEF ViewInv, NothingKept, LostIsKnown
<1>12. CASE MakePool(frame.window.surface, Held(frame))
  <2>1. /\ pools' \in Nat /\ pool' \subseteq Addresses /\ pool' # {}
        /\ surfaceSize' \in [Axes -> Nat] /\ queue' = <<>>
        /\ pool' \cap Held(frame) = {}
    BY <1>3, <1>12, NewPool
  <2>2. TypeOK' BY <1>8, <1>10, <2>1 DEF TypeOK
  <2>3. ViewHoldsTexture' BY <1>8, <2>1 DEF ViewHoldsTexture, Held
  <2> QED BY <1>8, <1>9, <2>1, <2>2, <2>3 DEF ViewInv, NothingKept, LostIsKnown, QueueOfPool
<1> QED BY <1>11, <1>12 DEF OnFrameArrived, frame

LEMMA InvNext == Inv /\ [Next]_vars => Inv'
<1> SUFFICES ASSUME Inv, [Next]_vars PROVE Inv' OBVIOUS
<1> USE DEF Inv
<1>1. CASE UNCHANGED vars
  BY <1>1 DEF vars, poolVars, scalerVars, pictureVars, TypeOK, ViewInv, NothingKept,
              QueueOfPool, OfThePool, ViewHoldsTexture, LostIsKnown, DrawnIsAsked, WholeWindow
<1>2. CASE WindowChanges
  BY <1>2 DEF WindowChanges, poolVars, scalerVars, pictureVars, TypeOK, ViewInv, NothingKept,
              QueueOfPool, OfThePool, ViewHoldsTexture, LostIsKnown, DrawnIsAsked, WholeWindow
<1>3. CASE MakeCapture
  <2>1. window.surface \in [Axes -> Nat] BY PictureAssumption DEF TypeOK, Geometry
  <2>2. /\ pools' \in Nat /\ pool' \subseteq Addresses /\ pool' # {}
        /\ surfaceSize' \in [Axes -> Nat] /\ queue' = <<>>
    BY <1>3, <2>1, NewPool DEF MakeCapture
  <2> QED
    BY <1>3, <2>2 DEF MakeCapture, scalerVars, pictureVars, TypeOK, ViewInv, NothingKept,
       QueueOfPool, ViewHoldsTexture, LostIsKnown, DrawnIsAsked, WholeWindow
<1>4. CASE CreateEncoder
  <2>1. encoder' \in [Axes -> Nat]
    BY <1>4, FitIsASize, PictureAssumption DEF CreateEncoder, NvencCreate, TypeOK, Geometry
  <2>2. target' \in BOOLEAN /\ viewLost' \in BOOLEAN
    BY <1>4, Zenon DEF CreateEncoder, NvencCreate, NewScaler
  <2>3. NewScaler /\ encoder = None BY <1>4 DEF CreateEncoder, NvencCreate
  <2>4. UNCHANGED <<window, poolVars, pictureVars>> BY <1>4 DEF CreateEncoder
  <2> QED
    BY <2>1, <2>2, <2>3, <2>4 DEF NewScaler, poolVars, pictureVars, TypeOK, ViewInv,
       NothingKept, QueueOfPool, OfThePool, ViewHoldsTexture, LostIsKnown, DrawnIsAsked,
       WholeWindow
<1>5. CASE StopStreaming
  <2>1. target' \in BOOLEAN /\ viewLost' \in BOOLEAN BY <1>5, Zenon DEF StopStreaming, NewScaler
  <2> QED
    BY <1>5, <2>1 DEF StopStreaming, NewScaler, TypeOK, ViewInv, NothingKept, QueueOfPool, ViewHoldsTexture,
              LostIsKnown, DrawnIsAsked, WholeWindow
<1>6. CASE Captured
  <2>1. PICK a \in pool : queue' = Append(queue,
            [texture |-> [at |-> a, made |-> pools, size |-> surfaceSize], window |-> window])
    BY <1>6 DEF Captured
  <2> DEFINE new == [texture |-> [at |-> a, made |-> pools, size |-> surfaceSize],
                     window |-> window]
  <2>2. UNCHANGED <<window, pools, pool, surfaceSize, encoder, scalerVars, pictureVars>>
    BY <1>6 DEF Captured
  <2>3. new \in Frames BY DEF TypeOK, Frames, Textures
  <2>4. queue \in Seq(Frames) BY DEF TypeOK
  <2>5. OfThePool(new.texture) BY DEF OfThePool
  <2>6. queue' \in Seq(Frames) BY <2>1, <2>3, <2>4
  <2>7. QueueOfPool'
    <3> SUFFICES ASSUME NEW i \in DOMAIN queue' PROVE OfThePool(queue'[i].texture)
      BY <2>2 DEF QueueOfPool, OfThePool
    <3>1. CASE i \in DOMAIN queue
      BY <2>1, <2>4, <3>1 DEF ViewInv, QueueOfPool
    <3>2. CASE i \notin DOMAIN queue
      <4>1. queue'[i] = new
        <5> HIDE DEF new
        <5> QED BY <2>1, <2>4, <3>2 DEF new
      <4> QED BY <2>5, <4>1
    <3> QED BY <3>1, <3>2
  <2> QED
    BY <2>2, <2>6, <2>7 DEF scalerVars, pictureVars, TypeOK, ViewInv, NothingKept, OfThePool,
       ViewHoldsTexture, LostIsKnown, DrawnIsAsked, WholeWindow
<1>7. CASE OnFrameArrived BY <1>7, FrameKeepsInv
<1> QED BY <1>1, <1>2, <1>3, <1>4, <1>5, <1>6, <1>7 DEF Next

-----------------------------------------------------------------------------
\* Every variable keeps its type.
THEOREM PictureTypeCorrect == Spec => []TypeOK
<1>1. Inv => TypeOK BY DEF Inv
<1> QED BY <1>1, InvInit, InvNext, PTL DEF Spec

\* The frame EncodeFrame accepts is the one that is drawn (TextureScaler::DrawInto
\* tests a pointer, and the view it keeps makes that enough), or black after a view
\* could not be made.
THEOREM NoStaleFrame == Spec => []DrawnIsAsked
<1>1. Inv => DrawnIsAsked BY DEF Inv
<1> QED BY <1>1, InvInit, InvNext, PTL DEF Spec

\* A settled window is shown as its whole client area, and as nothing else
\* (WindowCapture::ComputeCrop).
THEOREM ClientAreaIsShown == Spec => []WholeWindow
<1>1. Inv => WholeWindow BY DEF Inv
<1> QED BY <1>1, InvInit, InvNext, PTL DEF Spec

\* Whatever the window and the client's screen, up to any size: FitPreservingAspect
\* gives an even size inside the limits and the source, close to the limit that
\* binds, that turns the picture by less than three pixels of rounding.
THEOREM EverySizeFits == Spec => []FitFits
<1>1. FitFits
  <2> SUFFICES ASSUME NEW source \in [Axes -> 0 .. MaxSide],
                      NEW max \in [Axes -> 0 .. MaxSide],
                      \A a \in Axes : source[a] > 1 /\ max[a] # 1,
                      NEW fitted \in FitPreservingAspect(source, max)
               PROVE  /\ \A a \in Axes : Fits(fitted[a], source[a], max[a])
                      /\ \E a \in Axes : fitted[a] + 3 >= Bound(source[a], max[a])
                      /\ InProportion(fitted, source)
    BY DEF FitFits
  <2>1. source \in [Axes -> Nat] /\ max \in [Axes -> Nat] BY PictureAssumption
  <2> QED BY <2>1, FitIsGood
<1> QED BY <1>1, PTL
=============================================================================
