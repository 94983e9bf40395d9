----------------------------- MODULE DesktopProofs -----------------------------
(***************************************************************************)
(* Proofs about Desktop, for every desk, region and point, and any number  *)
(* of calls and replugs: the capabilities tell the truth, captures show    *)
(* what they are asked for, a recorded position is replayed in place, and  *)
(* a warp lands where it aims.                                             *)
(***************************************************************************)
EXTENDS Desktop, SequenceTheorems, WellFoundedInduction, TLAPS

(* The session fits its host, and its flags and demands fit the            *)
(* permissions, unless one has changed since it was created.               *)
SessionInv ==
  /\ host \in Host /\ changed \in BOOLEAN
  /\ backend \in IF host = "linux" THEN {"none", "x11", "uinput"} ELSE {"none", host}
  /\ granted \in [Permission -> BOOLEAN]
  /\ ~changed =>
       /\ backend = "windows" => caps = WinCapabilities
       /\ backend = "x11" => caps = X11Capabilities
       /\ backend = "uinput" => caps = UinputCapabilities
       /\ backend = "macos" => caps = MacCapabilities /\ (required["input"] => granted["input"])

(* The operation tried last answered as it would now. *)
ProbeInv ==
  /\ backend = "none" => probe.op = "none"
  /\ probe.op # "none" =>
       /\ probe.op \in DOMAIN Probed
       /\ ~changed =>
            /\ probe.answer \in Answers(probe.op)
            /\ probe.effect = (probe.answer = "ok" /\ (backend = "macos" => granted.input))

Region == [origin : Vector, size : Vector]
On(d, p) == contains(d.bounds, p)

(* A pointer of Windows is always on a display, and its calls are in       *)
(* device pixels.                                                          *)
PointerInv ==
  /\ ppc \in {"idle", "map", "send", "read"}
  /\ ppc # "idle" => backend = "windows"
  /\ cursor \in Vector /\ pixel \in Vector /\ call.point \in Vector
  /\ metrics \in Region
  /\ ppc \in {"map", "send"} => \A a \in Axis : metrics.size[a] > 1
  /\ host = "windows" => \E i \in 1..Len(desk) : On(desk[i], cursor)

MonitorType == [id : Nat, isPrimary : BOOLEAN, grain : Nat \ {0},
                physicalBounds : Region, logicalBounds : Region]

CallName == {"monitors", "primaryMonitor", "virtualBounds", "captureMonitor", "capture", "pixel"}
CallType == [name : CallName, id : Nat, region : Region]

ScreenTypes ==
  /\ pc \in {"idle", "list", "read", "grab", "shoot"}
  /\ op \in CallType
  /\ handles \in Seq(Nat \ {0}) /\ found \in Seq(MonitorType)
  /\ known \in [list : Seq(MonitorType), fresh : BOOLEAN]
  /\ backend = "none" => pc = "idle" /\ op.name = "monitors" /\ ~known.fresh
  /\ pc = "read" => backend # "uinput"
  /\ pc = "idle" => ~matching
  /\ pc = "shoot" \/ matching => backend = "macos"
  /\ pc \in {"grab", "shoot"} \/ matching => op.name \in {"captureMonitor", "capture", "pixel"}

(* The i-th monitor there is. *)
Here(i) == Monitor(desk[i], i)

(* An enumeration that no change of the desk interrupts has read the first *)
(* displays there are and has the others before it.                        *)
Reading ==
  pc = "read" /\ "screen" \in steady =>
    /\ Len(found) + Len(handles) = Len(desk)
    /\ \A i \in 1..Len(found) : found[i] = Here(i)
    /\ \A i \in 1..Len(handles) : handles[i] = desk[Len(found) + i].name

(* A monitor to capture has the id that was asked for, and macOS looks for *)
(* its bounds among those of all there are.                                *)
Capturing ==
  "screen" \in steady =>
    /\ op.name = "captureMonitor" /\ (pc \in {"grab", "shoot"} \/ matching) =>
         \E i \in 1..Len(desk) : Here(i).id = op.id /\ Here(i).physicalBounds = op.region
    /\ pc = "shoot" /\ target # 0 =>
         \E i \in 1..Len(desk) : desk[i].name = target /\ Here(i).physicalBounds = op.region
    /\ pc = "shoot" /\ target = 0 => op.name # "captureMonitor"

(* The primary display, or the first. *)
First == LET main == {i \in 1..Len(desk) : desk[i].main}
         IN IF main # {} THEN Min(main) ELSE 1

(* A list that is fresh is of all the monitors there are, with the primary *)
(* one at its head.                                                        *)
Fresh ==
  known.fresh =>
    /\ "screen" \in steady
    /\ \A i \in 1..Len(desk) : Here(i) \in ToSet(known.list)
    /\ \A m \in ToSet(known.list) : \E i \in 1..Len(desk) : m = Here(i)
    /\ known.list # <<>> /\ Head(known.list) = Here(First)
    /\ op.name = "captureMonitor" => \E m \in ToSet(known.list) : m.id = op.id

ScreenInv == ScreenTypes /\ Reading /\ Capturing /\ Fresh

ScreenAnswers == KnownIdCaptures /\ CaptureExact /\ PrimaryAgrees

-------------------------------------------------------------------------------
(* A factor that is positive can be taken away. *)
LEMMA Cancel ==
  ASSUME NEW d \in Nat \ {0}, NEW p \in Int, NEW q \in Int
  PROVE  /\ d * p < d * q => p < q
         /\ d * p <= d * q => p <= q
BY Z3

(* Division rounds down. *)
LEMMA Division ==
  ASSUME NEW a \in Int, NEW d \in Nat \ {0}
  PROVE  /\ a \div d \in Int
         /\ d * (a \div d) <= a
         /\ a < d * (a \div d) + d
BY Z3

(* Rounding makes a whole number of anything. *)
LEMMA LroundInt ==
  ASSUME NEW l \in Int, NEW g \in Nat \ {0}
  PROVE  lround(l, g) \in Int
<1>1. 2 * l + g \in Int /\ g - 2 * l \in Int /\ 2 * g \in Nat \ {0}
  OBVIOUS
<1>2. (2 * l + g) \div (2 * g) \in Int /\ (g - 2 * l) \div (2 * g) \in Int
  BY <1>1, Division
<1> QED BY <1>2 DEF lround

(* It does nothing to what is whole already. *)
LEMMA LroundExact ==
  ASSUME NEW v \in Int, NEW g \in Nat \ {0}
  PROVE  lround(v * g, g) = v
<1> DEFINE l == v * g
<1>1. l \in Int
  OBVIOUS
<1>2. CASE l >= 0
  <2> DEFINE q == (2 * l + g) \div (2 * g)
  <2>1. q \in Int /\ (2 * g) * q <= 2 * l + g /\ 2 * l + g < (2 * g) * q + 2 * g
    <3>1. 2 * l + g \in Int /\ 2 * g \in Nat \ {0}
      BY <1>1
    <3> QED BY <3>1, Division
  <2> HIDE DEF q
  <2>2. (2 * g) * q = g * (2 * q) /\ 2 * l + g = g * (2 * v + 1)
        /\ (2 * g) * q + 2 * g = g * (2 * q + 2)
    BY <2>1
  <2>3. 2 * q <= 2 * v + 1 /\ 2 * v + 1 < 2 * q + 2
    BY <2>1, <2>2, Cancel
  <2>4. q = v
    BY <2>1, <2>3
  <2> QED BY <1>2, <2>4 DEF lround, q
<1>3. CASE l < 0
  <2> DEFINE q == (g - 2 * l) \div (2 * g)
  <2>1. q \in Int /\ (2 * g) * q <= g - 2 * l /\ g - 2 * l < (2 * g) * q + 2 * g
    <3>1. g - 2 * l \in Int /\ 2 * g \in Nat \ {0}
      BY <1>1
    <3> QED BY <3>1, Division
  <2> HIDE DEF q
  <2>2. (2 * g) * q = g * (2 * q) /\ g - 2 * l = g * (1 - 2 * v)
        /\ (2 * g) * q + 2 * g = g * (2 * q + 2)
    BY <2>1
  <2>3. 2 * q <= 1 - 2 * v /\ 1 - 2 * v < 2 * q + 2
    BY <2>1, <2>2, Cancel
  <2>4. q = -v
    BY <2>1, <2>3
  <2> QED BY <1>3, <2>4 DEF lround, q
<1> QED BY <1>1, <1>2, <1>3

(* What leaves no remainder is a multiple. *)
LEMMA Multiple ==
  ASSUME NEW l \in Int, NEW g \in Nat \ {0}, l % g = 0
  PROVE  \E v \in Int : l = v * g
<1>1. l = g * (l \div g) /\ l \div g \in Int
  BY Z3
<1> QED BY <1>1

(* So rounding tells multiples apart. *)
LEMMA LroundInjective ==
  ASSUME NEW l \in Int, NEW m \in Int, NEW g \in Nat \ {0}, l % g = 0, m % g = 0,
         lround(l, g) = lround(m, g)
  PROVE  l = m
<1>1. PICK v \in Int : l = v * g
  BY Multiple
<1>2. PICK w \in Int : m = w * g
  BY Multiple
<1>3. lround(l, g) = v /\ lround(m, g) = w
  BY <1>1, <1>2, LroundExact
<1> QED BY <1>1, <1>2, <1>3

(* The lesser and the greater of two. *)
LEMMA MinMaxOfTwo ==
  ASSUME NEW x \in Int, NEW y \in Int
  PROVE  /\ Min({x, y}) = IF x <= y THEN x ELSE y
         /\ Max({x, y}) = IF x >= y THEN x ELSE y
BY DEF Min, Max

(* The only one is the least. *)
LEMMA MinOfOne == ASSUME NEW x \in Int PROVE Min({x}) = x
BY DEF Min

(* A set of naturals has a least. *)
LEMMA LeastNat ==
  ASSUME NEW T \in SUBSET Nat, T # {}
  PROVE  \E x \in T : \A y \in T : x <= y
<1> DEFINE R == {ss \in Nat \X Nat : ss[1] < ss[2]}
<1>1. IsWellFoundedOn(R, Nat)
  BY NatLessThanWellFounded DEF OpToRel
<1> HIDE DEF R
<1>2. \E x \in T : \A y \in T : ~(<<y, x>> \in R)
  BY <1>1, WFMin
<1>3. \A x, y \in Nat : ~(<<y, x>> \in R) => x <= y
  BY DEF R
<1> QED BY <1>2, <1>3

(* Min is the least of some naturals. *)
LEMMA MinOfNats ==
  ASSUME NEW T \in SUBSET Nat, T # {}
  PROVE  Min(T) \in T /\ \A y \in T : Min(T) <= y
BY LeastNat DEF Min

(* Of finitely many numbers one is the least, and one the greatest. *)
LEMMA Extremes ==
  ASSUME NEW n \in Nat \ {0}, NEW f \in [1..n -> Int]
  PROVE  /\ \E i \in 1..n : \A j \in 1..n : f[i] <= f[j]
         /\ \E i \in 1..n : \A j \in 1..n : f[i] >= f[j]
<1> DEFINE Low(k) == \E i \in 1..k : \A j \in 1..k : f[i] <= f[j]
           High(k) == \E i \in 1..k : \A j \in 1..k : f[i] >= f[j]
           Bad == {k \in 1..n : ~(Low(k) /\ High(k))}
<1>1. SUFFICES ASSUME Bad # {} PROVE FALSE
  <2>1. n \in 1..n
    OBVIOUS
  <2> QED BY <2>1
<1>2. PICK k \in Bad : \A m \in Bad : k <= m
  <2>1. Bad \in SUBSET Nat
    OBVIOUS
  <2> HIDE DEF Bad
  <2> QED BY <1>1, <2>1, LeastNat
<1>3. k \in 1..n /\ ~(Low(k) /\ High(k))
  BY <1>2
<1>4. k # 1
  <2>1. ASSUME k = 1 PROVE Low(k) /\ High(k)
    <3>1. 1..k = {1}
      BY <2>1
    <3>2. 1 \in 1..n
      OBVIOUS
    <3>3. f[1] <= f[1] /\ f[1] >= f[1]
      BY <3>2
    <3> HIDE DEF Bad
    <3> QED BY <3>1, <3>3
  <2> QED BY <1>3, <2>1
<1>5. k - 1 \in 1..n /\ k - 1 \notin Bad
  <2>1. k - 1 \in 1..n /\ k \in Int /\ ~(k <= k - 1)
    BY <1>3, <1>4
  <2> HIDE DEF Bad
  <2> QED BY <1>2, <2>1
<1>6. PICK a \in 1..(k - 1) : \A j \in 1..(k - 1) : f[a] <= f[j]
  BY <1>5
<1>7. PICK b \in 1..(k - 1) : \A j \in 1..(k - 1) : f[b] >= f[j]
  BY <1>5
<1>8. /\ \A j \in 1..k : f[j] \in Int
      /\ \A j \in 1..k : j \in 1..(k - 1) \/ j = k
      /\ a \in 1..k /\ b \in 1..k /\ k \in 1..k
  BY <1>3, <1>6, <1>7
<1>9. Low(k)
  <2>1. CASE f[a] <= f[k]
    <3>1. \A j \in 1..k : f[a] <= f[j]
      BY <1>6, <1>8, <2>1
    <3> QED BY <1>8, <3>1
  <2>2. CASE ~(f[a] <= f[k])
    <3>1. \A j \in 1..k : f[k] <= f[j]
      BY <1>6, <1>8, <2>2
    <3> QED BY <1>8, <3>1
  <2> QED BY <2>1, <2>2
<1>10. High(k)
  <2>1. CASE f[b] >= f[k]
    <3>1. \A j \in 1..k : f[b] >= f[j]
      BY <1>7, <1>8, <2>1
    <3> QED BY <1>8, <3>1
  <2>2. CASE ~(f[b] >= f[k])
    <3>1. \A j \in 1..k : f[k] >= f[j]
      BY <1>7, <1>8, <2>2
    <3> QED BY <1>8, <3>1
  <2> QED BY <2>1, <2>2
<1> QED BY <1>3, <1>9, <1>10

-------------------------------------------------------------------------------
(* Points and rectangles have integers.                                    *)
LEMMA VectorParts ==
  /\ \A p \in Vector, a \in Axis : p[a] \in Int
  /\ "x" \in Axis /\ "y" \in Axis
BY DEF Vector, Axis

(* Both conversions take points to points, and a conversion to logical     *)
(* units can be taken back.                                                *)
LEMMA Conversions ==
  ASSUME NEW p \in Vector, NEW g \in Nat \ {0}
  PROVE  /\ toPhysical(p, g) \in Vector /\ toLogical(p, g) \in Vector
         /\ toPhysical(toLogical(p, g), g) = p
<1>1. ASSUME NEW a \in Axis
      PROVE  /\ lround(p[a], g) \in Int /\ p[a] * g \in Int
             /\ lround(toLogical(p, g)[a], g) = p[a]
  <2>1. p[a] \in Int
    BY VectorParts
  <2>2. p[a] * g \in Int
    BY <2>1
  <2> QED BY <2>1, <2>2, LroundInt, LroundExact DEF toLogical
<1>2. toPhysical(toLogical(p, g), g) = [a \in Axis |-> p[a]]
  BY <1>1 DEF toPhysical
<1> QED BY <1>1, <1>2 DEF toPhysical, toLogical, Vector

(* The same of rectangles. *)
LEMMA RectConversions ==
  ASSUME NEW r \in Region, NEW g \in Nat \ {0}
  PROVE  RectToPhysical(r, g) \in Region /\ RectToLogical(r, g) \in Region
BY Conversions DEF RectToPhysical, RectToLogical, Rect, Region

(* What a display has. *)
LEMMA DisplayParts ==
  ASSUME NEW d \in Display
  PROVE  /\ d.name \in Nat \ {0} /\ d.grain \in Nat \ {0} /\ d.main \in BOOLEAN
         /\ d.bounds \in Region
         /\ \A a \in Axis : d.bounds.origin[a] \in Int /\ d.bounds.size[a] \in Nat \ {0}
<1>1. d.bounds \in [origin : Vector, size : [Axis -> Nat \ {0}]]
  BY DEF Display
<1>2. /\ d.name \in Nat \ {0} /\ d.grain \in Nat \ {0} /\ d.main \in BOOLEAN
  BY DEF Display
<1>3. \A a \in Axis : d.bounds.origin[a] \in Int /\ d.bounds.size[a] \in Nat \ {0}
  BY <1>1, VectorParts
<1>4. [Axis -> Nat \ {0}] \subseteq Vector
  BY DEF Vector
<1>5. d.bounds \in Region
  BY <1>1, <1>4 DEF Region
<1> QED BY <1>2, <1>3, <1>5

(* The displays of a desk. *)
LEMMA DeskParts ==
  ASSUME NEW h \in Host, NEW s \in Desks[h]
  PROVE  /\ Len(s) \in Nat \ {0}
         /\ \A i \in 1..Len(s) : s[i] \in Display
         /\ ToSet(s) = {s[i] : i \in 1..Len(s)}
         /\ Arranged(h, s)
<1>1. Arranged(h, s)
  BY DesktopAssumption
<1>2. s \in Seq(Display) /\ s # <<>>
  BY <1>1 DEF Arranged
<1> QED BY <1>1, <1>2, ElementOfSeq DEF ToSet

(* The rectangle around the displays is one, and has them all. *)
LEMMA BoundsRegion ==
  ASSUME NEW h \in Host, NEW s \in Desks[h]
  PROVE  /\ Bounds({d.bounds : d \in ToSet(s)}) \in Region
         /\ LET around == Bounds({d.bounds : d \in ToSet(s)})
            IN \A d \in ToSet(s), a \in Axis :
                 /\ around.origin[a] <= d.bounds.origin[a]
                 /\ d.bounds.origin[a] + d.bounds.size[a] <= around.origin[a] + around.size[a]
<1> DEFINE rects == {d.bounds : d \in ToSet(s)}
           n == Len(s)
<1>1. n \in Nat \ {0} /\ (\A i \in 1..n : s[i] \in Display) /\ ToSet(s) = {s[i] : i \in 1..n}
  BY DeskParts
<1>2. \A i \in 1..n, a \in Axis :
        s[i].bounds.origin[a] \in Int /\ s[i].bounds.size[a] \in Int
  BY <1>1, DisplayParts
<1> HIDE DEF n
<1>3. ASSUME NEW a \in Axis
      PROVE  /\ Min({r.origin[a] : r \in rects}) \in Int
             /\ Max({r.origin[a] + r.size[a] : r \in rects}) \in Int
             /\ \A i \in 1..n :
                  /\ Min({r.origin[a] : r \in rects}) <= s[i].bounds.origin[a]
                  /\ s[i].bounds.origin[a] + s[i].bounds.size[a]
                       <= Max({r.origin[a] + r.size[a] : r \in rects})
  <2> DEFINE f == [i \in 1..n |-> s[i].bounds.origin[a]]
             g == [i \in 1..n |-> s[i].bounds.origin[a] + s[i].bounds.size[a]]
  <2>1. f \in [1..n -> Int] /\ g \in [1..n -> Int]
    BY <1>2
  <2>2. /\ {r.origin[a] : r \in rects} = {f[i] : i \in 1..n}
        /\ {r.origin[a] + r.size[a] : r \in rects} = {g[i] : i \in 1..n}
    BY <1>1
  <2>3. \A i \in 1..n : f[i] = s[i].bounds.origin[a]
                        /\ g[i] = s[i].bounds.origin[a] + s[i].bounds.size[a]
    OBVIOUS
  <2> HIDE DEF f, g
  <2>4. /\ \E i \in 1..n : \A j \in 1..n : f[i] <= f[j]
        /\ \E i \in 1..n : \A j \in 1..n : g[i] >= g[j]
    BY <1>1, <2>1, Extremes
  <2>5. /\ Min({f[i] : i \in 1..n}) \in {f[i] : i \in 1..n}
        /\ \A i \in 1..n : Min({f[j] : j \in 1..n}) <= f[i]
    BY <2>4 DEF Min
  <2>6. /\ Max({g[i] : i \in 1..n}) \in {g[i] : i \in 1..n}
        /\ \A i \in 1..n : g[i] <= Max({g[j] : j \in 1..n})
    <3>1. PICK i \in 1..n : \A j \in 1..n : g[i] >= g[j]
      BY <2>4
    <3>2. \A j \in 1..n : g[j] <= g[i]
      BY <2>1, <3>1
    <3>3. /\ Max({g[j] : j \in 1..n}) \in {g[j] : j \in 1..n}
          /\ \A j \in 1..n : Max({g[k] : k \in 1..n}) >= g[j]
      BY <3>1 DEF Max
    <3> QED BY <2>1, <3>3
  <2>7. /\ Min({f[i] : i \in 1..n}) \in Int
        /\ \A i \in 1..n : Min({f[j] : j \in 1..n}) <= s[i].bounds.origin[a]
    BY <2>1, <2>3, <2>5
  <2>8. /\ Max({g[i] : i \in 1..n}) \in Int
        /\ \A i \in 1..n : s[i].bounds.origin[a] + s[i].bounds.size[a]
                            <= Max({g[j] : j \in 1..n})
    BY <2>1, <2>3, <2>6
  <2> QED BY <2>2, <2>7, <2>8
<1> DEFINE low == [a \in Axis |-> Min({r.origin[a] : r \in rects})]
           high == [a \in Axis |-> Max({r.origin[a] + r.size[a] : r \in rects})]
<1>4. Bounds(rects) = Rect(low, [a \in Axis |-> high[a] - low[a]])
  BY DEF Bounds
<1>5. low \in Vector /\ high \in Vector
  BY <1>3 DEF Vector
<1>6. \A i \in 1..n, a \in Axis :
        /\ low[a] <= s[i].bounds.origin[a]
        /\ s[i].bounds.origin[a] + s[i].bounds.size[a] <= high[a]
  BY <1>3
<1> HIDE DEF low, high, rects
<1>7. [a \in Axis |-> high[a] - low[a]] \in Vector
  BY <1>5 DEF Vector
<1>8. Bounds(rects) \in Region
  BY <1>4, <1>5, <1>7 DEF Rect, Region
<1>9. \A a \in Axis : /\ Bounds(rects).origin[a] = low[a]
                      /\ Bounds(rects).origin[a] + Bounds(rects).size[a] = high[a]
  BY <1>4, <1>5, VectorParts DEF Rect
<1> QED BY <1>1, <1>6, <1>8, <1>9 DEF rects

(* The system puts the cursor on a display. *)
LEMMA OntoDisplay ==
  ASSUME NEW d \in Display, NEW p \in Vector
  PROVE  Onto(d, p) \in Vector /\ On(d, Onto(d, p))
<1>1. ASSUME NEW a \in Axis
      PROVE  /\ Onto(d, p)[a] \in Int
             /\ d.bounds.origin[a] <= Onto(d, p)[a]
             /\ Onto(d, p)[a] < d.bounds.origin[a] + d.bounds.size[a]
  <2> DEFINE low == d.bounds.origin[a]
             high == d.bounds.origin[a] + d.bounds.size[a] - 1
  <2>1. p[a] \in Int /\ low \in Int /\ high \in Int /\ low <= high
    BY VectorParts, DisplayParts
  <2>2. Onto(d, p)[a] = Max({low, Min({p[a], high})})
    BY DEF Onto
  <2>3. d.bounds.origin[a] + d.bounds.size[a] = high + 1
    BY DisplayParts
  <2> HIDE DEF low, high
  <2>4. PICK m \in Int : m = Min({p[a], high}) /\ m <= high
    BY <2>1, MinMaxOfTwo
  <2>5. Max({low, m}) = (IF low >= m THEN low ELSE m)
    BY <2>1, MinMaxOfTwo
  <2>6. Onto(d, p)[a] \in Int /\ low <= Onto(d, p)[a] /\ Onto(d, p)[a] <= high
    BY <2>1, <2>2, <2>4, <2>5
  <2> QED BY <2>1, <2>3, <2>6 DEF low
<1>2. Onto(d, p) \in Vector
  BY <1>1 DEF Onto, Vector
<1> QED BY <1>1, <1>2 DEF On, contains

(* Wherever it goes, it is on one of the displays. *)
LEMMA Settles ==
  ASSUME NEW h \in Host, NEW s \in Desks[h], NEW p \in Vector, Settle(p, ToSet(s))
  PROVE  cursor' \in Vector /\ \E i \in 1..Len(s) : On(s[i], cursor')
<1>1. PICK i \in 1..Len(s) : cursor' = Onto(s[i], p)
  BY DeskParts DEF Settle
<1>2. s[i] \in Display
  BY DeskParts
<1> QED BY <1>1, <1>2, OntoDisplay

(* The monitors the backends make of displays. *)
LEMMA MonitorParts ==
  ASSUME NEW d \in Display, NEW n \in Nat, backend \in {"windows", "macos", "x11"}
  PROVE  Monitor(d, n) \in MonitorType
<1>1. /\ d.name \in Nat /\ d.grain \in Nat \ {0} /\ d.main \in BOOLEAN
      /\ d.bounds \in Region
  BY DisplayParts
<1>2. /\ RectToLogical(d.bounds, d.grain) \in Region
      /\ RectToLogical(d.bounds, Unit) \in Region
      /\ RectToPhysical(d.bounds, d.grain) \in Region
  BY <1>1, UnitAssumption, RectConversions
<1>3. /\ WinMonitor(d, n) \in MonitorType
      /\ X11Monitor(d, n) \in MonitorType
      /\ MacMonitor(d) \in MonitorType
  BY <1>1, <1>2, UnitAssumption
     DEF WinMonitor, X11Monitor, MacMonitor, Entry, MonitorType
<1> QED BY <1>3 DEF Monitor

(* What macOS makes of one that is gone. *)
LEMMA GoneParts ==
  ASSUME NEW name \in Nat, NEW n, backend = "macos"
  PROVE  Monitor(Gone(name), n) \in MonitorType
<1>1. [a \in Axis |-> 0] \in Vector
  BY DEF Vector
<1> DEFINE g == Gone(name)
<1>2. g.name = name /\ g.main = FALSE /\ g.grain = Unit /\ g.bounds \in Region
  BY <1>1 DEF Gone, Rect, Region
<1> HIDE DEF g
<1>3. RectToPhysical(g.bounds, g.grain) \in Region
  BY <1>2, UnitAssumption, RectConversions
<1>4. MacMonitor(g) \in MonitorType
  BY <1>2, <1>3, UnitAssumption DEF MacMonitor, Entry, MonitorType
<1> QED BY <1>4 DEF Monitor, g

-------------------------------------------------------------------------------
(* The capabilities tell the truth, at first ... *)
LEMMA InitSession == Init => SessionInv /\ ProbeInv
<1> SUFFICES ASSUME Init PROVE SessionInv /\ ProbeInv
  OBVIOUS
<1>1. /\ host \in Host /\ backend = "none" /\ changed = FALSE
      /\ granted \in [Permission -> BOOLEAN] /\ probe.op = "none"
  BY DEF Init, SessionInit
<1> QED BY <1>1 DEF SessionInv, ProbeInv

(* ... when the session is created ... *)
LEMMA CreateKeepsSession ==
  ASSUME SessionInv, ProbeInv, Create
  PROVE  SessionInv' /\ ProbeInv'
<1>1. /\ backend = "none" /\ probe.op = "none"
      /\ host \in Host /\ changed \in BOOLEAN /\ granted \in [Permission -> BOOLEAN]
  BY DEF Create, SessionInv, ProbeInv
<1>2. ASSUME NEW error, Refused(error)
      PROVE  SessionInv' /\ ProbeInv'
  BY <1>2 DEF Refused, SessionInv, ProbeInv, Answers, Unsupported, MacCapabilities
<1>3. ASSUME NEW b, NEW flags, NEW options \in [Permission -> BOOLEAN],
             Created(b, flags, options),
             b \in IF host = "linux" THEN {"x11", "uinput"} ELSE {host},
             \/ b = "windows" /\ flags = WinCapabilities
             \/ b = "x11" /\ flags = X11Capabilities
             \/ b = "uinput" /\ flags = UinputCapabilities
             \/ /\ b = "macos" /\ flags = MacCapabilities
                /\ options["input"] => granted["input"]
      PROVE  SessionInv' /\ ProbeInv'
  <2>1. /\ backend' = b /\ caps' = flags /\ required' = options /\ changed' = FALSE
        /\ host' = host /\ granted' = granted /\ probe' = probe
    BY <1>3 DEF Created
  <2>2. MacCapabilities' = MacCapabilities
    BY <2>1 DEF MacCapabilities
  <2>3. b # "none"
    BY <1>3
  <2>4. SessionInv'
    BY <1>1, <1>3, <2>1, <2>2 DEF SessionInv
  <2>5. ProbeInv'
    BY <1>1, <2>1, <2>3 DEF ProbeInv
  <2> QED BY <2>4, <2>5
<1>4. PICK options \in [Permission -> BOOLEAN] :
        \/ CreateWindows(options)
        \/ CreateMac(options)
        \/ \E choice \in {"Auto", "X11", "Uinput"}, display \in {"unset", "dead", "live"},
              wayland \in BOOLEAN, device \in {"closed", "broken", "open"} :
             CreateLinux(choice, display, wayland, device, options)
  BY DEF Create
<1>5. CASE CreateWindows(options)
  BY <1>3, <1>5 DEF CreateWindows
<1>6. CASE CreateMac(options)
  <2>1. CASE Lacking(options)
    BY <1>2, <1>6, <2>1 DEF CreateMac
  <2>2. CASE ~Lacking(options)
    <3>1. options["input"] => granted["input"]
      BY <2>2 DEF Lacking, Permission
    <3>2. host = "macos" /\ Created("macos", MacCapabilities, options)
      BY <1>6, <2>2 DEF CreateMac
    <3> QED BY <1>3, <3>1, <3>2
  <2> QED BY <2>1, <2>2
<1>7. ASSUME NEW choice \in {"Auto", "X11", "Uinput"},
             NEW display \in {"unset", "dead", "live"},
             NEW wayland \in BOOLEAN, NEW device \in {"closed", "broken", "open"},
             CreateLinux(choice, display, wayland, device, options)
      PROVE  SessionInv' /\ ProbeInv'
  <2>1. \/ \E error : Refused(error)
        \/ Created("x11", X11Capabilities, options)
        \/ Created("uinput", UinputCapabilities, options)
    BY <1>7 DEF CreateLinux, MakeX11, MakeUinput
  <2>2. host = "linux"
    BY <1>7 DEF CreateLinux
  <2> QED BY <1>2, <1>3, <2>1, <2>2
<1> QED BY <1>4, <1>5, <1>6, <1>7

(* ... and afterwards. *)
LEMMA NextSession ==
  ASSUME SessionInv, ProbeInv, [Next]_vars
  PROVE  SessionInv' /\ ProbeInv'
<1>1. ASSUME UNCHANGED <<sessionVars, granted, changed, probe>>
      PROVE  SessionInv' /\ ProbeInv'
  BY <1>1 DEF sessionVars, SessionInv, ProbeInv, MacCapabilities, Answers, Unsupported
<1>2. CASE CreateSession
  BY <1>2, CreateKeepsSession DEF CreateSession
<1>3. CASE Call
  <2>1. UNCHANGED <<sessionVars, granted, changed>> /\ backend # "none"
    BY <1>3 DEF Call
  <2>2. CASE UNCHANGED probe
    BY <1>1, <2>1, <2>2
  <2>3. ASSUME NEW o \in DOMAIN Probed, Probe(o)
        PROVE  SessionInv' /\ ProbeInv'
    <3>1. PICK r \in Answers(o) :
            probe' = [op |-> o, answer |-> r,
                      effect |-> r = "ok" /\ (backend = "macos" => granted.input)]
      BY <2>3 DEF Probe
    <3>2. SessionInv'
      BY <2>1 DEF sessionVars, SessionInv, MacCapabilities
    <3>3. Answers(o)' = Answers(o)
      BY <2>1 DEF sessionVars, Answers, Unsupported
    <3>4. probe'.op = o /\ probe'.answer = r
          /\ probe'.effect = (r = "ok" /\ (backend = "macos" => granted.input))
      BY <3>1
    <3>5. ProbeInv'
      BY <2>1, <3>3, <3>4 DEF ProbeInv, sessionVars, Answers, Unsupported
    <3> QED BY <3>2, <3>5
  <2> QED BY <1>3, <2>2, <2>3 DEF Call
<1>4. CASE Step
  BY <1>1, <1>4 DEF Step
<1>5. CASE Replug
  BY <1>1, <1>5 DEF Replug
<1>6. CASE ChangePermission
  <2>1. PICK p \in Permission : Toggle(p)
    BY <1>6 DEF ChangePermission
  <2>2. /\ granted' \in [Permission -> BOOLEAN] /\ changed' = TRUE
        /\ UNCHANGED <<sessionVars, probe>>
    BY <2>1 DEF Toggle, SessionInv
  <2> QED BY <2>2 DEF sessionVars, SessionInv, ProbeInv
<1>7. CASE UNCHANGED vars
  BY <1>1, <1>7 DEF vars
<1> QED BY <1>2, <1>3, <1>4, <1>5, <1>6, <1>7 DEF Next, AtRest

(* So they always do. *)
LEMMA SessionInvariant == Spec => [](SessionInv /\ ProbeInv)
BY InitSession, NextSession, PTL DEF Spec

(* A flag that is false names an operation that is refused by name, on     *)
(* every system; macOS drops what it would inject.                         *)
THEOREM DesktopFalseFlagFails == Spec => []FalseFlagFails
<1>1. SessionInv /\ ProbeInv => FalseFlagFails
  <2> SUFFICES ASSUME SessionInv, ProbeInv, backend # "none", ~changed,
                      probe.op # "none", Probed[probe.op] \notin caps
               PROVE  \/ probe.answer \in {"unsupported", "permissionDenied"}
                      \/ backend = "macos" /\ probe.op \in Injections
    BY DEF FalseFlagFails
  <2>1. probe.op \in {"press", "typeChar", "button", "extraButton", "pixelScroll", "start"}
    BY DEF ProbeInv, Probed
  <2>2. probe.answer \in Answers(probe.op)
    BY DEF ProbeInv
  <2>3. CASE backend \in {"windows", "x11"}
    <3>1. caps = WinCapabilities
      BY <2>3 DEF SessionInv, X11Capabilities
    <3>2. probe.op = "pixelScroll"
      BY <2>1, <3>1 DEF Probed, WinCapabilities, Always, Injecting
    <3> QED BY <2>2, <2>3, <3>2 DEF Answers, Unsupported
  <2>4. CASE backend = "uinput"
    <3>1. caps = UinputCapabilities
      BY <2>4 DEF SessionInv
    <3>2. probe.op \in {"typeChar", "pixelScroll", "start"}
      BY <2>1, <3>1 DEF Probed, UinputCapabilities
    <3> QED BY <2>2, <2>4, <3>2 DEF Answers, Unsupported
  <2>5. CASE backend = "macos"
    <3>1. caps = MacCapabilities
      BY <2>5 DEF SessionInv
    <3>2. CASE probe.op \in Injections
      BY <2>5, <3>2
    <3>3. CASE probe.op = "start"
      <4>1. ~granted.input
        BY <3>1, <3>3 DEF Probed, MacCapabilities
      <4> QED BY <2>2, <2>5, <3>3, <4>1 DEF Answers, Unsupported
    <3> QED BY <2>1, <3>2, <3>3 DEF Injections
  <2> QED BY <2>3, <2>4, <2>5 DEF SessionInv, Host
<1> QED BY <1>1, SessionInvariant, PTL

(* A caller who demanded the input permission is never told ok of an event *)
(* that was dropped, unless the permission was taken back.                 *)
THEOREM DesktopRequiredDelivers == Spec => []RequiredDelivers
<1>1. SessionInv /\ ProbeInv => RequiredDelivers
  <2> SUFFICES ASSUME SessionInv, ProbeInv, required["input"], ~changed,
                      probe.op \in Injections, probe.answer = "ok"
               PROVE  probe.effect
    BY DEF RequiredDelivers
  <2>1. probe.op # "none"
    BY DEF Injections
  <2>2. probe.effect = (backend = "macos" => granted["input"])
    BY <2>1 DEF ProbeInv
  <2> QED BY <2>2 DEF SessionInv
<1> QED BY <1>1, SessionInvariant, PTL

-------------------------------------------------------------------------------
(* A main display is where the pointer starts. *)
LEMMA OriginIsOn ==
  ASSUME NEW h \in Host, h # "linux", NEW s \in Desks[h]
  PROVE  \E i \in 1..Len(s) : On(s[i], Origin)
<1>1. PICK i \in 1..Len(s) : s[i].bounds.origin = Origin
  BY DeskParts DEF Arranged
<1>2. \A a \in Axis : s[i].bounds.size[a] \in Nat \ {0}
  BY DeskParts, DisplayParts
<1>3. \A a \in Axis : Origin[a] = 0
  BY DEF Origin
<1>4. On(s[i], Origin)
  BY <1>1, <1>2, <1>3 DEF On, contains
<1> QED BY <1>4

(* Where the pointer starts, ... *)
LEMMA InitPointer == Init => desk \in Desks[host] /\ PointerInv
<1> SUFFICES ASSUME Init PROVE desk \in Desks[host] /\ PointerInv
  OBVIOUS
<1>1. /\ host \in Host /\ desk \in Desks[host] /\ backend = "none"
      /\ cursor = Origin /\ ppc = "idle" /\ call.point = Origin /\ pixel = Origin
      /\ metrics = Rect(Origin, Origin)
  BY DEF Init, SessionInit, PointerInit
<1>2. Origin \in Vector
  BY DEF Origin, Vector
<1>3. metrics \in Region
  BY <1>1, <1>2 DEF Rect, Region
<1>4. host = "windows" => \E i \in 1..Len(desk) : On(desk[i], cursor)
  BY <1>1, OriginIsOn
<1> QED BY <1>1, <1>2, <1>3, <1>4 DEF PointerInv

(* ... and when a call begins. *)
LEMMA PointerCallKeeps ==
  ASSUME SessionInv, desk \in Desks[host], PointerInv, backend # "none", PointerCall,
         UNCHANGED <<host, backend, desk>>
  PROVE  PointerInv'
<1>1. host \in Host /\ backend \in Backend /\ (host = "windows" <=> backend = "windows")
  BY DEF SessionInv, Host, Backend
<1>2. /\ ppc = "idle" /\ cursor \in Vector /\ pixel \in Vector /\ metrics \in Region
      /\ Origin \in Vector
  BY DEF PointerInv, PointerCall, Origin, Vector
<1>3. ASSUME NEW l \in Points[backend], WinWarp(l)
      PROVE  PointerInv'
  <2>1. l \in Vector
    BY <1>1, PointsAssumption
  <2>2. VirtualScreen \in Region
    BY <1>1, BoundsRegion DEF VirtualScreen, Displays
  <2>3. /\ backend = "windows" /\ call'.point = l /\ UNCHANGED <<cursor, pixel>>
    BY <1>3 DEF WinWarp
  <2>4. CASE \E a \in Axis : VirtualScreen.size[a] <= 1
    <3>1. ppc' = "idle" /\ metrics' = metrics
      BY <1>3, <2>4 DEF WinWarp, ReplyWith
    <3> QED BY <1>2, <2>1, <2>3, <3>1 DEF PointerInv
  <2>5. CASE ~\E a \in Axis : VirtualScreen.size[a] <= 1
    <3>1. ppc' = "map" /\ metrics' = VirtualScreen
      BY <1>3, <2>5 DEF WinWarp
    <3>2. \A a \in Axis : VirtualScreen.size[a] > 1
      BY <2>2, <2>5, VectorParts DEF Region
    <3> QED BY <1>2, <2>1, <2>2, <2>3, <3>1, <3>2 DEF PointerInv
  <2> QED BY <2>4, <2>5
<1>4. ASSUME NEW l \in Points[backend], WarpAt(l)
      PROVE  PointerInv'
  <2>1. l \in Vector /\ toPhysical(l, Unit) \in Vector
    BY <1>1, PointsAssumption, UnitAssumption, Conversions
  <2>2. /\ call'.point = l /\ ppc' = "idle" /\ UNCHANGED <<metrics, pixel>>
        /\ backend # "windows"
    BY <1>4 DEF WarpAt, ReplyWith
  <2>3. \/ cursor' = cursor \/ Settle(l, Displays) \/ Settle(toPhysical(l, Unit), Displays)
    BY <1>4 DEF WarpAt
  <2>4. cursor' \in Vector
    BY <1>1, <1>2, <2>1, <2>3, Settles DEF Displays
  <2> QED BY <1>1, <1>2, <2>1, <2>2, <2>4 DEF PointerInv
<1>5. CASE WinRead
  <2>1. /\ backend = "windows" /\ call'.point = Origin /\ pixel' \in {pixel, cursor}
        /\ ppc' \in {"read", "idle"} /\ UNCHANGED <<cursor, metrics>>
    BY <1>5 DEF WinRead, ReplyWith
  <2> QED BY <1>2, <2>1 DEF PointerInv
<1>6. CASE ReadAt
  <2>1. /\ call'.point = Origin /\ ppc' = "idle" /\ UNCHANGED <<cursor, metrics, pixel>>
    BY <1>6 DEF ReadAt, ReplyWith
  <2> QED BY <1>2, <2>1 DEF PointerInv
<1> QED BY <1>3, <1>4, <1>5, <1>6 DEF PointerCall

(* Its steps read the desk, or put the cursor somewhere on it. *)
LEMMA PointerStepKeeps ==
  ASSUME SessionInv, desk \in Desks[host], PointerInv, PointerStep,
         UNCHANGED <<host, backend, desk>>
  PROVE  PointerInv'
<1>1. /\ host \in Host /\ cursor \in Vector /\ pixel \in Vector /\ metrics \in Region
      /\ call.point \in Vector
  BY DEF SessionInv, PointerInv
<1>2. CASE WinMap
  <2> DEFINE hits == LogicalHits(call.point)
  <2>1. /\ ppc = "map" /\ UNCHANGED <<cursor, call, metrics>>
        /\ \/ ppc' = "idle" /\ pixel' = pixel
           \/ /\ hits # {} /\ ppc' = "send"
              /\ pixel' = toPhysical(call.point, FirstGrain(hits))
    BY <1>2 DEF WinMap, ReplyWith
  <2>2. ASSUME hits # {} PROVE FirstGrain(hits) \in Nat \ {0}
    <3>1. hits \in SUBSET (1..Len(desk)) /\ Len(desk) \in Nat
      BY <1>1, DeskParts DEF LogicalHits
    <3> HIDE DEF hits
    <3>2. Min(hits) \in hits
      <4>1. hits \in SUBSET Nat
        BY <3>1
      <4> QED BY <2>2, <4>1, MinOfNats
    <3>3. desk[Min(hits)] \in Display
      BY <1>1, <3>1, <3>2, DeskParts
    <3> QED BY <3>3, DisplayParts DEF FirstGrain
  <2> HIDE DEF hits
  <2>3. pixel' \in Vector
    BY <1>1, <2>1, <2>2, Conversions
  <2> QED BY <1>1, <2>1, <2>3 DEF PointerInv
<1>3. CASE WinSend
  <2> DEFINE screen == VirtualScreen
             n == [a \in Axis |-> Normalized(pixel, a)]
             floor == [a \in Axis |-> screen.origin[a] + ((n[a] * screen.size[a]) \div 65536)]
             nearest == [a \in Axis |-> screen.origin[a]
                                        + lround(n[a] * (screen.size[a] - 1), 65535)]
  <2>1. /\ ppc = "send" /\ ppc' = "idle" /\ UNCHANGED <<call, metrics, pixel>>
        /\ cursor' = cursor \/ Settle(floor, Displays) \/ Settle(nearest, Displays)
    BY <1>3 DEF WinSend, ReplyWith
  <2>2. screen \in Region
    BY <1>1, BoundsRegion DEF VirtualScreen, Displays
  <2> HIDE DEF screen, floor, nearest
  <2>3. ASSUME NEW a \in Axis
        PROVE  /\ screen.origin[a] + ((n[a] * screen.size[a]) \div 65536) \in Int
               /\ screen.origin[a] + lround(n[a] * (screen.size[a] - 1), 65535) \in Int
    <3>1. /\ screen.origin[a] \in Int /\ screen.size[a] \in Int /\ pixel[a] \in Int
          /\ metrics.origin[a] \in Int /\ metrics.size[a] \in Int /\ metrics.size[a] > 1
      BY <1>1, <2>1, <2>2, VectorParts DEF Region, PointerInv
    <3>2. n[a] \in Int
      <4> DEFINE part == (pixel[a] - metrics.origin[a]) * 65535
                 whole == metrics.size[a] - 1
      <4>1. part \in Int /\ whole \in Nat \ {0}
        BY <3>1
      <4>2. Normalized(pixel, a) = lround(part, whole)
        BY DEF Normalized
      <4> HIDE DEF part, whole
      <4>3. Normalized(pixel, a) \in Int
        BY <4>1, <4>2, LroundInt
      <4> QED BY <4>3
    <3> HIDE DEF n
    <3>3. n[a] * screen.size[a] \in Int /\ n[a] * (screen.size[a] - 1) \in Int
      BY <3>1, <3>2
    <3>4. (n[a] * screen.size[a]) \div 65536 \in Int
      BY <3>3, Division
    <3>5. lround(n[a] * (screen.size[a] - 1), 65535) \in Int
      BY <3>3, LroundInt
    <3> QED BY <3>1, <3>4, <3>5
  <2>4. floor \in Vector /\ nearest \in Vector
    BY <2>3 DEF Vector, floor, nearest
  <2>5. cursor' \in Vector /\ (host = "windows" => \E i \in 1..Len(desk) : On(desk[i], cursor'))
    BY <1>1, <2>1, <2>4, Settles DEF Displays, PointerInv
  <2> QED BY <1>1, <2>1, <2>5 DEF PointerInv
<1>4. CASE WinReadMap
  <2>1. ppc' = "idle" /\ UNCHANGED <<cursor, call, metrics, pixel>>
    BY <1>4 DEF WinReadMap, ReplyWith
  <2> QED BY <2>1 DEF PointerInv
<1> QED BY <1>2, <1>3, <1>4 DEF PointerStep

(* So wherever it is moved, and however the desk is replugged.             *)
LEMMA NextPointer ==
  ASSUME SessionInv, desk \in Desks[host], PointerInv, [Next]_vars
  PROVE  desk' \in Desks[host'] /\ PointerInv'
<1>1. host \in Host /\ host' = host
  BY DEF SessionInv, Next, CreateSession, Create, CreateWindows, CreateMac, CreateLinux,
         MakeX11, MakeUinput, Created, Refused, Call, Step, Replug, ChangePermission,
         Toggle, AtRest, sessionVars, vars
<1>2. ASSUME UNCHANGED <<pointerVars, desk>>, ppc # "idle" => backend' = backend
      PROVE  desk' \in Desks[host'] /\ PointerInv'
  BY <1>1, <1>2 DEF PointerInv, pointerVars
<1>3. CASE CreateSession
  <2>1. backend = "none"
    BY <1>3 DEF CreateSession, Create
  <2>2. ppc = "idle"
    BY <2>1 DEF PointerInv
  <2> QED BY <1>2, <1>3, <2>2 DEF CreateSession, deskVars
<1>4. CASE Call
  <2>1. UNCHANGED <<sessionVars, desk>> /\ backend # "none"
    BY <1>4 DEF Call
  <2>2. CASE PointerCall
    BY <1>1, <2>1, <2>2, PointerCallKeeps DEF sessionVars
  <2>3. CASE UNCHANGED pointerVars
    BY <1>2, <2>1, <2>3 DEF sessionVars
  <2> QED BY <1>4, <2>2, <2>3 DEF Call
<1>5. CASE Step
  <2>1. UNCHANGED <<sessionVars, desk>>
    BY <1>5 DEF Step, deskVars
  <2>2. CASE PointerStep
    BY <1>1, <2>1, <2>2, PointerStepKeeps DEF sessionVars
  <2>3. CASE UNCHANGED pointerVars
    BY <1>2, <2>1, <2>3 DEF sessionVars
  <2> QED BY <1>5, <2>2, <2>3 DEF Step
<1>6. CASE Replug
  <2>1. /\ desk' \in Desks[host] /\ Settle(cursor, ToSet(desk'))
        /\ UNCHANGED <<sessionVars, ppc, call, metrics, pixel>>
    BY <1>6 DEF Replug
  <2>2. cursor' \in Vector /\ \E i \in 1..Len(desk') : On(desk'[i], cursor')
    BY <1>1, <2>1, Settles DEF PointerInv
  <2> QED BY <1>1, <2>1, <2>2 DEF PointerInv, sessionVars
<1>7. CASE ChangePermission
  <2>1. UNCHANGED <<sessionVars, desk, pointerVars>>
    BY <1>7 DEF ChangePermission, Toggle, deskVars
  <2> QED BY <1>2, <2>1 DEF sessionVars
<1>8. CASE UNCHANGED vars
  BY <1>2, <1>8 DEF vars, sessionVars, deskVars
<1> QED BY <1>3, <1>4, <1>5, <1>6, <1>7, <1>8 DEF Next, AtRest

(* The pointer is always on a display of Windows, and of the right type.   *)
LEMMA PointerInvariant == Spec => [](SessionInv /\ desk \in Desks[host] /\ PointerInv)
<1>1. Init => SessionInv /\ desk \in Desks[host] /\ PointerInv
  BY InitSession, InitPointer
<1>2. SessionInv /\ desk \in Desks[host] /\ PointerInv /\ [Next]_vars =>
        (desk \in Desks[host])' /\ PointerInv'
  BY NextPointer
<1>3. Spec => []SessionInv
  BY SessionInvariant, PTL
<1> QED BY <1>1, <1>2, <1>3, PTL DEF Spec

(* On a desk of one density a position that is recorded is replayed at the *)
(* pixel it was recorded at, wherever the displays are.                    *)
THEOREM DesktopRecordedReplays == Spec => []RecordedReplays
<1>1. SessionInv /\ desk \in Desks[host] /\ PointerInv => RecordedReplays
  <2> SUFFICES ASSUME SessionInv, desk \in Desks[host], PointerInv,
                      backend = "windows", Uniform
               PROVE  Aim(Recorded(cursor)) = {cursor}
    BY DEF RecordedReplays
  <2>1. host = "windows" /\ host \in Host /\ cursor \in Vector
    BY DEF SessionInv, PointerInv
  <2>2. PICK m \in 1..Len(desk) : desk[m].main
    BY <2>1, DeskParts DEF Arranged
  <2>3. PICK g \in Nat \ {0} : \A i \in 1..Len(desk) : desk[i].grain = g
    <3>1. \A i, j \in 1..Len(desk) : desk[i].grain = desk[j].grain
      BY <2>1, DeskParts DEF Uniform, Displays
    <3>2. desk[m].grain \in Nat \ {0}
      BY <2>1, DeskParts, DisplayParts
    <3> QED BY <3>1, <3>2
  <2>4. Recorded(cursor) = toLogical(cursor, g)
    <3>1. \A d \in Displays : d.grain = g
      BY <2>1, <2>3, DeskParts DEF Displays
    <3>2. (CHOOSE d \in Displays : d.main) \in Displays
      BY <2>1, <2>2, DeskParts DEF Displays
    <3> QED BY <3>1, <3>2 DEF Recorded
  <2> DEFINE l == toLogical(cursor, g)
             hits == LogicalHits(l)
  <2>5. hits # {}
    <3>1. PICK i \in 1..Len(desk) : On(desk[i], cursor)
      BY <2>1 DEF PointerInv
    <3>2. ASSUME NEW a \in Axis
          PROVE  LET r == RectToLogical(desk[i].bounds, g)
                 IN r.origin[a] <= l[a] /\ l[a] < r.origin[a] + r.size[a]
      <4> DEFINE o == desk[i].bounds.origin[a]
                 s == desk[i].bounds.size[a]
                 c == cursor[a]
      <4>1. o \in Int /\ s \in Int /\ c \in Int /\ o <= c /\ c < o + s
        BY <2>1, <3>1, DeskParts, DisplayParts, VectorParts DEF On, contains
      <4>2. /\ RectToLogical(desk[i].bounds, g).origin[a] = o * g
            /\ RectToLogical(desk[i].bounds, g).size[a] = s * g
            /\ l[a] = c * g
        BY DEF RectToLogical, Rect, toLogical
      <4> HIDE DEF o, s, c
      <4>3. o * g <= c * g /\ c * g < o * g + s * g
        <5>1. (o + s) * g = o * g + s * g
          BY <4>1
        <5>2. o * g <= c * g
          BY <4>1
        <5>3. c * g < (o + s) * g
          BY <4>1
        <5> QED BY <5>1, <5>2, <5>3
      <4> QED BY <4>2, <4>3
    <3>3. desk[i].grain = g
      BY <2>3
    <3>4. contains(RectToLogical(desk[i].bounds, desk[i].grain), l)
      BY <3>2, <3>3 DEF contains
    <3>5. i \in hits
      BY <3>4 DEF LogicalHits
    <3> QED BY <3>5
  <2>6. FirstGrain(hits) = g
    <3>1. hits \in SUBSET (1..Len(desk)) /\ Len(desk) \in Nat
      BY <2>1, DeskParts DEF LogicalHits
    <3> HIDE DEF hits
    <3>2. hits \in SUBSET Nat
      BY <3>1
    <3>3. Min(hits) \in hits
      BY <2>5, <3>2, MinOfNats
    <3> QED BY <2>3, <3>1, <3>3 DEF FirstGrain
  <2>7. toPhysical(l, g) = cursor
    BY <2>1, Conversions
  <2> QED BY <2>4, <2>5, <2>6, <2>7 DEF Aim
<1> QED BY <1>1, PointerInvariant, PTL

-------------------------------------------------------------------------------
(* Rounding goes to the nearest. *)
LEMMA LroundNear ==
  ASSUME NEW l \in Int, NEW g \in Nat \ {0}
  PROVE  /\ lround(l, g) \in Int
         /\ 2 * (lround(l, g) * g) <= 2 * l + g
         /\ 2 * l - g <= 2 * (lround(l, g) * g)
<1>1. CASE l >= 0
  <2> DEFINE q == (2 * l + g) \div (2 * g)
  <2>1. q \in Int /\ (2 * g) * q <= 2 * l + g /\ 2 * l + g < (2 * g) * q + 2 * g
    <3>1. 2 * l + g \in Int /\ 2 * g \in Nat \ {0}
      OBVIOUS
    <3> QED BY <3>1, Division
  <2> HIDE DEF q
  <2>2. (2 * g) * q = 2 * (q * g)
    BY <2>1
  <2>3. q * g \in Int
    BY <2>1
  <2>4. lround(l, g) = q
    BY <1>1 DEF lround, q
  <2> QED BY <2>1, <2>2, <2>3, <2>4
<1>2. CASE ~(l >= 0)
  <2> DEFINE q == (g - 2 * l) \div (2 * g)
  <2>1. q \in Int /\ (2 * g) * q <= g - 2 * l /\ g - 2 * l < (2 * g) * q + 2 * g
    <3>1. g - 2 * l \in Int /\ 2 * g \in Nat \ {0}
      OBVIOUS
    <3> QED BY <3>1, Division
  <2> HIDE DEF q
  <2>2. (2 * g) * q = 2 * (q * g) /\ (-q) * g = -(q * g)
    BY <2>1
  <2>3. q * g \in Int
    BY <2>1
  <2>4. lround(l, g) = -q
    BY <1>2 DEF lround, q
  <2> QED BY <2>1, <2>2, <2>3, <2>4
<1> QED BY <1>1, <1>2

(* What lies between two multiples is rounded to one between them, and to  *)
(* the upper one only from below.                                          *)
LEMMA LroundBetween ==
  ASSUME NEW l \in Int, NEW g \in Nat \ {0}, NEW o \in Int, NEW e \in Int,
         o * g <= l, l < e * g
  PROVE  o <= lround(l, g) /\ lround(l, g) <= e
<1> DEFINE v == lround(l, g)
<1>1. v \in Int /\ 2 * (v * g) <= 2 * l + g /\ 2 * l - g <= 2 * (v * g)
  BY LroundNear
<1> HIDE DEF v
<1>2. g * (2 * o - 1) = 2 * (o * g) - g /\ g * (2 * v) = 2 * (v * g)
      /\ g * (2 * e + 1) = 2 * (e * g) + g
  BY <1>1
<1>3. o * g \in Int /\ e * g \in Int /\ v * g \in Int
  BY <1>1
<1>4. g * (2 * o - 1) <= g * (2 * v) /\ g * (2 * v) < g * (2 * e + 1)
  BY <1>1, <1>2, <1>3
<1>5. 2 * o - 1 \in Int /\ 2 * v \in Int /\ 2 * e + 1 \in Int
  BY <1>1
<1>6. 2 * o - 1 <= 2 * v /\ 2 * v < 2 * e + 1
  BY <1>4, <1>5, Cancel
<1>7. o <= v /\ v <= e
  BY <1>1, <1>6
<1> QED BY <1>7 DEF v

(* Windows: n is the 16-bit fraction of pixel k of a screen of w pixels.   *)
FractionOf(n, k, w) ==
  /\ 2 * (n * (w - 1)) <= 131070 * k + (w - 1)
  /\ 131070 * k - (w - 1) <= 2 * (n * (w - 1))

(* The system that rounds down finds the pixel, the one before it, or,     *)
(* beyond the far edge, the next.                                          *)
LEMMA FloorBack ==
  ASSUME NEW w \in Nat, 2 <= w, w <= 65536, NEW k \in Nat, k <= w,
         NEW n \in Int, FractionOf(n, k, w)
  PROVE  /\ (n * w) \div 65536 \in Int
         /\ k - 1 <= (n * w) \div 65536
         /\ k < w => (n * w) \div 65536 <= k
         /\ (n * w) \div 65536 <= k + 1
<1> DEFINE q == (n * w) \div 65536
           all == n * w
<1>1. all \in Int /\ w - 1 \in Nat \ {0}
  OBVIOUS
<1>2. q \in Int /\ 65536 * q <= all /\ all < 65536 * q + 65536
  BY <1>1, Division
<1> HIDE DEF q
<1>3. n * (w - 1) \in Int /\ w * (n * (w - 1)) = (w - 1) * all
  OBVIOUS
<1>4. /\ 2 * (w * (n * (w - 1))) <= w * (131070 * k + (w - 1))
      /\ w * (131070 * k - (w - 1)) <= 2 * (w * (n * (w - 1)))
  <2> DEFINE x == n * (w - 1)
             up == 131070 * k + (w - 1)
             low == 131070 * k - (w - 1)
  <2>1. x \in Int /\ up \in Int /\ low \in Int /\ 2 * x <= up /\ low <= 2 * x
    BY <1>3 DEF FractionOf
  <2> HIDE DEF x, up, low
  <2>2. w * (2 * x) <= w * up /\ w * low <= w * (2 * x)
    BY <2>1
  <2>3. w * (2 * x) = 2 * (w * x)
    BY <2>1
  <2> QED BY <2>2, <2>3 DEF x, up, low
<1> DEFINE kw == k * w
           ww == w * w
<1>5. /\ kw \in Nat /\ ww \in Nat
      /\ w * (131070 * k + (w - 1)) = 131070 * kw + ww - w
      /\ w * (131070 * k - (w - 1)) = 131070 * kw - ww + w
      /\ (w - 1) * (2 * (65536 * (k - 1))) = 131072 * kw - 131072 * w - 131072 * k + 131072
      /\ (w - 1) * (2 * (65536 * (k + 1))) = 131072 * kw + 131072 * w - 131072 * k - 131072
      /\ (w - 1) * (2 * (65536 * (k + 2))) = 131072 * kw + 262144 * w - 131072 * k - 262144
      /\ (w - 1) * (2 * all) = 2 * ((w - 1) * all)
  BY <1>1
<1>6. /\ 0 <= 65536 * k - kw /\ 0 <= 65536 * w - ww /\ 2 * w <= ww
  <2>1. 0 <= k * (65536 - w) /\ 0 <= w * (65536 - w) /\ 0 <= w * (w - 2)
    OBVIOUS
  <2> QED BY <2>1
<1> DEFINE kr == k * (65536 - w)
<1> HIDE DEF all, kw, ww
<1>7. k - 1 <= q
  <2>1. (w - 1) * (2 * (65536 * (k - 1))) <= (w - 1) * (2 * all)
    BY <1>1, <1>3, <1>4, <1>5, <1>6
  <2>2. 2 * (65536 * (k - 1)) <= 2 * all
    <3>1. 2 * (65536 * (k - 1)) \in Int /\ 2 * all \in Int
      BY <1>1
    <3> QED BY <1>1, <2>1, <3>1, Cancel
  <2> QED BY <1>1, <1>2, <2>2
<1>8. ASSUME k < w PROVE q <= k
  <2>1. 65536 * k - kw <= 65536 * w - 65536 - ww + w
    <3>1. k * (65536 - w) <= (w - 1) * (65536 - w)
      BY <1>8
    <3> QED BY <3>1 DEF kw, ww
  <2>2. (w - 1) * (2 * all) < (w - 1) * (2 * (65536 * (k + 1)))
    BY <1>1, <1>3, <1>4, <1>5, <1>6, <2>1
  <2>3. 2 * all < 2 * (65536 * (k + 1))
    <3>1. 2 * (65536 * (k + 1)) \in Int /\ 2 * all \in Int
      BY <1>1
    <3> QED BY <1>1, <2>2, <3>1, Cancel
  <2> QED BY <1>1, <1>2, <2>3
<1>9. q <= k + 1
  <2>1. 65536 * k - kw <= 65536 * w - ww
    <3>1. k * (65536 - w) <= w * (65536 - w)
      OBVIOUS
    <3> QED BY <3>1 DEF kw, ww
  <2>2. (w - 1) * (2 * all) < (w - 1) * (2 * (65536 * (k + 2)))
    BY <1>1, <1>3, <1>4, <1>5, <1>6, <2>1
  <2>3. 2 * all < 2 * (65536 * (k + 2))
    <3>1. 2 * (65536 * (k + 2)) \in Int /\ 2 * all \in Int
      BY <1>1
    <3> QED BY <1>1, <2>2, <3>1, Cancel
  <2> QED BY <1>1, <1>2, <2>3
<1> QED BY <1>2, <1>7, <1>8, <1>9 DEF q, all

(* The system that rounds to the nearest finds the pixel itself. *)
LEMMA NearestBack ==
  ASSUME NEW w \in Nat, 2 <= w, w <= 65536, NEW k \in Nat
  PROVE  lround(lround(k * 65535, w - 1) * (w - 1), 65535) = k
<1> DEFINE n == lround(k * 65535, w - 1)
           m == lround(n * (w - 1), 65535)
<1>1. /\ n \in Int
      /\ 2 * (n * (w - 1)) <= 2 * (k * 65535) + (w - 1)
      /\ 2 * (k * 65535) - (w - 1) <= 2 * (n * (w - 1))
  <2>1. k * 65535 \in Int /\ w - 1 \in Nat \ {0}
    OBVIOUS
  <2> QED BY <2>1, LroundNear
<1>2. CASE w = 65536
  <2>1. n = k
    BY <1>2, LroundExact
  <2>2. m = k
    BY <1>2, <2>1, LroundExact
  <2> QED BY <2>2
<1>3. CASE w < 65536
  <2> HIDE DEF n
  <2> DEFINE x == n * (w - 1)
  <2>1. x \in Int
    BY <1>1
  <2> HIDE DEF x
  <2>2. /\ lround(x, 65535) \in Int
        /\ 2 * (lround(x, 65535) * 65535) <= 2 * x + 65535
        /\ 2 * x - 65535 <= 2 * (lround(x, 65535) * 65535)
    BY <2>1, LroundNear
  <2>3. lround(x, 65535) = k
    BY <1>1, <1>3, <2>1, <2>2 DEF x
  <2> QED BY <2>3 DEF x, n
<1> QED BY <1>2, <1>3

-------------------------------------------------------------------------------
(* How far two numbers are apart, and the point of an interval nearest to  *)
(* a number.                                                               *)
Apart(m, n) == IF m >= n THEN m - n ELSE n - m
Clamped(o, z, q) == IF q < o THEN o ELSE IF q > z THEN z ELSE q

(* The last pixel of a display. *)
LastPixel(d, a) == d.bounds.origin[a] + d.bounds.size[a] - 1

(* A point is put onto a display axis by axis, ... *)
LEMMA OntoIs ==
  ASSUME NEW d \in Display, NEW q \in Vector, NEW a \in Axis
  PROVE  /\ d.bounds.origin[a] \in Int /\ LastPixel(d, a) \in Int
         /\ d.bounds.origin[a] <= LastPixel(d, a)
         /\ LastPixel(d, a) + 1 = d.bounds.origin[a] + d.bounds.size[a]
         /\ Onto(d, q)[a] = Clamped(d.bounds.origin[a], LastPixel(d, a), q[a])
<1>1. PICK o \in Int : o = d.bounds.origin[a]
  BY DisplayParts
<1>2. PICK z \in Int : z = LastPixel(d, a) /\ o <= z /\ z + 1 = o + d.bounds.size[a]
  BY <1>1, DisplayParts DEF LastPixel
<1>3. PICK v \in Int : v = q[a]
  BY VectorParts
<1>4. Onto(d, q)[a] = Max({o, Min({v, z})})
  BY <1>1, <1>2, <1>3 DEF Onto, LastPixel
<1>5. PICK m \in Int : m = Min({v, z}) /\ m = IF v <= z THEN v ELSE z
  BY MinMaxOfTwo
<1>6. Max({o, m}) = IF o >= m THEN o ELSE m
  BY MinMaxOfTwo
<1>7. Onto(d, q)[a] = Clamped(o, z, v)
  BY <1>2, <1>4, <1>5, <1>6 DEF Clamped
<1> QED BY <1>1, <1>2, <1>3, <1>7

(* ... and a distance is the sum of those along the axes. *)
LEMMA DistanceIs ==
  ASSUME NEW p \in Vector, NEW q \in Vector
  PROVE  Distance(p, q) = Apart(p["x"], q["x"]) + Apart(p["y"], q["y"])
<1>1. ASSUME NEW a \in Axis
      PROVE  Max({p[a] - q[a], q[a] - p[a]}) = Apart(p[a], q[a])
  <2>1. p[a] \in Int /\ q[a] \in Int
    BY VectorParts
  <2>2. p[a] - q[a] \in Int /\ q[a] - p[a] \in Int
    BY <2>1
  <2>3. PICK m \in Int : m = p[a] - q[a]
    BY <2>2
  <2>4. PICK n \in Int : n = q[a] - p[a]
    BY <2>2
  <2>5. Max({m, n}) = IF m >= n THEN m ELSE n
    BY MinMaxOfTwo
  <2>6. Max({p[a] - q[a], q[a] - p[a]}) = Max({m, n})
    BY <2>3, <2>4
  <2>7. (IF m >= n THEN m ELSE n) = Apart(p[a], q[a])
    BY <2>1, <2>3, <2>4 DEF Apart
  <2> QED BY <2>5, <2>6, <2>7
<1> QED BY <1>1, VectorParts DEF Distance

(* A pixel p shows on a display from o to z or beside its far edge; the    *)
(* system makes q of it, or of the pixel before it; beyond the far edge of *)
(* all the displays, q is as good as the pixel at that edge, h.  Then the  *)
(* display has p or the pixel before it to offer, no further than one from *)
(* h, ...                                                                  *)
Made(o, z, p, h, q) ==
  /\ o <= p /\ p <= z + 1
  /\ h \in {p - 1, p} /\ h <= q
  /\ h = q \/ z <= h

LEMMA OfferedNear ==
  ASSUME NEW o \in Int, NEW z \in Int, o <= z, NEW p \in Int, NEW h \in Int, NEW q \in Int,
         Made(o, z, p, h, q)
  PROVE  /\ Clamped(o, z, q) \in {p - 1, p}
         /\ Clamped(o, z, q) = p - 1 /\ h = p => p = z + 1
         /\ Apart(Clamped(o, z, q), q) <= 1 + (q - h)
BY DEF Made, Clamped, Apart

(* ... and so every display is as far from q as from h, and the way there. *)
LEMMA OfferedFar ==
  ASSUME NEW o \in Int, NEW z \in Int, o <= z, NEW h \in Int, NEW q \in Int,
         h <= q, h = q \/ z <= h
  PROVE  /\ Clamped(o, z, q) \in Int
         /\ Apart(Clamped(o, z, q), q) = Apart(Clamped(o, z, q), h) + (q - h)
BY DEF Clamped, Apart

(* The nearest point of an interval is the only one that is so near. *)
LEMMA ClampedOnly ==
  ASSUME NEW o \in Int, NEW z \in Int, o <= z, NEW q \in Int, NEW c \in Int, o <= c, c <= z
  PROVE  /\ Clamped(o, z, q) \in Int
         /\ Apart(Clamped(o, z, q), q) <= Apart(c, q)
         /\ Apart(Clamped(o, z, q), q) = Apart(c, q) => c = Clamped(o, z, q)
BY DEF Clamped, Apart

(* A cursor that settles on a display e is two pixels from h at most; if   *)
(* it is on the display d of the point, it is where d alone would have it. *)
LEMMA Landing ==
  ASSUME NEW d \in Display, NEW e \in Display,
         NEW p \in Vector, NEW h \in Vector, NEW q \in Vector,
         \A a \in Axis : Made(d.bounds.origin[a], LastPixel(d, a), p[a], h[a], q[a]),
         \A a \in Axis : h[a] = q[a] \/ LastPixel(e, a) <= h[a],
         Distance(Onto(e, q), q) <= Distance(Onto(d, q), q)
  PROVE  /\ \A a \in Axis : /\ h[a] - 2 <= Onto(e, q)[a] /\ Onto(e, q)[a] <= h[a] + 2
                            /\ Onto(d, q)[a] \in {p[a] - 1, p[a]}
                            /\ Onto(d, q)[a] = p[a] - 1 /\ h[a] = p[a] => p[a] = LastPixel(d, a) + 1
         /\ contains(d.bounds, Onto(e, q)) => Onto(e, q) = Onto(d, q)
<1> DEFINE c == Onto(e, q)
           b == Onto(d, q)
<1>1. c \in Vector /\ b \in Vector
  BY OntoDisplay
<1>2. ASSUME NEW a \in Axis
      PROVE  /\ c[a] \in Int /\ b[a] \in Int /\ h[a] \in Int /\ q[a] \in Int /\ p[a] \in Int
             /\ b[a] \in {p[a] - 1, p[a]}
             /\ b[a] = p[a] - 1 /\ h[a] = p[a] => p[a] = LastPixel(d, a) + 1
             /\ Apart(b[a], q[a]) <= 1 + (q[a] - h[a])
             /\ Apart(c[a], q[a]) = Apart(c[a], h[a]) + (q[a] - h[a])
  <2>1. PICK hh \in Int, qq \in Int, pp \in Int : hh = h[a] /\ qq = q[a] /\ pp = p[a]
    BY VectorParts
  <2>2. PICK od \in Int, zd \in Int :
          /\ od = d.bounds.origin[a] /\ zd = LastPixel(d, a) /\ od <= zd
          /\ b[a] = Clamped(od, zd, qq)
    BY <2>1, OntoIs
  <2>3. PICK oe \in Int, ze \in Int :
          ze = LastPixel(e, a) /\ oe <= ze /\ c[a] = Clamped(oe, ze, qq)
    BY <2>1, OntoIs
  <2>4. Made(od, zd, pp, hh, qq) /\ (hh = qq \/ ze <= hh)
    BY <2>1, <2>2, <2>3
  <2>5. hh <= qq
    BY <2>4 DEF Made
  <2>6. /\ Clamped(od, zd, qq) \in {pp - 1, pp}
        /\ Clamped(od, zd, qq) = pp - 1 /\ hh = pp => pp = zd + 1
        /\ Apart(Clamped(od, zd, qq), qq) <= 1 + (qq - hh)
    BY <2>2, <2>4, OfferedNear DEF Made
  <2>7. /\ Clamped(oe, ze, qq) \in Int
        /\ Apart(Clamped(oe, ze, qq), qq) = Apart(Clamped(oe, ze, qq), hh) + (qq - hh)
    BY <2>3, <2>4, <2>5, OfferedFar
  <2> QED BY <2>1, <2>2, <2>3, <2>6, <2>7
<1>3. Apart(c["x"], q["x"]) + Apart(c["y"], q["y"])
        <= Apart(b["x"], q["x"]) + Apart(b["y"], q["y"])
  BY <1>1, DistanceIs
<1> HIDE DEF b, c
<1>4. \A m, n \in Int : Apart(m, n) \in Nat /\ m - Apart(m, n) <= n /\ n <= m + Apart(m, n)
  BY DEF Apart
<1>5. ASSUME NEW a \in Axis PROVE h[a] - 2 <= c[a] /\ c[a] <= h[a] + 2
  <2>1. /\ Apart(c["x"], h["x"]) \in Nat /\ Apart(c["y"], h["y"]) \in Nat
        /\ Apart(b["x"], q["x"]) \in Nat /\ Apart(b["y"], q["y"]) \in Nat
    BY <1>2, <1>4, VectorParts
  <2>2. Apart(c["x"], h["x"]) + Apart(c["y"], h["y"]) <= 2
    BY <1>2, <1>3, <2>1, VectorParts
  <2>3. Apart(c[a], h[a]) <= 2
    BY <2>1, <2>2 DEF Axis
  <2>4. PICK cc \in Int, hh \in Int : cc = c[a] /\ hh = h[a]
    BY <1>2
  <2> QED BY <2>3, <2>4 DEF Apart
<1>6. ASSUME contains(d.bounds, c) PROVE c = b
  <2>1. ASSUME NEW a \in Axis
        PROVE  /\ Apart(b[a], q[a]) <= Apart(c[a], q[a])
               /\ Apart(b[a], q[a]) = Apart(c[a], q[a]) => c[a] = b[a]
    <3>1. PICK cc \in Int, qq \in Int : cc = c[a] /\ qq = q[a]
      BY <1>2
    <3>2. PICK o \in Int, z \in Int :
            /\ o = d.bounds.origin[a] /\ o <= z /\ z + 1 = o + d.bounds.size[a]
            /\ b[a] = Clamped(o, z, qq)
      BY <3>1, OntoIs DEF b
    <3>3. o <= cc /\ cc < o + d.bounds.size[a]
      BY <1>6, <3>1, <3>2 DEF contains
    <3>4. cc <= z
      BY <3>2, <3>3
    <3>5. /\ Apart(Clamped(o, z, qq), qq) <= Apart(cc, qq)
          /\ Apart(Clamped(o, z, qq), qq) = Apart(cc, qq) => cc = Clamped(o, z, qq)
      BY <3>2, <3>3, <3>4, ClampedOnly
    <3> QED BY <3>1, <3>2, <3>5
  <2>2. /\ Apart(b["x"], q["x"]) \in Nat /\ Apart(b["y"], q["y"]) \in Nat
        /\ Apart(c["x"], q["x"]) \in Nat /\ Apart(c["y"], q["y"]) \in Nat
    BY <1>2, <1>4, VectorParts
  <2>3. c["x"] = b["x"] /\ c["y"] = b["y"]
    BY <1>3, <2>1, <2>2, VectorParts
  <2> QED BY <1>1, <2>3 DEF b, c, Vector, Axis
<1> QED BY <1>2, <1>5, <1>6 DEF b, c

(* How far a pixel beside, or two or three from, the rounded one is.       *)
LEMMA NearbyPixels ==
  ASSUME NEW l \in Int, NEW g \in Nat \ {0}, NEW p \in Int,
         2 * (p * g) <= 2 * l + g, 2 * l - g <= 2 * (p * g), NEW c \in Int
  PROVE  /\ c * g \in Int
         /\ c \in {p - 1, p} => 2 * (c * g - l) <= 3 * g /\ 2 * (l - c * g) <= 3 * g
         /\ c \in {p - 1, p} /\ (c = p - 1 => l <= p * g) =>
              2 * (c * g - l) <= 2 * g /\ 2 * (l - c * g) <= 2 * g
         /\ p - 3 <= c /\ c <= p + 2 => 2 * (c * g - l) <= 7 * g /\ 2 * (l - c * g) <= 7 * g
         /\ p - 2 <= c /\ c <= p + 2 => 2 * (c * g - l) <= 6 * g /\ 2 * (l - c * g) <= 6 * g
<1>1. PICK j \in Int : c = p + j
  <2>1. c - p \in Int /\ c = p + (c - p)
    OBVIOUS
  <2> QED BY <2>1
<1>2. PICK pg \in Int : pg = p * g
  OBVIOUS
<1>3. PICK jg \in Int : jg = j * g
  OBVIOUS
<1>4. c * g = pg + jg
  BY <1>1, <1>2, <1>3
<1>5. /\ j = 0 => jg = 0
      /\ j = -1 => jg = -g
      /\ -2 <= j => -(2 * g) <= jg
      /\ -3 <= j => -(3 * g) <= jg
      /\ j <= 2 => jg <= 2 * g
  <2>1. j = 0 => jg = 0
    BY <1>3
  <2>2. j = -1 => jg = -g
    BY <1>3
  <2>3. ASSUME NEW m \in Int, m <= j PROVE m * g <= jg
    BY <1>3, <2>3
  <2>4. ASSUME NEW m \in Int, j <= m PROVE jg <= m * g
    BY <1>3, <2>4
  <2>5. -2 <= j => -(2 * g) <= jg
    BY <2>3
  <2>6. -3 <= j => -(3 * g) <= jg
    BY <2>3
  <2>7. j <= 2 => jg <= 2 * g
    BY <2>4
  <2> QED BY <2>1, <2>2, <2>5, <2>6, <2>7
<1> QED BY <1>1, <1>2, <1>4, <1>5

(* Pixels of one size: what Grain says. *)
LEMMA GrainIs ==
  ASSUME host \in Host, desk \in Desks[host], backend = "windows" => Uniform
  PROVE  /\ Grain \in Nat \ {0}
         /\ backend = "windows" => \A i \in 1..Len(desk) : desk[i].grain = Grain
<1>1. /\ Len(desk) \in Nat \ {0} /\ \A i \in 1..Len(desk) : desk[i] \in Display
      /\ Displays = {desk[i] : i \in 1..Len(desk)}
  BY DeskParts DEF Displays
<1>2. 1 \in 1..Len(desk)
  BY <1>1
<1>3. desk[1].grain \in Nat \ {0}
  BY <1>1, <1>2, DisplayParts
<1>4. backend = "windows" => \A i \in 1..Len(desk) : desk[i].grain = desk[1].grain
  BY <1>1, <1>2 DEF Uniform
<1> QED BY <1>3, <1>4, UnitAssumption DEF Grain

(* A point shows on a display at the pixel it is rounded to, or beside the *)
(* far edge at the last one.                                               *)
LEMMA ShownAt ==
  ASSUME host \in Host, desk \in Desks[host], backend = "windows" => Uniform,
         NEW l \in Vector, NEW d \in Showing(l), NEW a \in Axis
  PROVE  /\ d \in Display /\ d \in Displays
         /\ l[a] \in Int /\ lround(l[a], Grain) \in Int
         /\ d.bounds.origin[a] <= lround(l[a], Grain)
         /\ lround(l[a], Grain) <= LastPixel(d, a) + 1
         /\ l[a] <= (LastPixel(d, a) + 1) * Grain
         /\ 2 * (lround(l[a], Grain) * Grain) <= 2 * l[a] + Grain
         /\ 2 * l[a] - Grain <= 2 * (lround(l[a], Grain) * Grain)
<1>1. d \in Display /\ d \in Displays /\ contains(RectToLogical(d.bounds, Grain), l)
  BY DeskParts DEF Showing, Displays
<1>2. PICK g \in Nat \ {0} : g = Grain
  BY GrainIs
<1>3. PICK k \in Int : k = l[a]
  BY VectorParts
<1>4. PICK o \in Int, s \in Int, e \in Int :
        o = d.bounds.origin[a] /\ s = d.bounds.size[a] /\ e = o + s
  BY <1>1, DisplayParts
<1>5. e = LastPixel(d, a) + 1
  BY <1>4 DEF LastPixel
<1>6. o * g <= k /\ k < o * g + s * g
  BY <1>1, <1>2, <1>3, <1>4 DEF contains, RectToLogical, Rect, toLogical
<1>7. e * g = o * g + s * g /\ e * g \in Int
  BY <1>4
<1>8. k < e * g
  BY <1>6, <1>7
<1>9. o <= lround(k, g) /\ lround(k, g) <= e
  BY <1>6, <1>8, LroundBetween
<1>10. /\ lround(k, g) \in Int
       /\ 2 * (lround(k, g) * g) <= 2 * k + g
       /\ 2 * k - g <= 2 * (lround(k, g) * g)
  BY LroundNear
<1> QED BY <1>1, <1>2, <1>3, <1>4, <1>5, <1>7, <1>8, <1>9, <1>10

(* So that is how near the cursor settles if the system looks for a        *)
(* display near q, which is the pixel h that a point is rounded to, or the *)
(* one before it, or one beyond it and all the displays.                   *)
LEMMA SettlesNear ==
  ASSUME host \in Host, desk \in Desks[host], backend = "windows" => Uniform,
         NEW l \in Vector, Showing(l) # {}, NEW h \in Vector, NEW q \in Vector,
         \A a \in Axis : /\ h[a] \in {lround(l[a], Grain) - 1, lround(l[a], Grain)}
                         /\ h[a] <= q[a]
                         /\ h[a] = q[a] \/ \A f \in Displays : LastPixel(f, a) <= h[a],
         Settle(q, Displays)
  PROVE  /\ IF \E d \in Showing(l) : contains(d.bounds, cursor') THEN Near(cursor', l, 3)
            ELSE Near(cursor', l, 7)
         /\ (\A a \in Axis : h[a] = lround(l[a], Grain)) =>
              IF \E d \in Showing(l) : contains(d.bounds, cursor') THEN Near(cursor', l, 2)
              ELSE Near(cursor', l, 6)
<1> DEFINE p == [a \in Axis |-> lround(l[a], Grain)]
           c == cursor'
<1>1. PICK e \in Displays :
        /\ \A f \in Displays : Distance(Onto(e, q), q) <= Distance(Onto(f, q), q)
        /\ c = Onto(e, q)
  BY DEF Settle
<1>2. e \in Display /\ c \in Vector
  BY <1>1, DeskParts, OntoDisplay DEF Displays
<1>3. PICK d0 \in Showing(l) : TRUE
  OBVIOUS
<1>4. p \in Vector /\ \A a \in Axis : p[a] = lround(l[a], Grain)
  BY <1>3, ShownAt DEF Vector
<1> HIDE DEF p, c
<1>5. ASSUME NEW d \in Showing(l)
      PROVE  /\ \A a \in Axis : /\ h[a] - 2 <= c[a] /\ c[a] <= h[a] + 2
                                /\ Onto(d, q)[a] \in {p[a] - 1, p[a]}
                                /\ Onto(d, q)[a] = p[a] - 1 /\ h[a] = p[a] =>
                                     p[a] = LastPixel(d, a) + 1
             /\ contains(d.bounds, c) => c = Onto(d, q)
  <2>1. d \in Display /\ d \in Displays
    BY ShownAt, VectorParts
  <2>2. \A a \in Axis : Made(d.bounds.origin[a], LastPixel(d, a), p[a], h[a], q[a])
    BY <1>4, <2>1, ShownAt DEF Made
  <2>3. \A a \in Axis : h[a] = q[a] \/ LastPixel(e, a) <= h[a]
    BY <1>1
  <2>4. Distance(Onto(e, q), q) <= Distance(Onto(d, q), q)
    BY <1>1, <2>1
  <2> QED BY <1>1, <1>2, <1>4, <2>1, <2>2, <2>3, <2>4, Landing
<1>6. ASSUME NEW a \in Axis
      PROVE  /\ 2 * (c[a] * Grain - l[a]) <= 7 * Grain
             /\ 2 * (l[a] - c[a] * Grain) <= 7 * Grain
             /\ h[a] = p[a] => /\ 2 * (c[a] * Grain - l[a]) <= 6 * Grain
                               /\ 2 * (l[a] - c[a] * Grain) <= 6 * Grain
  <2>1. PICK g \in Nat \ {0} : g = Grain
    BY GrainIs
  <2>2. PICK k \in Int, cc \in Int, hh \in Int : k = l[a] /\ cc = c[a] /\ hh = h[a]
    BY <1>2, VectorParts
  <2>3. PICK pp \in Int : pp = p[a] /\ 2 * (pp * g) <= 2 * k + g /\ 2 * k - g <= 2 * (pp * g)
    BY <1>4, <2>1, <2>2, ShownAt
  <2>4. hh \in {pp - 1, pp} /\ hh - 2 <= cc /\ cc <= hh + 2
    BY <1>3, <1>4, <1>5, <2>2, <2>3
  <2>5. pp - 3 <= cc /\ cc <= pp + 2 /\ (hh = pp => pp - 2 <= cc)
    BY <2>4
  <2>6. /\ 2 * (cc * g - k) <= 7 * g /\ 2 * (k - cc * g) <= 7 * g
        /\ hh = pp => 2 * (cc * g - k) <= 6 * g /\ 2 * (k - cc * g) <= 6 * g
    BY <2>3, <2>5, NearbyPixels
  <2> QED BY <2>1, <2>2, <2>3, <2>6
<1>7. ASSUME NEW d \in Showing(l), contains(d.bounds, c), NEW a \in Axis
      PROVE  /\ 2 * (c[a] * Grain - l[a]) <= 3 * Grain
             /\ 2 * (l[a] - c[a] * Grain) <= 3 * Grain
             /\ h[a] = p[a] => /\ 2 * (c[a] * Grain - l[a]) <= 2 * Grain
                               /\ 2 * (l[a] - c[a] * Grain) <= 2 * Grain
  <2>1. PICK g \in Nat \ {0} : g = Grain
    BY GrainIs
  <2>2. PICK k \in Int, cc \in Int, hh \in Int : k = l[a] /\ cc = c[a] /\ hh = h[a]
    BY <1>2, VectorParts
  <2>3. PICK pp \in Int : pp = p[a] /\ 2 * (pp * g) <= 2 * k + g /\ 2 * k - g <= 2 * (pp * g)
    BY <1>4, <2>1, <2>2, ShownAt
  <2>4. cc \in {pp - 1, pp} /\ (cc = pp - 1 /\ hh = pp => pp = LastPixel(d, a) + 1)
    BY <1>5, <1>7, <2>2, <2>3
  <2>5. k <= (LastPixel(d, a) + 1) * g
    BY <2>1, <2>2, ShownAt
  <2>6. hh = pp /\ cc = pp - 1 => k <= pp * g
    BY <2>4, <2>5
  <2>7. /\ 2 * (cc * g - k) <= 3 * g /\ 2 * (k - cc * g) <= 3 * g
        /\ hh = pp => 2 * (cc * g - k) <= 2 * g /\ 2 * (k - cc * g) <= 2 * g
    BY <2>3, <2>4, <2>6, NearbyPixels
  <2> QED BY <2>1, <2>2, <2>3, <2>7
<1>8. Near(c, l, 7) /\ ((\A a \in Axis : h[a] = p[a]) => Near(c, l, 6))
  BY <1>6 DEF Near
<1>9. ASSUME NEW d \in Showing(l), contains(d.bounds, c)
      PROVE  Near(c, l, 3) /\ ((\A a \in Axis : h[a] = p[a]) => Near(c, l, 2))
  BY <1>7, <1>9 DEF Near
<1> QED BY <1>4, <1>8, <1>9 DEF c

(* Windows: the fraction that is sent is one of the pixel.                 *)
LEMMA FractionIs ==
  ASSUME NEW k \in Nat, NEW w \in Nat, 2 <= w
  PROVE  /\ lround(k * 65535, w - 1) \in Int
         /\ FractionOf(lround(k * 65535, w - 1), k, w)
<1>1. PICK j \in Int : j = k * 65535
  OBVIOUS
<1>2. PICK m \in Nat \ {0} : m = w - 1
  OBVIOUS
<1>3. /\ lround(j, m) \in Int
      /\ 2 * (lround(j, m) * m) <= 2 * j + m
      /\ 2 * j - m <= 2 * (lround(j, m) * m)
  BY LroundNear
<1> QED BY <1>1, <1>2, <1>3 DEF FractionOf

(* Windows: what the system makes of fraction n of w pixels from v on; if  *)
(* it is that of pixel p, then p or the one before it, if there is one, or *)
(* a pixel beyond the last.                                                *)
Fits(w) == 2 <= w /\ w <= 65536
SentFor(k, w) == lround(k * 65535, w - 1)
FoundOf(n, v, w, q) ==
  q = v + ((n * w) \div 65536) \/ q = v + lround(n * (w - 1), 65535)
TakenFor(p, last, q) ==
  (q \in {p - 1, p} /\ q <= last) \/ (q \in {p, p + 1} /\ p = last + 1)

LEMMA FractionFinds ==
  ASSUME NEW v \in Int, NEW w \in Nat, Fits(w),
         NEW p \in Int, v <= p, p <= v + w,
         NEW q, FoundOf(SentFor(p - v, w), v, w, q)
  PROVE  q \in Int /\ TakenFor(p, v + w - 1, q)
<1>1. PICK k \in Nat : k = p - v /\ k <= w
  OBVIOUS
<1>2. PICK n \in Int : n = SentFor(k, w) /\ FractionOf(n, k, w)
  BY FractionIs DEF Fits, SentFor
<1>3. q = v + (k - 1) \/ q = v + k \/ (k = w /\ q = v + (k + 1))
  <2>1. PICK m \in Int : /\ m = (n * w) \div 65536
                         /\ k - 1 <= m /\ m <= k + 1 /\ (k < w => m <= k)
    BY <1>1, <1>2, FloorBack DEF Fits
  <2>2. lround(n * (w - 1), 65535) = k
    BY <1>2, NearestBack DEF Fits, SentFor
  <2>3. q = v + m \/ q = v + k
    BY <1>1, <1>2, <2>1, <2>2 DEF FoundOf
  <2>4. m = k - 1 \/ m = k \/ (k = w /\ m = k + 1)
    BY <1>1, <2>1
  <2> QED BY <2>3, <2>4
<1> QED BY <1>1, <1>3 DEF TakenFor

(* Windows: so a warp that is sent on the desk it was measured on lands,   *)
(* ...                                                                     *)
LEMMA WinSendLands ==
  ASSUME host \in Host, desk \in Desks[host], PointerInv, backend = "windows",
         Uniform, Addressable, Showing(call.point) # {},
         metrics = VirtualScreen, pixel = toPhysical(call.point, Grain), WinSend
  PROVE  /\ reply'.error # "invalidArgument"
         /\ reply'.error = "ok" => Lands(cursor', call.point)
<1> DEFINE l == call.point
           v == VirtualScreen
           n == [a \in Axis |-> Normalized(pixel, a)]
           floor == [a \in Axis |-> v.origin[a] + ((n[a] * v.size[a]) \div 65536)]
           nearest == [a \in Axis |-> v.origin[a] + lround(n[a] * (v.size[a] - 1), 65535)]
<1>1. \/ /\ Settle(floor, Displays) \/ Settle(nearest, Displays)
         /\ reply'.error = "ok"
      \/ reply'.error = "platformError"
  BY DEF WinSend, ReplyWith, Reply
<1>2. l \in Vector /\ v \in Region /\ \A a \in Axis : v.size[a] > 1
  BY BoundsRegion DEF PointerInv, WinSend, VirtualScreen, Displays
<1>3. PICK d \in Showing(l) : TRUE
  OBVIOUS
<1>4. ASSUME NEW q \in {floor, nearest}, Settle(q, Displays)
      PROVE  Lands(cursor', l)
  <2> DEFINE h == [a \in Axis |-> IF q[a] <= v.origin[a] + v.size[a] - 1 THEN q[a]
                                  ELSE v.origin[a] + v.size[a] - 1]
  <2>1. ASSUME NEW a \in Axis
        PROVE  /\ q[a] \in Int /\ h[a] \in Int
               /\ h[a] \in {lround(l[a], Grain) - 1, lround(l[a], Grain)}
               /\ h[a] <= q[a]
               /\ h[a] = q[a] \/ \A f \in Displays : LastPixel(f, a) <= h[a]
    <3>1. PICK o \in Int, w \in Nat : /\ o = v.origin[a] /\ w = v.size[a]
                                      /\ 2 <= w /\ w <= 65536
      BY <1>2, VectorParts DEF Region, Addressable
    <3>2. \A f \in Displays : o <= f.bounds.origin[a] /\ LastPixel(f, a) <= o + w - 1
      <4>1. ASSUME NEW f \in Displays
            PROVE  o <= f.bounds.origin[a] /\ LastPixel(f, a) <= o + w - 1
        <5>1. f \in Display
          BY DeskParts DEF Displays
        <5>2. PICK fo \in Int, fs \in Int : fo = f.bounds.origin[a] /\ fs = f.bounds.size[a]
          BY <5>1, DisplayParts
        <5>3. o <= fo /\ fo + fs <= o + w
          BY <3>1, <5>2, BoundsRegion DEF VirtualScreen, Displays
        <5> QED BY <5>2, <5>3 DEF LastPixel
      <4> QED BY <4>1
    <3>3. PICK p \in Int : p = lround(l[a], Grain) /\ o <= p /\ p <= o + w
      <4>1. PICK p \in Int, do \in Int, dz \in Int :
              /\ p = lround(l[a], Grain) /\ do = d.bounds.origin[a] /\ dz = LastPixel(d, a)
              /\ do <= p /\ p <= dz + 1 /\ d \in Displays
        BY <1>2, ShownAt, OntoIs
      <4>2. o <= do /\ dz <= o + w - 1
        BY <3>2, <4>1
      <4> QED BY <4>1, <4>2
    <3>4. n[a] = SentFor(p - o, w)
      BY <3>1, <3>3 DEF Normalized, toPhysical, SentFor
    <3>5. FoundOf(SentFor(p - o, w), o, w, q[a])
      <4>1. q = floor \/ q = nearest
        OBVIOUS
      <4>2. CASE q = floor
        BY <3>1, <3>4, <4>2 DEF FoundOf
      <4>3. CASE q = nearest
        BY <3>1, <3>4, <4>3 DEF FoundOf
      <4> QED BY <4>1, <4>2, <4>3
    <3> HIDE DEF h, n, floor, nearest, v
    <3>6. Fits(w) /\ o <= p /\ p <= o + w
      BY <3>1, <3>3 DEF Fits
    <3>7. q[a] \in Int /\ TakenFor(p, o + w - 1, q[a])
      BY <3>5, <3>6, FractionFinds
    <3>8. h[a] = IF q[a] <= o + w - 1 THEN q[a] ELSE o + w - 1
      BY <3>1 DEF h
    <3>9. h[a] \in {p - 1, p} /\ h[a] <= q[a] /\ (h[a] = q[a] \/ h[a] = o + w - 1)
      BY <3>7, <3>8 DEF TakenFor
    <3>10. h[a] = o + w - 1 => \A f \in Displays : LastPixel(f, a) <= h[a]
      BY <3>2
    <3> QED BY <3>3, <3>7, <3>9, <3>10
  <2>2. q \in Vector /\ h \in Vector
    BY <2>1 DEF Vector
  <2> HIDE DEF h
  <2>3. IF \E e \in Showing(l) : contains(e.bounds, cursor') THEN Near(cursor', l, 3)
        ELSE Near(cursor', l, 7)
    BY <1>2, <1>4, <2>1, <2>2, SettlesNear
  <2> QED BY <2>3 DEF Lands, Roundings
<1> QED BY <1>1, <1>4

(* ... and so does one of X11 or macOS.                                    *)
LEMMA WarpAtLands ==
  ASSUME SessionInv, desk \in Desks[host], NEW l \in Vector, Showing(l) # {},
         "canWarpCursor" \in caps, ~changed, WarpAt(l)
  PROVE  /\ reply'.error # "invalidArgument"
         /\ reply'.error = "ok" => Lands(cursor', l)
<1>1. host \in Host
  BY DEF SessionInv
<1>2. CASE backend = "x11"
  <2>1. Grain = Unit /\ Roundings = 2 /\ toPhysical(l, Unit) \in Vector
    BY <1>2, UnitAssumption, Conversions DEF Grain, Roundings
  <2>2. Settle(toPhysical(l, Unit), Displays) /\ reply'.error = "ok"
    BY <1>2 DEF WarpAt, ReplyWith, Reply
  <2>3. \A a \in Axis : toPhysical(l, Unit)[a] = lround(l[a], Grain)
    BY <2>1 DEF toPhysical
  <2>4. \A a \in Axis : toPhysical(l, Unit)[a] \in Int
    BY <2>1, VectorParts
  <2>5. IF \E d \in Showing(l) : contains(d.bounds, cursor') THEN Near(cursor', l, 2)
        ELSE Near(cursor', l, 6)
    <3>1. \A a \in Axis : /\ toPhysical(l, Unit)[a]
                               \in {lround(l[a], Grain) - 1, lround(l[a], Grain)}
                          /\ toPhysical(l, Unit)[a] <= toPhysical(l, Unit)[a]
      BY <2>3, <2>4
    <3> QED BY <1>1, <1>2, <2>1, <2>2, <2>3, <3>1, SettlesNear
  <2> QED BY <2>1, <2>2, <2>5 DEF Lands
<1>3. CASE backend = "macos"
  <2>1. granted.input
    BY <1>3 DEF SessionInv, MacCapabilities, Always, Injecting
  <2>2. \/ Settle(l, Displays) /\ reply'.error = "ok"
        \/ reply'.error = "platformError"
    BY <1>3, <2>1 DEF WarpAt, ReplyWith, Reply
  <2>3. ASSUME Settle(l, Displays)
        PROVE  Lands(cursor', l)
    <3>1. PICK d \in Showing(l) : TRUE
      OBVIOUS
    <3>2. d \in Display /\ d \in Displays /\ contains(RectToLogical(d.bounds, 1), l)
      BY <1>1, <1>3, DeskParts DEF Showing, Displays, Grain
    <3>3. contains(d.bounds, l)
      <4>1. \A a \in Axis : d.bounds.origin[a] * 1 = d.bounds.origin[a]
                            /\ d.bounds.size[a] * 1 = d.bounds.size[a]
        BY <3>2, DisplayParts
      <4> QED BY <3>2, <4>1 DEF contains, RectToLogical, Rect, toLogical
    <3>4. PICK e \in Displays :
            /\ Distance(Onto(e, l), l) <= Distance(Onto(d, l), l)
            /\ cursor' = Onto(e, l)
      BY <2>3, <3>2 DEF Settle
    <3>5. e \in Display /\ Onto(e, l) \in Vector /\ Onto(d, l) \in Vector
      BY <1>1, <3>2, DeskParts, OntoDisplay DEF Displays
    <3>6. ASSUME NEW a \in Axis
          PROVE  Onto(d, l)[a] = l[a] /\ Apart(Onto(d, l)[a], l[a]) = 0
      <4>1. PICK k \in Int : k = l[a]
        BY VectorParts
      <4>2. PICK o \in Int, z \in Int : /\ o = d.bounds.origin[a] /\ o <= z
                                        /\ z + 1 = o + d.bounds.size[a]
                                        /\ Onto(d, l)[a] = Clamped(o, z, k)
        BY <3>2, <4>1, OntoIs
      <4>3. o <= k /\ k < o + d.bounds.size[a]
        BY <3>3, <4>1, <4>2 DEF contains
      <4>4. o <= k /\ k <= z
        BY <4>2, <4>3
      <4> QED BY <4>1, <4>2, <4>4 DEF Clamped, Apart
    <3>7. Apart(Onto(e, l)["x"], l["x"]) + Apart(Onto(e, l)["y"], l["y"]) <= 0
      BY <3>4, <3>5, <3>6, DistanceIs, VectorParts
    <3>8. \A i, j \in Int : Apart(i, j) \in Nat /\ (Apart(i, j) = 0 => i = j)
      BY DEF Apart
    <3>9. \A a \in Axis : Onto(e, l)[a] \in Int /\ l[a] \in Int
      BY <3>5, VectorParts
    <3>10. \A a \in Axis : Onto(e, l)[a] = l[a]
      <4>1. /\ Apart(Onto(e, l)["x"], l["x"]) \in Nat
            /\ Apart(Onto(e, l)["y"], l["y"]) \in Nat
        BY <3>8, <3>9, VectorParts
      <4>2. /\ Apart(Onto(e, l)["x"], l["x"]) = 0
            /\ Apart(Onto(e, l)["y"], l["y"]) = 0
        BY <3>7, <4>1
      <4> QED BY <3>8, <3>9, <4>2 DEF Axis
    <3>11. cursor' = l
      BY <3>4, <3>5, <3>10 DEF Vector
    <3>12. Near(l, l, 0)
      BY <1>3, VectorParts DEF Near, Grain
    <3> QED BY <1>3, <3>1, <3>2, <3>3, <3>11, <3>12 DEF Lands, Roundings
  <2> QED BY <2>2, <2>3
<1>4. CASE backend = "uinput"
  BY <1>4 DEF WarpAt, ReplyWith, Reply
<1> QED BY <1>2, <1>3, <1>4 DEF WarpAt

(* On Windows the point of a warp is looked up on the desk it is measured  *)
(* on, as long as that is the one there is.                                *)
WarpInv ==
  /\ backend = "none" \/ ppc = "read" => call.name = "cursorPosition"
  /\ call.name = "warpCursor" /\ "pointer" \in steady =>
       /\ ppc \in {"map", "send"} => metrics = VirtualScreen
       /\ ppc = "send" =>
            /\ LogicalHits(call.point) # {}
            /\ pixel = toPhysical(call.point, FirstGrain(LogicalHits(call.point)))
  /\ WarpLands

(* With pixels of one size, a point that shows is on a monitor of theirs.  *)
LEMMA HitsShow ==
  ASSUME host \in Host, desk \in Desks[host], backend = "windows", Uniform, NEW l
  PROVE  /\ Showing(l) # {} => LogicalHits(l) # {}
         /\ LogicalHits(l) # {} => FirstGrain(LogicalHits(l)) = Grain
<1>1. \A i \in 1..Len(desk) : desk[i].grain = Grain
  BY GrainIs
<1>2. Len(desk) \in Nat /\ Displays = {desk[i] : i \in 1..Len(desk)}
  BY DeskParts DEF Displays
<1>3. ASSUME Showing(l) # {} PROVE LogicalHits(l) # {}
  <2>1. PICK i \in 1..Len(desk) : contains(RectToLogical(desk[i].bounds, Grain), l)
    BY <1>2, <1>3 DEF Showing
  <2>2. i \in LogicalHits(l)
    BY <1>1, <2>1 DEF LogicalHits
  <2> QED BY <2>2
<1>4. ASSUME LogicalHits(l) # {} PROVE FirstGrain(LogicalHits(l)) = Grain
  <2>1. LogicalHits(l) \in SUBSET (1..Len(desk))
    BY DEF LogicalHits
  <2>2. LogicalHits(l) \in SUBSET Nat
    BY <1>2, <2>1
  <2>3. Min(LogicalHits(l)) \in LogicalHits(l)
    BY <1>4, <2>2, MinOfNats
  <2> QED BY <1>1, <2>1, <2>3 DEF FirstGrain
<1> QED BY <1>3, <1>4

(* What a property of the pointer says of a desk depends on no more.       *)
LEMMA SameDesk ==
  ASSUME UNCHANGED <<backend, desk>>
  PROVE  /\ VirtualScreen' = VirtualScreen
         /\ Uniform' = Uniform /\ Addressable' = Addressable
         /\ \A l : /\ Showing(l)' = Showing(l)
                   /\ LogicalHits(l)' = LogicalHits(l)
                   /\ \A p : Lands(p, l)' = Lands(p, l)
         /\ \A hits : FirstGrain(hits)' = FirstGrain(hits)
BY DEF VirtualScreen, Uniform, Addressable, Showing, LogicalHits, Lands, Near, FirstGrain,
       Displays, Grain, Roundings

(* So the desk need not be primed. *)
LEMMA LandsAfter ==
  ASSUME UNCHANGED <<backend, desk>>,
         /\ ppc' = "idle" /\ call'.name = "warpCursor" /\ Showing(call'.point) # {}
         /\ "pointer" \in steady' /\ Uniform /\ Addressable
         /\ "canWarpCursor" \in caps' /\ ~changed'
         => /\ reply'.error # "invalidArgument"
            /\ reply'.error = "ok" => Lands(cursor', call'.point)
  PROVE  WarpLands'
BY DEF WarpLands, VirtualScreen, Uniform, Addressable, Showing, Lands, Near,
       Displays, Grain, Roundings

(* Nothing changes as long as the pointer is left alone. *)
LEMMA WarpStays ==
  ASSUME WarpInv, UNCHANGED <<pointerVars, desk>>,
         backend' = backend \/ call.name = "cursorPosition",
         "pointer" \in steady' => "pointer" \in steady,
         ~changed' => (~changed /\ caps' = caps) \/ call.name = "cursorPosition"
  PROVE  WarpInv'
<1>1. CASE call.name = "cursorPosition"
  <2>1. call'.name = "cursorPosition"
    BY <1>1 DEF pointerVars
  <2> QED BY <2>1 DEF WarpInv, WarpLands
<1>2. CASE call.name # "cursorPosition"
  <2>1. UNCHANGED <<cursor, ppc, call, metrics, pixel, reply, backend, desk>>
    BY <1>2 DEF pointerVars
  <2>2. WarpLands'
    <3>1. /\ ppc' = "idle" /\ call'.name = "warpCursor" /\ Showing(call'.point) # {}
          /\ "pointer" \in steady' /\ Uniform /\ Addressable
          /\ "canWarpCursor" \in caps' /\ ~changed'
          => /\ reply'.error # "invalidArgument"
             /\ reply'.error = "ok" => Lands(cursor', call'.point)
      BY <1>2, <2>1 DEF WarpInv, WarpLands
    <3> QED BY <2>1, <3>1, LandsAfter
  <2>3. VirtualScreen' = VirtualScreen
    BY <2>1, SameDesk
  <2>4. /\ LogicalHits(call.point)' = LogicalHits(call.point)
        /\ FirstGrain(LogicalHits(call.point))' = FirstGrain(LogicalHits(call.point))
    BY <2>1 DEF LogicalHits, FirstGrain
  <2> QED BY <1>2, <2>1, <2>2, <2>3, <2>4 DEF WarpInv
<1> QED BY <1>1, <1>2

(* A call that begins measures the desk, or has an answer at once, ...     *)
LEMMA PointerCallAims ==
  ASSUME SessionInv, desk \in Desks[host], PointerInv, WarpInv, PointerCall,
         UNCHANGED <<sessionVars, changed, desk>>
  PROVE  WarpInv'
<1>1. host \in Host /\ backend \in Backend \union {"none"}
  BY DEF SessionInv, Host, Backend
<1>2. UNCHANGED <<backend, caps, desk, changed>>
  BY DEF sessionVars
<1>3. VirtualScreen' = VirtualScreen
  BY <1>2, SameDesk
<1>4. ASSUME NEW l \in Points[backend], WinWarp(l)
      PROVE  WarpInv'
  <2>1. call'.name = "warpCursor" /\ backend = "windows"
        /\ \/ ppc' = "idle" /\ reply'.error = "platformError"
           \/ ppc' = "map" /\ metrics' = VirtualScreen
    BY <1>4 DEF WinWarp, ReplyWith, Reply
  <2>2. WarpLands'
    BY <2>1 DEF WarpLands
  <2> QED BY <1>2, <1>3, <2>1, <2>2 DEF WarpInv
<1>5. ASSUME NEW l \in Points[backend], WarpAt(l)
      PROVE  WarpInv'
  <2>1. /\ call'.name = "warpCursor" /\ call'.point = l /\ ppc' = "idle"
        /\ backend \in {"x11", "macos", "uinput"}
    BY <1>5 DEF WarpAt, ReplyWith
  <2>2. l \in Vector
    BY <2>1, PointsAssumption DEF Backend
  <2>3. WarpLands'
    <3>1. /\ Showing(call'.point) # {} /\ "canWarpCursor" \in caps' /\ ~changed'
          => /\ reply'.error # "invalidArgument"
             /\ reply'.error = "ok" => Lands(cursor', call'.point)
      BY <1>2, <1>5, <2>1, <2>2, WarpAtLands
    <3> QED BY <1>2, <3>1, LandsAfter
  <2> QED BY <1>2, <2>1, <2>3 DEF WarpInv
<1>6. ASSUME WinRead \/ ReadAt
      PROVE  WarpInv'
  <2>1. call'.name = "cursorPosition"
    BY <1>6 DEF WinRead, ReadAt
  <2> QED BY <2>1 DEF WarpInv, WarpLands
<1> QED BY <1>4, <1>5, <1>6 DEF PointerCall

(* ... and each step of it does what the one before prepared.              *)
LEMMA PointerStepAims ==
  ASSUME SessionInv, desk \in Desks[host], PointerInv, WarpInv, PointerStep,
         UNCHANGED <<sessionVars, changed, desk, steady>>
  PROVE  WarpInv'
<1>1. /\ host \in Host /\ backend = "windows"
      /\ UNCHANGED <<backend, caps, desk, changed, steady, call>>
  BY DEF SessionInv, PointerInv, PointerStep, WinMap, WinSend, WinReadMap, sessionVars
<1>2. call'.name = call.name /\ call'.point = call.point
  BY <1>1
<1>3. CASE WinMap
  <2> DEFINE hits == LogicalHits(call.point)
  <2>1. /\ ppc = "map" /\ metrics' = metrics
        /\ \/ hits = {} /\ ppc' = "idle" /\ reply'.error = "invalidArgument"
           \/ /\ hits # {} /\ ppc' = "send"
              /\ pixel' = toPhysical(call.point, FirstGrain(hits))
    BY <1>3 DEF WinMap, ReplyWith, Reply
  <2>2. WarpLands'
    <3>1. Uniform /\ Showing(call'.point) # {} => ppc' # "idle"
      BY <1>1, <1>2, <2>1, HitsShow
    <3> QED BY <1>1, <3>1, LandsAfter
  <2>3. VirtualScreen' = VirtualScreen
    BY <1>1, SameDesk
  <2>4. LogicalHits(call.point)' = hits /\ FirstGrain(LogicalHits(call.point))' = FirstGrain(hits)
    BY <1>1 DEF LogicalHits, FirstGrain
  <2> HIDE DEF hits
  <2>5. toPhysical(call.point, FirstGrain(LogicalHits(call.point)))'
          = toPhysical(call.point, FirstGrain(hits))
    BY <1>2, <2>4 DEF toPhysical
  <2> QED BY <1>1, <2>1, <2>2, <2>3, <2>4, <2>5 DEF WarpInv
<1>4. CASE WinSend
  <2>1. ppc = "send" /\ ppc' = "idle"
    BY <1>4 DEF WinSend, ReplyWith
  <2>2. WarpLands'
    <3>1. ASSUME call.name = "warpCursor", Showing(call.point) # {},
                 "pointer" \in steady, Uniform, Addressable
          PROVE  /\ reply'.error # "invalidArgument"
                 /\ reply'.error = "ok" => Lands(cursor', call.point)
      <4>1. metrics = VirtualScreen /\ pixel = toPhysical(call.point, Grain)
        BY <1>1, <2>1, <3>1, HitsShow DEF WarpInv
      <4> QED BY <1>1, <1>4, <3>1, <4>1, WinSendLands
    <3> QED BY <1>1, <1>2, <3>1, LandsAfter
  <2> QED BY <1>1, <2>1, <2>2 DEF WarpInv
<1>5. CASE WinReadMap
  <2>1. ppc = "read"
    BY <1>5 DEF WinReadMap
  <2>2. call'.name = "cursorPosition"
    BY <1>1, <2>1 DEF WarpInv
  <2> QED BY <2>2 DEF WarpInv, WarpLands
<1> QED BY <1>3, <1>4, <1>5 DEF PointerStep

(* It holds at first, ... *)
LEMMA InitWarp == Init => WarpInv
BY DEF Init, SessionInit, PointerInit, WarpInv, WarpLands

(* ... and whatever happens. *)
LEMMA NextWarp ==
  ASSUME SessionInv, desk \in Desks[host], PointerInv, WarpInv, [Next]_vars
  PROVE  WarpInv'
<1>1. CASE CreateSession
  <2>1. backend = "none" /\ UNCHANGED <<pointerVars, desk, steady>>
    BY <1>1 DEF CreateSession, Create, deskVars
  <2>2. call.name = "cursorPosition"
    BY <2>1 DEF WarpInv
  <2> QED BY <2>1, <2>2, WarpStays
<1>2. CASE Call
  <2>1. UNCHANGED <<sessionVars, changed, desk>> /\ backend # "none"
    BY <1>2 DEF Call
  <2>2. UNCHANGED <<backend, caps, changed, desk>>
    BY <2>1 DEF sessionVars
  <2>3. CASE PointerCall
    BY <2>1, <2>3, PointerCallAims
  <2>4. CASE UNCHANGED pointerVars /\ ("pointer" \in steady' => "pointer" \in steady)
    BY <2>2, <2>4, WarpStays
  <2> QED BY <1>2, <2>3, <2>4 DEF Call
<1>3. CASE Step
  <2>1. UNCHANGED <<sessionVars, changed, desk, steady>>
    BY <1>3 DEF Step, deskVars
  <2>2. CASE PointerStep
    BY <2>1, <2>2, PointerStepAims
  <2>3. CASE UNCHANGED pointerVars
    BY <2>1, <2>3, WarpStays DEF sessionVars
  <2> QED BY <1>3, <2>2, <2>3 DEF Step
<1>4. CASE Replug
  <2>1. steady' = {} /\ UNCHANGED <<backend, ppc, call>>
    BY <1>4 DEF Replug, sessionVars
  <2> QED BY <2>1 DEF WarpInv, WarpLands
<1>5. CASE ChangePermission
  <2>1. changed' = TRUE /\ UNCHANGED <<backend, desk, steady, pointerVars>>
    BY <1>5 DEF ChangePermission, Toggle, deskVars, sessionVars
  <2> QED BY <2>1, WarpStays
<1>6. CASE UNCHANGED vars
  <2>1. UNCHANGED <<backend, caps, changed, desk, steady, pointerVars>>
    BY <1>6 DEF vars, deskVars, sessionVars
  <2> QED BY <2>1, WarpStays
<1> QED BY <1>1, <1>2, <1>3, <1>4, <1>5, <1>6 DEF Next, AtRest

(* On a desk of pixels of one size, wherever its displays are and however  *)
(* many, a warp to a point that shows is not refused as misplaced, and     *)
(* lands as near to it as the roundings allow.                             *)
THEOREM DesktopWarpLands == Spec => []WarpLands
<1>1. Init => WarpInv
  BY InitWarp
<1>2. SessionInv /\ desk \in Desks[host] /\ PointerInv /\ WarpInv /\ [Next]_vars => WarpInv'
  BY NextWarp
<1>3. WarpInv => WarpLands
  BY DEF WarpInv
<1> QED BY <1>1, <1>2, <1>3, PointerInvariant, PTL DEF Spec

-------------------------------------------------------------------------------
(* What the properties of the screen depend on does not change. *)
Still == /\ UNCHANGED <<host, backend, desk>>
         /\ ("screen" \in steady)' <=> "screen" \in steady

(* Then the monitors are the same, too. *)
LEMMA StillHere ==
  ASSUME Still
  PROVE  /\ \A i : Here(i)' = Here(i)
         /\ First' = First /\ Uniform' = Uniform
         /\ \A m : Native(m)' = Native(m)
         /\ host' = host /\ backend' = backend /\ desk' = desk
         /\ ("screen" \in steady') <=> "screen" \in steady
BY DEF Still, Here, Monitor, WinMonitor, X11Monitor, MacMonitor, First, Uniform, Displays,
       Native

(* The monitor of a display. *)
LEMMA HereParts ==
  ASSUME SessionInv, desk \in Desks[host], NEW i \in 1..Len(desk),
         backend \in {"windows", "macos", "x11"}
  PROVE  /\ desk[i] \in Display
         /\ Here(i) \in MonitorType
         /\ Here(i).isPrimary = desk[i].main
         /\ backend = "macos" =>
              /\ Here(i).id = desk[i].name
              /\ Here(i).physicalBounds = RectToPhysical(desk[i].bounds, desk[i].grain)
              /\ Here(i).logicalBounds = desk[i].bounds
<1>1. desk[i] \in Display /\ i \in Nat
  BY DeskParts DEF SessionInv
<1>2. Here(i) \in MonitorType
  BY <1>1, MonitorParts DEF Here
<1> QED BY <1>1, <1>2 DEF Here, Monitor, WinMonitor, X11Monitor, MacMonitor, Entry

(* A name tells a display. *)
LEMMA ByName ==
  ASSUME SessionInv, desk \in Desks[host], NEW i \in 1..Len(desk),
         NEW d \in Displays, d.name = desk[i].name
  PROVE  d = desk[i]
<1>1. PICK j \in 1..Len(desk) : d = desk[j]
  BY DeskParts DEF SessionInv, Displays
<1>2. Arranged(host, desk)
  BY DeskParts DEF SessionInv
<1> QED BY <1>1, <1>2 DEF Arranged

(* The first of the primary ones. *)
LEMMA FirstParts ==
  ASSUME SessionInv, desk \in Desks[host]
  PROVE  /\ First \in 1..Len(desk)
         /\ \A i \in 1..Len(desk) : desk[i].main => desk[First].main /\ First <= i
         /\ desk[First].main \/ First = 1
<1> DEFINE main == {i \in 1..Len(desk) : desk[i].main}
<1>1. Len(desk) \in Nat \ {0}
  BY DeskParts DEF SessionInv
<1>2. main \in SUBSET Nat /\ \A i \in 1..Len(desk) : desk[i].main <=> i \in main
  BY <1>1
<1>3. First = IF main # {} THEN Min(main) ELSE 1
  BY DEF First
<1>4. main \subseteq 1..Len(desk) /\ 1 \in 1..Len(desk)
  BY <1>1
<1> HIDE DEF main
<1>5. CASE main # {}
  <2>1. Min(main) \in main /\ \A i \in main : Min(main) <= i
    BY <1>2, <1>5, MinOfNats
  <2> QED BY <1>2, <1>3, <1>4, <1>5, <2>1
<1>6. CASE main = {}
  BY <1>2, <1>3, <1>4, <1>6
<1> QED BY <1>5, <1>6

(* Displays of macOS that have the same pixels have the same points, if    *)
(* they are of one density.                                                *)
LEMMA SamePixels ==
  ASSUME SessionInv, desk \in Desks[host], backend = "macos",
         NEW i \in 1..Len(desk), NEW j \in 1..Len(desk), desk[i].grain = desk[j].grain,
         RectToPhysical(desk[i].bounds, desk[i].grain)
           = RectToPhysical(desk[j].bounds, desk[j].grain)
  PROVE  desk[i].bounds = desk[j].bounds
<1> DEFINE r == desk[i].bounds
           s == desk[j].bounds
           g == desk[i].grain
<1>1. desk[i] \in Display /\ desk[j] \in Display /\ Arranged(host, desk) /\ host = "macos"
  BY DeskParts DEF SessionInv
<1>2. g \in Nat \ {0} /\ r \in Region /\ s \in Region
  BY <1>1, DisplayParts
<1>3. ASSUME NEW a \in Axis
      PROVE  r.origin[a] = s.origin[a] /\ r.size[a] = s.size[a]
  <2>1. /\ r.origin[a] \in Int /\ s.origin[a] \in Int /\ r.size[a] \in Int /\ s.size[a] \in Int
    BY <1>2, VectorParts DEF Region
  <2>2. /\ r.origin[a] % g = 0 /\ s.origin[a] % g = 0
        /\ r.size[a] % g = 0 /\ s.size[a] % g = 0
    BY <1>1 DEF Arranged
  <2>3. /\ lround(r.origin[a], g) = lround(s.origin[a], g)
        /\ lround(r.size[a], g) = lround(s.size[a], g)
    BY DEF RectToPhysical, Rect, toPhysical
  <2> HIDE DEF r, s, g
  <2> QED BY <1>2, <2>1, <2>2, <2>3, LroundInjective
<1> HIDE DEF r, s
<1>4. r.origin = s.origin /\ r.size = s.size
  BY <1>2, <1>3 DEF Region, Vector
<1>5. r = s
  BY <1>2, <1>4 DEF Region
<1> QED BY <1>5 DEF r, s

(* An enumeration that is complete has all monitors, in their order.       *)
LEMMA AllRead ==
  ASSUME SessionInv, desk \in Desks[host], ScreenInv, pc = "read", handles = <<>>,
         "screen" \in steady
  PROVE  /\ Len(found) = Len(desk)
         /\ \A i \in 1..Len(desk) : found[i] = Here(i)
         /\ ToSet(found) = {Here(i) : i \in 1..Len(desk)}
<1>1. Len(found) + 0 = Len(desk) /\ \A i \in 1..Len(found) : found[i] = Here(i)
  BY DEF ScreenInv, Reading
<1>2. found \in Seq(MonitorType) /\ Len(found) \in Nat
  BY DEF ScreenInv, ScreenTypes
<1>3. Len(found) = Len(desk)
  BY <1>1, <1>2
<1> QED BY <1>1, <1>2, <1>3 DEF ToSet

-------------------------------------------------------------------------------
(* Nothing is promised of a call that goes on, or that an error ended.     *)
LEMMA Unanswered ==
  ASSUME \/ pc' # "idle"
         \/ answer'.error \notin {"ok", "monitorNotFound"}
         \/ op'.name \notin {"captureMonitor", "capture", "pixel", "primaryMonitor"}
  PROVE  ScreenAnswers'
BY DEF ScreenAnswers, KnownIdCaptures, CaptureExact, PrimaryAgrees

(* A list that was fresh stays so.                                         *)
LEMMA FreshStays ==
  ASSUME Fresh, Still, known' = known,
         op'.name = "captureMonitor" => \/ op'.name = op.name /\ op'.id = op.id
                                        \/ \E m \in ToSet(known.list) : m.id = op'.id
  PROVE  Fresh'
<1>1. /\ \A i : Here(i)' = Here(i)
      /\ First' = First /\ desk' = desk /\ ("screen" \in steady') <=> "screen" \in steady
  BY StillHere
<1> QED BY <1>1 DEF Fresh

(* When a call returns no enumeration or capture goes on. *)
LEMMA Returns ==
  ASSUME ScreenInv, NEW e, NEW v, Return(e, v), Still, op' \in CallType,
         known' \in [list : Seq(MonitorType), fresh : BOOLEAN], backend # "none"
  PROVE  ScreenTypes' /\ Reading' /\ Capturing'
<1>1. /\ pc' = "idle" /\ matching' = FALSE /\ handles' = <<>> /\ found' = <<>>
      /\ backend' = backend
  BY StillHere DEF Return
<1>2. <<>> \in Seq(Nat \ {0}) /\ <<>> \in Seq(MonitorType)
  OBVIOUS
<1> QED BY <1>1, <1>2 DEF ScreenTypes, Reading, Capturing

(* Where nothing of the screen changes, its invariants stay. *)
LEMMA ScreenStays ==
  ASSUME ScreenInv, ScreenAnswers, Still, UNCHANGED screenVars
  PROVE  ScreenInv' /\ ScreenAnswers'
<1>1. /\ \A i : Here(i)' = Here(i)
      /\ First' = First /\ Uniform' = Uniform
      /\ \A m : Native(m)' = Native(m)
      /\ host' = host /\ backend' = backend /\ desk' = desk
      /\ ("screen" \in steady') <=> "screen" \in steady
  BY StillHere
<1>2. /\ pc' = pc /\ op' = op /\ matching' = matching /\ handles' = handles
      /\ found' = found /\ target' = target /\ answer' = answer /\ known' = known
  BY DEF screenVars
<1>3. ScreenTypes' /\ Reading' /\ Capturing'
  BY <1>1, <1>2 DEF ScreenInv, ScreenTypes, Reading, Capturing
<1>4. Fresh'
  BY <1>2, FreshStays DEF ScreenInv
<1>5. ScreenAnswers'
  BY <1>1, <1>2 DEF ScreenAnswers, KnownIdCaptures, CaptureExact, PrimaryAgrees
<1> QED BY <1>3, <1>4, <1>5 DEF ScreenInv

-------------------------------------------------------------------------------
(* A call begins. *)
LEMMA ScreenCallKeeps ==
  ASSUME SessionInv, ScreenInv, backend # "none", ScreenCall,
         UNCHANGED <<host, backend, desk>>, steady' = steady \union {"screen"}
  PROVE  ScreenInv' /\ ScreenAnswers'
<1>1. /\ pc = "idle" /\ ~matching /\ backend \in Backend
      /\ handles \in Seq(Nat \ {0}) /\ found \in Seq(MonitorType)
      /\ known \in [list : Seq(MonitorType), fresh : BOOLEAN]
  BY DEF ScreenCall, SessionInv, Host, Backend, ScreenInv, ScreenTypes
<1>2. /\ \A i : Here(i)' = Here(i)
      /\ First' = First /\ desk' = desk /\ backend' = backend /\ "screen" \in steady'
  BY DEF Here, Monitor, WinMonitor, X11Monitor, MacMonitor, First
<1>3. NoRect \in Region
  BY DEF NoRect, Rect, Region, Vector
<1>4. ASSUME known' = known,
             op'.name = "captureMonitor" => \E m \in ToSet(known.list) : m.id = op'.id
      PROVE  Fresh'
  BY <1>2, <1>4 DEF ScreenInv, Fresh
<1>5. ASSUME NEW name \in CallName, NEW id \in Nat, Enquire(name, id),
             name = "captureMonitor" => \E m \in ToSet(known.list) : m.id = id
      PROVE  ScreenInv' /\ ScreenAnswers'
  <2>1. /\ op' = [name |-> name, id |-> id, region |-> NoRect] /\ pc' = "list"
        /\ matching' = matching /\ handles' = handles /\ found' = found /\ known' = known
    BY <1>5 DEF Enquire
  <2>2. ScreenTypes'
    BY <1>1, <1>2, <1>3, <2>1 DEF ScreenTypes, Backend, CallType
  <2>3. Reading' /\ Capturing'
    BY <1>1, <2>1 DEF Reading, Capturing
  <2>4. Fresh'
    BY <1>4, <1>5, <2>1
  <2> QED BY <2>1, <2>2, <2>3, <2>4, Unanswered DEF ScreenInv
<1>6. ASSUME NEW name \in {"capture", "pixel"}, NEW region \in Region, Capture(name, region)
      PROVE  ScreenInv' /\ ScreenAnswers'
  <2>1. /\ op' = [name |-> name, id |-> 0, region |-> region] /\ known' = known
        /\ \/ /\ pc' = "grab" /\ matching' = matching
              /\ handles' = handles /\ found' = found
           \/ /\ pc' = "idle" /\ matching' = FALSE /\ handles' = <<>> /\ found' = <<>>
              /\ answer' = Answer("invalidArgument", <<>>)
    BY <1>6 DEF Capture, Return
  <2>2. /\ op' \in CallType
        /\ op'.name = name /\ op'.name # "captureMonitor"
    <3>1. name \in CallName /\ name # "captureMonitor" /\ 0 \in Nat
      BY <1>6 DEF CallName
    <3>2. op' = [name |-> name, id |-> 0, region |-> region]
      BY <2>1
    <3> QED BY <3>1, <3>2 DEF CallType
  <2>3. <<>> \in Seq(Nat \ {0}) /\ <<>> \in Seq(MonitorType)
    OBVIOUS
  <2>4. ScreenTypes'
    <3>1. handles' \in Seq(Nat \ {0}) /\ found' \in Seq(MonitorType)
      BY <1>1, <2>1, <2>3
    <3>2. pc' \in {"idle", "grab"} /\ ~matching'
      BY <1>1, <2>1
    <3>3. op'.name \in {"captureMonitor", "capture", "pixel"} /\ backend' # "none"
      BY <1>2, <2>2
    <3> QED BY <1>1, <2>1, <2>2, <3>1, <3>2, <3>3 DEF ScreenTypes
  <2>5. Reading' /\ Capturing'
    BY <1>1, <2>1, <2>2 DEF Reading, Capturing
  <2>6. Fresh'
    BY <1>4, <2>1, <2>2
  <2>7. ScreenAnswers'
    BY <2>1, Unanswered DEF Answer
  <2> QED BY <2>4, <2>5, <2>6, <2>7 DEF ScreenInv
<1>7. ASSUME NEW m \in ToSet(known.list) PROVE m.id \in Nat
  <2>1. m \in MonitorType
    BY <1>1, <1>7, ElementOfSeq DEF ToSet
  <2> QED BY <2>1 DEF MonitorType
<1>8. ASSUME NEW r \in Regions[backend]
      PROVE  r \in Region /\ Rect(r.origin, [a \in Axis |-> 1]) \in Region
  BY <1>1, RegionsAssumption DEF Region, Rect, Vector
<1>9. CASE \E name \in {"monitors", "primaryMonitor", "virtualBounds"} : Enquire(name, 0)
  <2>1. PICK name \in {"monitors", "primaryMonitor", "virtualBounds"} : Enquire(name, 0)
    BY <1>9
  <2>2. name \in CallName /\ name # "captureMonitor"
    BY DEF CallName
  <2> QED BY <1>5, <2>1, <2>2
<1>10. CASE \E m \in ToSet(known.list) : Enquire("captureMonitor", m.id)
  <2>1. PICK m \in ToSet(known.list) : Enquire("captureMonitor", m.id)
    BY <1>10
  <2> QED BY <1>5, <1>7, <2>1 DEF CallName
<1>11. CASE \/ \E r \in Regions[backend] : Capture("capture", r)
            \/ \E r \in Regions[backend] :
                 Capture("pixel", Rect(r.origin, [a \in Axis |-> 1]))
  BY <1>6, <1>8, <1>11
<1> QED BY <1>9, <1>10, <1>11 DEF ScreenCall

(* The displays are listed, ... *)
LEMMA ListKeeps ==
  ASSUME SessionInv, desk \in Desks[host], ScreenInv, List, Still
  PROVE  ScreenInv' /\ ScreenAnswers'
<1>1. /\ pc = "list" /\ backend # "none" /\ op' = op /\ known' = known
      /\ known \in [list : Seq(MonitorType), fresh : BOOLEAN]
      /\ op \in CallType
  BY DEF List, ScreenInv, ScreenTypes
<1>2. Fresh'
  BY <1>1, FreshStays DEF ScreenInv
<1>3. ASSUME NEW error \in {"platformError", "unsupported"}, Return(error, <<>>)
      PROVE  ScreenInv' /\ ScreenAnswers'
  <2>1. ScreenTypes' /\ Reading' /\ Capturing'
    BY <1>1, <1>3, Returns
  <2>2. ScreenAnswers'
    BY <1>3, Unanswered DEF Return, Answer
  <2> QED BY <1>2, <2>1, <2>2 DEF ScreenInv
<1>4. ASSUME backend # "uinput", pc' = "read", handles' = Names, found' = <<>>,
             UNCHANGED <<matching, target, answer>>
      PROVE  ScreenInv' /\ ScreenAnswers'
  <2>1. /\ Len(desk) \in Nat /\ \A i \in 1..Len(desk) : desk[i].name \in Nat \ {0}
    BY DeskParts, DisplayParts DEF SessionInv
  <2>2. /\ Names \in Seq(Nat \ {0}) /\ Len(Names) = Len(desk)
        /\ \A i \in 1..Len(desk) : Names[i] = desk[i].name
    BY <2>1 DEF Names
  <2>3. <<>> \in Seq(MonitorType) /\ Len(<<>>) = 0
    OBVIOUS
  <2>4. desk' = desk /\ backend' = backend /\ (\A i : Here(i)' = Here(i))
        /\ ("screen" \in steady' <=> "screen" \in steady)
    BY StillHere
  <2>5. ScreenTypes'
    BY <1>1, <1>4, <2>2, <2>3, <2>4 DEF ScreenInv, ScreenTypes
  <2>6. Reading'
    BY <1>4, <2>1, <2>2, <2>3, <2>4 DEF Reading
  <2>7. Capturing'
    BY <1>1, <1>4, <2>4 DEF ScreenInv, Capturing
  <2> QED BY <1>2, <1>4, <2>5, <2>6, <2>7, Unanswered DEF ScreenInv
<1> QED BY <1>3, <1>4 DEF List

(* ... and read one by one. *)
LEMMA ReadKeeps ==
  ASSUME SessionInv, desk \in Desks[host], ScreenInv, Read, Still
  PROVE  ScreenInv' /\ ScreenAnswers'
<1> DEFINE n == Len(found) + 1
           now == {d \in Displays : d.name = Head(handles)}
           d0 == CHOOSE d \in now : TRUE
<1>1. /\ pc = "read" /\ pc' = "read" /\ handles # <<>> /\ handles' = Tail(handles)
      /\ UNCHANGED <<matching, target, op, answer, known>>
      /\ found' = IF now # {} THEN Append(found, Monitor(d0, n))
                  ELSE IF backend = "macos" THEN Append(found, Monitor(Gone(Head(handles)), n))
                  ELSE found
  BY DEF Read, callVars
<1>2. /\ found \in Seq(MonitorType) /\ handles \in Seq(Nat \ {0})
      /\ backend \in {"windows", "macos", "x11"}
  BY <1>1 DEF ScreenInv, ScreenTypes, SessionInv, Host
<1>3. /\ Len(found) \in Nat /\ n \in Nat
      /\ Head(handles) \in Nat \ {0} /\ Head(handles) = handles[1]
      /\ Tail(handles) \in Seq(Nat \ {0}) /\ Len(Tail(handles)) = Len(handles) - 1
      /\ Len(handles) \in Nat \ {0}
      /\ \A i \in 1..Len(Tail(handles)) : Tail(handles)[i] = handles[i + 1]
  BY <1>1, <1>2, HeadTailProperties
<1>4. /\ desk' = desk /\ backend' = backend /\ (\A i : Here(i)' = Here(i))
      /\ ("screen" \in steady' <=> "screen" \in steady)
  BY StillHere
<1>5. now # {} => d0 \in Display /\ d0 \in now
  <2>1. now # {} => d0 \in now
    OBVIOUS
  <2>2. now \subseteq Display
    BY DeskParts DEF SessionInv, Displays
  <2> HIDE DEF now, d0
  <2> QED BY <2>1, <2>2
<1> HIDE DEF n, d0
<1>6. found' \in Seq(MonitorType)
  <2>1. now # {} => Monitor(d0, n) \in MonitorType
    BY <1>2, <1>3, <1>5, MonitorParts
  <2>2. backend = "macos" => Monitor(Gone(Head(handles)), n) \in MonitorType
    BY <1>3, GoneParts
  <2> HIDE DEF now
  <2> QED BY <1>1, <1>2, <2>1, <2>2, AppendProperties
<1>7. ScreenTypes'
  BY <1>1, <1>3, <1>4, <1>6 DEF ScreenInv, ScreenTypes
<1>8. ASSUME "screen" \in steady PROVE Reading'
  <2>1. /\ Len(found) + Len(handles) = Len(desk)
        /\ \A i \in 1..Len(found) : found[i] = Here(i)
        /\ \A i \in 1..Len(handles) : handles[i] = desk[Len(found) + i].name
    BY <1>1, <1>8 DEF ScreenInv, Reading
  <2>2. n \in 1..Len(desk) /\ Head(handles) = desk[n].name
    BY <1>3, <2>1 DEF n
  <2>3. desk[n] \in now
    BY <2>2, DeskParts DEF SessionInv, Displays
  <2>4. d0 = desk[n]
    <3>1. d0 \in Displays /\ d0.name = desk[n].name
      BY <1>5, <2>2, <2>3
    <3> QED BY <2>2, <3>1, ByName
  <2>5. found' = Append(found, Here(n))
    BY <1>1, <2>3, <2>4 DEF Here
  <2>6. Here(n) \in MonitorType
    BY <1>2, <2>2, HereParts
  <2>7. /\ Len(found') = n
        /\ \A i \in 1..Len(found) : found'[i] = found[i]
        /\ found'[n] = Here(n)
    BY <1>2, <2>5, <2>6, AppendProperties DEF n
  <2>8. \A i \in 1..n : found'[i] = Here(i)
    <3>1. \A i \in 1..n : i \in 1..Len(found) \/ i = n
      BY <1>3 DEF n
    <3> QED BY <2>1, <2>7, <3>1
  <2>9. Len(found') + Len(handles') = Len(desk)
    BY <1>1, <1>3, <2>1, <2>7 DEF n
  <2>10. \A i \in 1..Len(handles') : handles'[i] = desk[Len(found') + i].name
    <3>1. \A i \in 1..Len(handles') : i + 1 \in 1..Len(handles) /\ Len(found) + (i + 1) = n + i
      BY <1>1, <1>3 DEF n
    <3> QED BY <1>1, <1>3, <2>1, <2>7, <3>1
  <2> QED BY <1>4, <2>7, <2>8, <2>9, <2>10 DEF Reading
<1>9. Reading'
  BY <1>4, <1>8 DEF Reading
<1>10. Capturing'
  BY <1>1, <1>4 DEF ScreenInv, Capturing
<1>11. Fresh'
  BY <1>1, FreshStays DEF ScreenInv
<1> QED BY <1>1, <1>7, <1>9, <1>10, <1>11, Unanswered DEF ScreenInv

-------------------------------------------------------------------------------
(* A call that returns keeps the invariant. *)
LEMMA ReturnKeeps ==
  ASSUME ScreenInv, pc # "idle", NEW e, NEW v, Return(e, v), op' = op, known' = known, Still
  PROVE  ScreenInv'
<1>1. /\ backend # "none" /\ op' \in CallType
      /\ known' \in [list : Seq(MonitorType), fresh : BOOLEAN]
  BY DEF ScreenInv, ScreenTypes
<1>2. ScreenTypes' /\ Reading' /\ Capturing'
  BY <1>1, Returns
<1>3. Fresh'
  BY FreshStays DEF ScreenInv
<1> QED BY <1>2, <1>3 DEF ScreenInv

(* The head of a list with the primary ones first is the first of them.    *)
LEMMA HeadIsFirst ==
  ASSUME SessionInv, desk \in Desks[host], backend \in {"windows", "macos", "x11"},
         NEW list \in PrimaryFirst(found),
         found \in Seq(MonitorType), Len(found) = Len(desk),
         \A i \in 1..Len(desk) : found[i] = Here(i)
  PROVE  /\ list \in Seq(MonitorType) /\ list # <<>> /\ Head(list) = Here(First)
         /\ ToSet(list) = {Here(i) : i \in 1..Len(desk)}
<1> DEFINE n == Len(desk)
<1>1. n \in Nat \ {0}
  BY DeskParts DEF SessionInv
<1>2. PICK f \in Bijection(1..n, 1..n) :
        /\ list = [i \in 1..n |-> found[f[i]]]
        /\ \A i, j \in 1..n : i < j => Precedes(found, f[i], f[j])
  BY DEF PrimaryFirst
<1>3. /\ f \in [1..n -> 1..n] /\ \A k \in 1..n : \E i \in 1..n : f[i] = k
  BY DEF Bijection, Surjection
<1>4. \A i \in 1..n : Here(i) \in MonitorType /\ Here(i).isPrimary = desk[i].main
                      /\ desk[i].main \in BOOLEAN
  BY HereParts, DisplayParts
<1> HIDE DEF n
<1>5. list \in [1..n -> MonitorType] /\ \A i \in 1..n : list[i] = Here(f[i])
  <2>1. ASSUME NEW i \in 1..n
        PROVE  f[i] \in 1..n /\ found[f[i]] = Here(f[i]) /\ Here(f[i]) \in MonitorType
    <3>1. f[i] \in 1..n
      BY <1>3
    <3>2. found[f[i]] = Here(f[i])
      BY <3>1 DEF n
    <3> QED BY <1>4, <3>1, <3>2
  <2> QED BY <1>2, <2>1
<1>6. list \in Seq(MonitorType) /\ Len(list) = n
  BY <1>1, <1>5
<1>7. list # <<>> /\ Head(list) = list[1] /\ 1 \in 1..n
  BY <1>1, <1>6
<1>8. ToSet(list) = {Here(i) : i \in 1..n}
  <2>1. ToSet(list) = {list[i] : i \in 1..n}
    BY <1>5 DEF ToSet
  <2>2. ASSUME NEW i \in 1..n PROVE list[i] \in {Here(k) : k \in 1..n}
    <3>1. f[i] \in 1..n
      BY <1>3
    <3> QED BY <1>5, <3>1
  <2>3. ASSUME NEW k \in 1..n PROVE \E i \in 1..n : Here(k) = list[i]
    BY <1>3, <1>5
  <2> QED BY <2>1, <2>2, <2>3
<1>9. f[1] = First
  <2>1. /\ First \in 1..n
        /\ \A i \in 1..n : desk[i].main => desk[First].main /\ First <= i
        /\ desk[First].main \/ First = 1
    BY FirstParts DEF n
  <2>2. PICK k \in 1..n : f[k] = First
    BY <1>3, <2>1
  <2>3. SUFFICES ASSUME k # 1 PROVE FALSE
    BY <2>2
  <2>4. Precedes(found, f[1], First)
    BY <1>1, <1>2, <1>7, <2>2, <2>3
  <2>5. /\ f[1] \in 1..n /\ found[f[1]].isPrimary = desk[f[1]].main
        /\ found[First].isPrimary = desk[First].main
    <3>1. f[1] \in 1..n
      BY <1>3, <1>7
    <3>2. found[f[1]] = Here(f[1]) /\ found[First] = Here(First)
      BY <2>1, <3>1 DEF n
    <3> QED BY <1>4, <2>1, <3>1, <3>2
  <2>6. IF desk[f[1]].main = desk[First].main THEN f[1] < First ELSE desk[f[1]].main
    BY <2>4, <2>5 DEF Precedes
  <2>7. CASE desk[First].main
    <3>1. desk[f[1]].main = desk[First].main
      BY <1>4, <2>1, <2>5, <2>6, <2>7
    <3>2. f[1] < First
      BY <2>6, <3>1
    <3>3. First <= f[1]
      BY <2>1, <2>5, <2>7, <3>1
    <3>4. f[1] \in Int /\ First \in Int
      BY <1>1, <2>1, <2>5
    <3> QED BY <3>2, <3>3, <3>4
  <2>8. CASE ~desk[First].main
    <3>1. desk[f[1]].main = FALSE /\ desk[First].main = FALSE /\ First = 1
      BY <1>4, <2>1, <2>5, <2>8
    <3>2. f[1] < 1 /\ f[1] \in Nat /\ 1 <= f[1]
      BY <1>1, <2>5, <2>6, <3>1
    <3> QED BY <3>2
  <2> QED BY <2>7, <2>8
<1> QED BY <1>5, <1>6, <1>7, <1>8, <1>9 DEF n

(* So the list that is returned is fresh as long as the desk stays.        *)
LEMMA MonitorsKeeps ==
  ASSUME SessionInv, desk \in Desks[host], ScreenInv, Monitors, Still
  PROVE  ScreenInv' /\ ScreenAnswers'
<1>1. PICK list \in PrimaryFirst(found) :
        Return("ok", list) /\ known' = [list |-> list, fresh |-> "screen" \in steady]
  BY DEF Monitors
<1>2. /\ pc = "read" /\ handles = <<>> /\ found # <<>> /\ op.name = "monitors" /\ op' = op
      /\ found \in Seq(MonitorType) /\ op \in CallType
      /\ backend \in {"windows", "macos", "x11"}
  BY DEF Monitors, Enumerated, ScreenInv, ScreenTypes, SessionInv, Host
<1>3. list \in Seq(MonitorType)
  <2> DEFINE n == Len(found)
  <2>1. n \in Nat /\ \A i \in 1..n : found[i] \in MonitorType
    BY <1>2, ElementOfSeq
  <2>2. PICK f \in Bijection(1..n, 1..n) : list = [i \in 1..n |-> found[f[i]]]
    BY DEF PrimaryFirst
  <2>3. f \in [1..n -> 1..n]
    BY DEF Bijection, Surjection
  <2> HIDE DEF n
  <2>4. list \in [1..n -> MonitorType]
    BY <2>1, <2>2, <2>3
  <2> QED BY <2>1, <2>4
<1>4. ScreenTypes' /\ Reading' /\ Capturing'
  <2>1. known' \in [list : Seq(MonitorType), fresh : BOOLEAN]
    BY <1>1, <1>3
  <2> QED BY <1>1, <1>2, <2>1, Returns
<1>5. Fresh'
  <2>1. SUFFICES ASSUME "screen" \in steady PROVE Fresh'
    BY <1>1 DEF Fresh
  <2>2. Len(found) = Len(desk) /\ \A i \in 1..Len(desk) : found[i] = Here(i)
    BY <1>2, <2>1, AllRead
  <2>3. /\ list # <<>> /\ Head(list) = Here(First)
        /\ ToSet(list) = {Here(i) : i \in 1..Len(desk)}
    BY <1>2, <2>2, HeadIsFirst
  <2>4. /\ \A i : Here(i)' = Here(i)
        /\ First' = First /\ desk' = desk /\ "screen" \in steady'
    BY <2>1, StillHere
  <2>5. known'.list = list /\ op'.name = "monitors"
    BY <1>1, <1>2
  <2> QED BY <2>3, <2>4, <2>5 DEF Fresh
<1>6. ScreenAnswers'
  BY <1>2, Unanswered
<1> QED BY <1>4, <1>5, <1>6 DEF ScreenInv

(* primaryMonitor() finds the first there is, too. *)
LEMMA PrimaryMonitorKeeps ==
  ASSUME SessionInv, desk \in Desks[host], ScreenInv, PrimaryMonitor, Still
  PROVE  ScreenInv' /\ ScreenAnswers'
<1> DEFINE main == {i \in 1..Len(found) : found[i].isPrimary}
<1>1. /\ pc = "read" /\ handles = <<>> /\ op.name = "primaryMonitor"
      /\ op' = op /\ known' = known
      /\ Return("ok", found[IF main # {} THEN Min(main) ELSE 1])
      /\ backend \in {"windows", "macos", "x11"}
  BY DEF PrimaryMonitor, Enumerated, ScreenInv, ScreenTypes, SessionInv, Host
<1>2. ScreenInv'
  BY <1>1, ReturnKeeps
<1>3. known.fresh => answer'.value = Head(known.list)
  <2> SUFFICES ASSUME known.fresh PROVE answer'.value = Head(known.list)
    OBVIOUS
  <2>1. "screen" \in steady /\ Head(known.list) = Here(First)
    BY DEF ScreenInv, Fresh
  <2>2. Len(found) = Len(desk) /\ \A i \in 1..Len(desk) : found[i] = Here(i)
    BY <1>1, <2>1, AllRead
  <2>3. main = {i \in 1..Len(desk) : desk[i].main}
    BY <1>1, <2>2, HereParts
  <2>4. answer'.value = found[First]
    BY <1>1, <2>3 DEF Return, Answer, First
  <2> QED BY <2>1, <2>2, <2>4, FirstParts
<1>4. ScreenAnswers'
  BY <1>1, <1>3 DEF ScreenAnswers, KnownIdCaptures, CaptureExact, PrimaryAgrees
<1> QED BY <1>2, <1>4

(* The null backend, or one that finds none, has no monitors. *)
LEMMA NoMonitorsKeeps ==
  ASSUME ScreenInv, NoMonitors, Still
  PROVE  ScreenInv' /\ ScreenAnswers'
<1>1. /\ pc = "read" /\ op' = op /\ known' = known /\ Return("platformError", <<>>)
  BY DEF NoMonitors, Enumerated
<1>2. ScreenInv'
  BY <1>1, ReturnKeeps
<1>3. ScreenAnswers'
  BY <1>1, Unanswered DEF Return, Answer
<1> QED BY <1>2, <1>3

(* virtualBounds() changes nothing for the others. *)
LEMMA VirtualBoundsKeeps ==
  ASSUME ScreenInv, VirtualBounds, Still
  PROVE  ScreenInv' /\ ScreenAnswers'
<1>1. /\ pc = "read" /\ op' = op /\ known' = known /\ op.name = "virtualBounds"
      /\ \E v : Return("ok", v)
  BY DEF VirtualBounds, Enumerated
<1>2. ScreenInv'
  BY <1>1, ReturnKeeps
<1>3. ScreenAnswers'
  BY <1>1, Unanswered
<1> QED BY <1>2, <1>3

(* captureMonitor finds any id of a list that is fresh, ... *)
LEMMA CaptureMonitorKeeps ==
  ASSUME SessionInv, desk \in Desks[host], ScreenInv, CaptureMonitor, Still
  PROVE  ScreenInv' /\ ScreenAnswers'
<1>1. /\ pc = "read" /\ handles = <<>> /\ ~matching /\ op.name = "captureMonitor"
      /\ known' = known
      /\ \/ /\ FoundId(op.id) = {} /\ Return("monitorNotFound", <<>>) /\ op' = op
         \/ \E m \in FoundId(op.id) :
              /\ op' = [op EXCEPT !.region = m.physicalBounds] /\ pc' = "grab"
              /\ handles' = <<>> /\ found' = <<>>
              /\ UNCHANGED <<matching, target, answer>>
  BY DEF CaptureMonitor, Enumerated
<1>2. /\ op \in CallType /\ found \in Seq(MonitorType) /\ backend # "none"
      /\ known \in [list : Seq(MonitorType), fresh : BOOLEAN]
  BY <1>1 DEF ScreenInv, ScreenTypes
<1>3. ASSUME "screen" \in steady PROVE ToSet(found) = {Here(i) : i \in 1..Len(desk)}
  BY <1>1, <1>3, AllRead
<1>4. CASE FoundId(op.id) = {} /\ Return("monitorNotFound", <<>>) /\ op' = op
  <2>1. ScreenInv'
    BY <1>1, <1>4, ReturnKeeps
  <2>2. ~known.fresh
    <3>1. SUFFICES ASSUME known.fresh PROVE FALSE
      BY <1>2
    <3>2. PICK m \in ToSet(known.list) : m.id = op.id
      BY <1>1, <3>1 DEF ScreenInv, Fresh
    <3>3. m \in ToSet(found)
      BY <1>3, <3>1 DEF ScreenInv, Fresh
    <3> QED BY <1>4, <3>2, <3>3 DEF FoundId
  <2>3. ScreenAnswers'
    BY <1>1, <1>4, <2>2
       DEF Return, Answer, ScreenAnswers, KnownIdCaptures, CaptureExact, PrimaryAgrees
  <2> QED BY <2>1, <2>3
<1>5. ASSUME NEW m \in FoundId(op.id),
             op' = [op EXCEPT !.region = m.physicalBounds], pc' = "grab",
             handles' = <<>>, found' = <<>>, UNCHANGED <<matching, target, answer>>
      PROVE  ScreenInv' /\ ScreenAnswers'
  <2>1. m \in ToSet(found) /\ m.id = op.id
    BY DEF FoundId
  <2>2. m \in MonitorType
    BY <1>2, <2>1, ElementOfSeq DEF ToSet
  <2>3. /\ op' \in CallType /\ op'.name = "captureMonitor" /\ op'.id = op.id
        /\ op'.region = m.physicalBounds
    BY <1>1, <1>2, <1>5, <2>2 DEF CallType, MonitorType
  <2>4. /\ desk' = desk /\ backend' = backend /\ (\A i : Here(i)' = Here(i))
        /\ ("screen" \in steady' <=> "screen" \in steady)
    BY StillHere
  <2>5. <<>> \in Seq(Nat \ {0}) /\ <<>> \in Seq(MonitorType)
    OBVIOUS
  <2>6. ScreenTypes'
    BY <1>1, <1>2, <1>5, <2>3, <2>4, <2>5 DEF ScreenTypes
  <2>7. Reading'
    BY <1>5 DEF Reading
  <2>8. Capturing'
    BY <1>3, <1>5, <2>1, <2>3, <2>4 DEF Capturing
  <2>9. Fresh'
    BY <1>1, <2>3, FreshStays DEF ScreenInv
  <2> QED BY <1>5, <2>6, <2>7, <2>8, <2>9, Unanswered DEF ScreenInv
<1> QED BY <1>1, <1>4, <1>5

(* ... and what it captures is the monitor with that id. *)
LEMMA Captured ==
  ASSUME ScreenInv, op.name = "captureMonitor", pc \in {"grab", "shoot"}, known.fresh
  PROVE  \E j \in 1..Len(desk) :
           /\ Here(j) \in ToSet(known.list) /\ Here(j).id = op.id
           /\ Here(j).physicalBounds = op.region
BY DEF ScreenInv, Fresh, Capturing

(* Windows and X11 copy the pixels they are asked for. *)
LEMMA GrabPixelsKeeps ==
  ASSUME SessionInv, desk \in Desks[host], ScreenInv, GrabPixels, Still
  PROVE  ScreenInv' /\ ScreenAnswers'
<1>1. /\ pc = "grab" /\ op' = op /\ known' = known
      /\ op.name \in {"captureMonitor", "capture", "pixel"}
      /\ \/ backend \in {"windows", "x11"} /\ Return("ok", Image(op.region, op.region.size))
         \/ \E e \in {"captureFailed", "unsupported"} : Return(e, <<>>)
  BY DEF GrabPixels, ScreenInv, ScreenTypes
<1>2. ScreenInv'
  BY <1>1, ReturnKeeps
<1>3. CASE \E e \in {"captureFailed", "unsupported"} : Return(e, <<>>)
  <2>1. answer'.error \in {"captureFailed", "unsupported"}
    BY <1>3 DEF Return, Answer
  <2>2. answer'.error \notin {"ok", "monitorNotFound"}
    BY <2>1
  <2> QED BY <1>2, <2>2, Unanswered
<1>4. CASE backend \in {"windows", "x11"} /\ Return("ok", Image(op.region, op.region.size))
  <2>1. answer'.error = "ok" /\ answer'.value = Image(op.region, op.region.size)
    BY <1>4 DEF Return, Answer
  <2>2. \A m : Native(m)' = m.physicalBounds
    BY <1>4, StillHere DEF Native
  <2>3. ASSUME op.name = "captureMonitor", known.fresh
        PROVE  \E m \in ToSet(known.list) :
                 m.id = op.id /\ answer'.value = Image(Native(m)', m.physicalBounds.size)
    BY <1>1, <2>1, <2>2, <2>3, Captured
  <2>4. KnownIdCaptures'
    BY <1>1, <2>1, <2>3 DEF KnownIdCaptures
  <2>5. CaptureExact'
    BY <1>1, <2>1 DEF CaptureExact, Image
  <2>6. PrimaryAgrees'
    BY <1>1 DEF PrimaryAgrees
  <2> QED BY <1>2, <2>4, <2>5, <2>6 DEF ScreenAnswers
<1> QED BY <1>1, <1>3, <1>4

-------------------------------------------------------------------------------
(* macOS enumerates the displays again ... *)
LEMMA GrabMacKeeps ==
  ASSUME ScreenInv, GrabMac, Still
  PROVE  ScreenInv' /\ ScreenAnswers'
<1>1. /\ pc = "grab" /\ backend = "macos" /\ pc' = "list" /\ matching'
      /\ UNCHANGED <<handles, found, target, op, answer, known>>
  BY DEF GrabMac, callVars
<1>2. /\ desk' = desk /\ backend' = backend /\ (\A i : Here(i)' = Here(i))
      /\ ("screen" \in steady' <=> "screen" \in steady)
  BY StillHere
<1>3. ScreenTypes' /\ Reading' /\ Capturing'
  BY <1>1, <1>2 DEF ScreenInv, ScreenTypes, Reading, Capturing
<1>4. Fresh'
  BY <1>1, FreshStays DEF ScreenInv
<1> QED BY <1>1, <1>3, <1>4, Unanswered DEF ScreenInv

(* ... and finds the one whose pixels are those of the region, if any is.  *)
LEMMA MatchKeeps ==
  ASSUME SessionInv, desk \in Desks[host], ScreenInv, Match, Still
  PROVE  ScreenInv' /\ ScreenAnswers'
<1> DEFINE exact == {i \in 1..Len(found) : found[i].physicalBounds = op.region}
<1>1. /\ pc = "read" /\ handles = <<>> /\ matching /\ pc' = "shoot"
      /\ target' = IF exact # {} THEN found[Min(exact)].id ELSE 0
      /\ UNCHANGED <<matching, handles, found, op, answer, known>>
  BY DEF Match, callVars
<1>2. /\ desk' = desk /\ backend' = backend /\ (\A i : Here(i)' = Here(i))
      /\ ("screen" \in steady' <=> "screen" \in steady)
  BY StillHere
<1>3. /\ backend = "macos" /\ op.name \in {"captureMonitor", "capture", "pixel"}
      /\ Len(desk) \in Nat
  BY <1>1, DeskParts DEF ScreenInv, ScreenTypes, SessionInv
<1>4. ASSUME "screen" \in steady
      PROVE  /\ target' # 0 =>
                  \E i \in 1..Len(desk) :
                    desk[i].name = target' /\ Here(i).physicalBounds = op.region
             /\ target' = 0 => op.name # "captureMonitor"
  <2>1. Len(found) = Len(desk) /\ \A i \in 1..Len(desk) : found[i] = Here(i)
    BY <1>1, <1>4, AllRead
  <2>2. \A i \in 1..Len(desk) : Here(i).id = desk[i].name /\ desk[i].name # 0
    BY <1>3, HereParts, DisplayParts
  <2>3. \A i : i \in exact <=> i \in 1..Len(desk) /\ Here(i).physicalBounds = op.region
    BY <2>1
  <2>4. exact \in SUBSET Nat
    BY <1>3, <2>3
  <2> HIDE DEF exact
  <2>5. CASE exact # {}
    <3>1. Min(exact) \in exact
      BY <2>4, <2>5, MinOfNats
    <3>2. target' = desk[Min(exact)].name
      BY <1>1, <2>1, <2>2, <2>3, <2>5, <3>1
    <3> QED BY <2>2, <2>3, <3>1, <3>2
  <2>6. CASE exact = {}
    <3>1. target' = 0
      BY <1>1, <2>6
    <3>2. op.name # "captureMonitor"
      BY <1>1, <1>4, <2>3, <2>6 DEF ScreenInv, Capturing
    <3> QED BY <3>1, <3>2
  <2> QED BY <2>5, <2>6
<1> HIDE DEF exact
<1>5. ScreenTypes' /\ Reading'
  BY <1>1, <1>2, <1>3 DEF ScreenInv, ScreenTypes, Reading
<1>6. Capturing'
  BY <1>1, <1>2, <1>4 DEF ScreenInv, Capturing
<1>7. Fresh'
  BY <1>1, FreshStays DEF ScreenInv
<1> QED BY <1>1, <1>5, <1>6, <1>7, Unanswered DEF ScreenInv

(* Where macOS has no image. *)
LEMMA NoImageKeeps ==
  ASSUME ScreenInv, pc = "shoot", NoImage, op' = op, known' = known, Still
  PROVE  ScreenInv' /\ ScreenAnswers'
<1>1. PICK e \in {"captureFailed", "permissionDenied", "unsupported"} : Return(e, <<>>)
  BY DEF NoImage
<1>2. answer'.error \notin {"ok", "monitorNotFound"}
  BY <1>1 DEF Return, Answer
<1>3. ScreenInv'
  BY <1>1, ReturnKeeps
<1> QED BY <1>2, <1>3, Unanswered

(* A display captured natively has the pixels of the region, and on a desk *)
(* of one density it is the one whose id was asked for.                    *)
LEMMA ShootDisplayKeeps ==
  ASSUME SessionInv, desk \in Desks[host], ScreenInv, ShootDisplay, Still
  PROVE  ScreenInv' /\ ScreenAnswers'
<1>1. /\ pc = "shoot" /\ target # 0 /\ op' = op /\ known' = known /\ backend = "macos"
      /\ op.name \in {"captureMonitor", "capture", "pixel"}
  BY DEF ShootDisplay, ScreenInv, ScreenTypes
<1>2. CASE NoImage
  BY <1>1, <1>2, NoImageKeeps
<1>3. ASSUME NEW d \in Displays, d.name = target,
             Return("ok", Image(d.bounds, toPhysical(d.bounds.size, d.grain)))
      PROVE  ScreenInv' /\ ScreenAnswers'
  <2>1. ScreenInv'
    BY <1>1, <1>3, ReturnKeeps
  <2>2. /\ answer'.error = "ok"
        /\ answer'.value = Image(d.bounds, toPhysical(d.bounds.size, d.grain))
    BY <1>3 DEF Return, Answer
  <2>3. /\ Uniform' = Uniform /\ desk' = desk /\ ("screen" \in steady' <=> "screen" \in steady)
        /\ \A m : Native(m)' = m.logicalBounds
    BY <1>1, StillHere DEF Native
  <2>4. ASSUME "screen" \in steady
        PROVE  \E i \in 1..Len(desk) :
                 d = desk[i] /\ RectToPhysical(d.bounds, d.grain) = op.region
    <3>1. PICK i \in 1..Len(desk) :
            desk[i].name = target /\ Here(i).physicalBounds = op.region
      BY <1>1, <2>4 DEF ScreenInv, Capturing
    <3>2. d = desk[i]
      BY <1>3, <3>1, ByName
    <3> QED BY <1>1, <3>1, <3>2, HereParts
  <2>5. toPhysical(d.bounds.size, d.grain) = RectToPhysical(d.bounds, d.grain).size
    BY DEF RectToPhysical, Rect
  <2>6. ASSUME op.name = "captureMonitor", known.fresh, Uniform
        PROVE  \E m \in ToSet(known.list) :
                 m.id = op.id /\ answer'.value = Image(Native(m)', m.physicalBounds.size)
    <3>1. PICK i \in 1..Len(desk) :
            d = desk[i] /\ RectToPhysical(d.bounds, d.grain) = op.region
      BY <2>4, <2>6 DEF ScreenInv, Fresh
    <3>2. PICK j \in 1..Len(desk) :
            /\ Here(j) \in ToSet(known.list) /\ Here(j).id = op.id
            /\ Here(j).physicalBounds = op.region
      BY <1>1, <2>6, Captured
    <3>3. /\ Here(j).physicalBounds = RectToPhysical(desk[j].bounds, desk[j].grain)
          /\ Here(j).logicalBounds = desk[j].bounds
      BY <1>1, HereParts
    <3>4. desk[i].grain = desk[j].grain
      BY <2>6, DeskParts DEF Uniform, Displays, SessionInv
    <3>5. desk[i].bounds = desk[j].bounds
      BY <1>1, <3>1, <3>2, <3>3, <3>4, SamePixels
    <3>6. PICK m \in ToSet(known.list) : m = Here(j)
      BY <3>2
    <3>7. Native(m)' = d.bounds /\ m.physicalBounds.size = toPhysical(d.bounds.size, d.grain)
      BY <2>3, <2>5, <3>1, <3>2, <3>3, <3>5, <3>6
    <3> QED BY <2>2, <3>2, <3>6, <3>7
  <2>7. KnownIdCaptures'
    BY <1>1, <2>2, <2>3, <2>6, StillHere DEF KnownIdCaptures
  <2>8. CaptureExact'
    BY <1>1, <2>2, <2>3, <2>4, <2>5 DEF CaptureExact, Image
  <2>9. PrimaryAgrees'
    BY <1>1 DEF PrimaryAgrees
  <2> QED BY <2>1, <2>7, <2>8, <2>9 DEF ScreenAnswers
<1> QED BY <1>2, <1>3 DEF ShootDisplay

(* Any other region comes back at its own size from a desk of one density, *)
(* though it went there by way of points.                                  *)
LEMMA ShootRegionKeeps ==
  ASSUME SessionInv, desk \in Desks[host], ScreenInv, ShootRegion, Still
  PROVE  ScreenInv' /\ ScreenAnswers'
<1> DEFINE points == PointRect(op.region)
           touched == {d \in Displays : Touches(points, d.bounds)}
           image == Image(points, toPhysical(points.size, Min({d.grain : d \in touched})))
<1>1. /\ pc = "shoot" /\ target = 0 /\ op' = op /\ known' = known /\ backend = "macos"
      /\ op.name \in {"captureMonitor", "capture", "pixel"}
      /\ \/ touched # {} /\ Return("ok", image)
         \/ NoImage
  BY DEF ShootRegion, ScreenInv, ScreenTypes
<1>2. CASE NoImage
  BY <1>1, <1>2, NoImageKeeps
<1>3. CASE touched # {} /\ Return("ok", image)
  <2>1. ScreenInv'
    BY <1>1, <1>3, ReturnKeeps
  <2>2. answer'.error = "ok" /\ answer'.value = image
    BY <1>3 DEF Return, Answer
  <2>3. /\ Uniform' = Uniform /\ desk' = desk /\ ("screen" \in steady' <=> "screen" \in steady)
    BY StillHere
  <2>4. "screen" \in steady => op.name # "captureMonitor"
    BY <1>1 DEF ScreenInv, Capturing
  <2>5. ASSUME Uniform PROVE image.size = op.region.size
    <3>1. PICK m \in Displays : m.main
      BY <1>1, DeskParts DEF SessionInv, Displays, Arranged
    <3>2. PICK g \in Nat \ {0} : \A d \in Displays : d.grain = g
      <4>1. m.grain \in Nat \ {0}
        BY <3>1, DeskParts, DisplayParts DEF SessionInv, Displays
      <4> QED BY <2>5, <3>1, <4>1 DEF Uniform
    <3>3. (CHOOSE d \in Displays : d.main).grain = g
      BY <3>1, <3>2
    <3>4. points = RectToLogical(op.region, g)
      BY <3>3 DEF PointRect
    <3>5. points.size = toLogical(op.region.size, g)
      BY <3>4 DEF RectToLogical, Rect
    <3>6. {d.grain : d \in touched} = {g}
      BY <1>3, <3>2
    <3>7. Min({d.grain : d \in touched}) = g
      BY <3>6, MinOfOne
    <3>8. op.region.size \in Vector
      BY DEF ScreenInv, ScreenTypes, CallType, Region
    <3> QED BY <3>5, <3>7, <3>8, Conversions DEF Image
  <2> HIDE DEF image
  <2>6. KnownIdCaptures'
    <3>1. known.fresh => "screen" \in steady
      BY DEF ScreenInv, Fresh
    <3> QED BY <1>1, <2>4, <3>1 DEF KnownIdCaptures
  <2>7. CaptureExact'
    BY <1>1, <2>2, <2>3, <2>5, StillHere DEF CaptureExact
  <2>8. PrimaryAgrees'
    BY <1>1 DEF PrimaryAgrees
  <2> QED BY <2>1, <2>6, <2>7, <2>8 DEF ScreenAnswers
<1> QED BY <1>1, <1>2, <1>3

-------------------------------------------------------------------------------
(* There is no list and no answer at first. *)
LEMMA InitScreen == Init => ScreenInv /\ ScreenAnswers
<1> SUFFICES ASSUME Init PROVE ScreenInv /\ ScreenAnswers
  OBVIOUS
<1>1. /\ pc = "idle" /\ op = [name |-> "monitors", id |-> 0, region |-> NoRect]
      /\ ~matching /\ handles = <<>> /\ found = <<>>
      /\ known = [list |-> <<>>, fresh |-> FALSE]
  BY DEF Init, ScreenInit
<1>2. NoRect \in Region
  BY DEF NoRect, Rect, Region, Vector
<1>3. <<>> \in Seq(Nat \ {0}) /\ <<>> \in Seq(MonitorType)
  OBVIOUS
<1>4. ScreenTypes
  BY <1>1, <1>2, <1>3 DEF ScreenTypes, CallType, CallName
<1>5. Reading /\ Capturing /\ Fresh
  BY <1>1 DEF Reading, Capturing, Fresh
<1>6. ScreenAnswers
  BY <1>1 DEF ScreenAnswers, KnownIdCaptures, CaptureExact, PrimaryAgrees
<1> QED BY <1>4, <1>5, <1>6 DEF ScreenInv

(* Every step keeps what the screen promises, whatever happens in between. *)
LEMMA NextScreen ==
  ASSUME SessionInv, desk \in Desks[host], ScreenInv, ScreenAnswers, [Next]_vars
  PROVE  ScreenInv' /\ ScreenAnswers'
<1>1. CASE CreateSession
  <2>1. backend = "none" /\ UNCHANGED screenVars /\ desk' = desk
    BY <1>1 DEF CreateSession, Create, deskVars
  <2>2. /\ pc = "idle" /\ op.name = "monitors" /\ ~known.fresh
    BY <2>1 DEF ScreenInv, ScreenTypes
  <2>3. /\ pc' = pc /\ op' = op /\ matching' = matching /\ handles' = handles
        /\ found' = found /\ target' = target /\ known' = known
    BY <2>1 DEF screenVars
  <2>4. ScreenTypes'
    BY <2>2, <2>3 DEF ScreenInv, ScreenTypes
  <2>5. Reading' /\ Capturing' /\ Fresh'
    BY <2>2, <2>3 DEF ScreenInv, ScreenTypes, Reading, Capturing, Fresh
  <2>6. ScreenAnswers'
    BY <2>2, <2>3, Unanswered
  <2> QED BY <2>4, <2>5, <2>6 DEF ScreenInv
<1>2. CASE Call
  <2>1. /\ backend # "none" /\ UNCHANGED <<host, backend, desk>>
        /\ \/ ScreenCall /\ steady' = steady \union {"screen"}
           \/ UNCHANGED screenVars /\ steady' \in {steady, steady \union {"pointer"}}
    BY <1>2 DEF Call, sessionVars
  <2>2. CASE ScreenCall /\ steady' = steady \union {"screen"}
    BY <2>1, <2>2, ScreenCallKeeps
  <2>3. CASE UNCHANGED screenVars /\ steady' \in {steady, steady \union {"pointer"}}
    <3>1. Still
      BY <2>1, <2>3 DEF Still
    <3> QED BY <2>3, <3>1, ScreenStays
  <2> QED BY <2>1, <2>2, <2>3
<1>3. CASE Step
  <2>1. Still
    BY <1>3 DEF Step, Still, sessionVars, deskVars
  <2>2. CASE UNCHANGED screenVars
    BY <2>1, <2>2, ScreenStays
  <2>3. CASE ScreenStep
    BY <2>1, <2>3, ListKeeps, ReadKeeps, NoMonitorsKeeps, MonitorsKeeps, PrimaryMonitorKeeps,
       VirtualBoundsKeeps, CaptureMonitorKeeps, GrabPixelsKeeps, GrabMacKeeps, MatchKeeps,
       ShootDisplayKeeps, ShootRegionKeeps DEF ScreenStep
  <2> QED BY <1>3, <2>2, <2>3 DEF Step
<1>4. CASE Replug
  <2>1. /\ steady' = {} /\ known' = [known EXCEPT !.fresh = FALSE] /\ backend' = backend
        /\ UNCHANGED <<pc, op, matching, handles, found, target, answer>>
    BY <1>4 DEF Replug, sessionVars
  <2>2. known' \in [list : Seq(MonitorType), fresh : BOOLEAN] /\ ~known'.fresh
    BY <2>1 DEF ScreenInv, ScreenTypes
  <2>3. ScreenTypes'
    BY <2>1, <2>2 DEF ScreenInv, ScreenTypes
  <2>4. Reading' /\ Capturing' /\ Fresh'
    BY <2>1, <2>2 DEF Reading, Capturing, Fresh
  <2>5. ScreenAnswers'
    BY <2>1, <2>2 DEF ScreenAnswers, KnownIdCaptures, CaptureExact, PrimaryAgrees
  <2> QED BY <2>3, <2>4, <2>5 DEF ScreenInv
<1>5. CASE ChangePermission \/ UNCHANGED vars
  <2>1. Still /\ UNCHANGED screenVars
    BY <1>5 DEF ChangePermission, Toggle, vars, sessionVars, deskVars, Still
  <2> QED BY <2>1, ScreenStays
<1> QED BY <1>1, <1>2, <1>3, <1>4, <1>5 DEF Next, AtRest

(* So it always holds. *)
LEMMA ScreenInvariant == Spec => [](ScreenInv /\ ScreenAnswers)
<1>1. SessionInv /\ desk \in Desks[host] /\ ScreenInv /\ ScreenAnswers /\ [Next]_vars
        => ScreenInv' /\ ScreenAnswers'
  BY NextScreen
<1>2. Spec => [](SessionInv /\ desk \in Desks[host])
  BY PointerInvariant, PTL
<1> QED BY <1>1, <1>2, InitScreen, PTL DEF Spec

(* The invariant of types. *)
THEOREM DesktopTypeCorrect == Spec => []TypeOK
<1>1. SessionInv /\ desk \in Desks[host] /\ PointerInv /\ ScreenInv => TypeOK
  <2> SUFFICES ASSUME SessionInv, desk \in Desks[host], PointerInv, ScreenInv PROVE TypeOK
    OBVIOUS
  <2>1. backend \in Backend \union {"none"}
    BY DEF SessionInv, Host, Backend
  <2>2. ASSUME NEW m \in ToSet(found)
        PROVE  m.id \in Nat /\ m.physicalBounds.size \in Vector
    <3>1. m \in MonitorType
      BY <2>2, ElementOfSeq DEF ToSet, ScreenInv, ScreenTypes
    <3> QED BY <3>1 DEF MonitorType, Region
  <2> QED BY <2>1, <2>2 DEF TypeOK, PointerInv, ScreenInv, ScreenTypes
<1> QED BY <1>1, PointerInvariant, ScreenInvariant, PTL

(* captureMonitor with an id of monitors() shows that display at its own   *)
(* size, unless it was replugged since.                                    *)
THEOREM DesktopKnownIdCaptures == Spec => []KnownIdCaptures
BY ScreenInvariant, PTL DEF ScreenAnswers

(* A capture has as many pixels as it was asked for.                       *)
THEOREM DesktopCaptureExact == Spec => []CaptureExact
BY ScreenInvariant, PTL DEF ScreenAnswers

(* primaryMonitor() is the first of monitors().                            *)
THEOREM DesktopPrimaryAgrees == Spec => []PrimaryAgrees
BY ScreenInvariant, PTL DEF ScreenAnswers
===============================================================================
