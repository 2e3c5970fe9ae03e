------------------------- MODULE ScanResampleProofs -------------------------
(***************************************************************************)
(* Proofs about ScanResample, for every circle, grid, mask and scan.       *)
(***************************************************************************)
EXTENDS ScanResample, TLAPS

\* A number's remainder, by its defining property.
LEMMA Remainder ==
    ASSUME NEW a \in Int, NEW b \in Nat \ {0}
    PROVE  a % b \in 0 .. b - 1
BY SMTT(30)

\* normAngle lands on the circle's one representative of each place.
LEMMA NormAngleType ==
    ASSUME NEW a \in Int
    PROVE  NormAngle(a) \in Angles
<1> DEFINE m == Fmod(a + HalfTurn, Turn)
<1>1. Turn \in Nat \ {0} /\ HalfTurn \in Nat /\ Turn = 2 * HalfTurn
  BY GridAssumption DEF Turn
<1>2. m \in Int /\ -Turn < m /\ m < Turn
  <2>1. CASE a + HalfTurn >= 0
    <3>1. (a + HalfTurn) % Turn \in 0 .. Turn - 1
      BY <1>1, Remainder
    <3>2. QED
      BY <1>1, <2>1, <3>1 DEF Fmod
  <2>2. CASE ~(a + HalfTurn >= 0)
    <3>1. (-(a + HalfTurn)) % Turn \in 0 .. Turn - 1
      BY <1>1, Remainder
    <3>2. QED
      BY <1>1, <2>2, <3>1 DEF Fmod
  <2>3. QED
    BY <2>1, <2>2
<1>3. NormAngle(a) = (IF m < 0 THEN m + Turn ELSE m) - HalfTurn
  BY DEF NormAngle
<1> HIDE DEF m
<1>4. QED
  BY <1>1, <1>2, <1>3 DEF Angles

\* angleToBin never leaves the grid.
LEMMA AngleToBinType ==
    ASSUME NEW th \in Int
    PROVE  AngleToBin(th) \in Bins
<1>1. (2 * (th + HalfTurn) + Step) \div (2 * Step) \in Int
  BY GridAssumption
<1>2. QED
  BY <1>1, GridAssumption, Remainder DEF AngleToBin, Bins

LEMMA BearingType ==
    ASSUME scan \in Scan, NEW i \in Int
    PROVE  Bearing(i) \in Angles
<1>1. (i - 1) * scan.angleIncrement \in Int
  BY DEF Scan
<1>2. scan.angleMin + (i - 1) * scan.angleIncrement + HalfTurn \in Int
  BY <1>1, GridAssumption DEF Scan
<1>3. QED
  BY <1>2, NormAngleType DEF Bearing

\* Every variable keeps its type.
THEOREM TypeCorrect == Spec => []TypeOK
<1> USE GridAssumption, InputAssumption
<1>1. Init => TypeOK
  <2> SUFFICES ASSUME Init PROVE TypeOK
    OBVIOUS
  <2>1. flat \in Seq(Int) /\ Len(flat) \in Nat
    BY DEF Init
  <2>2. NoRays \in Scan /\ Len(NoRays.ranges) = 0
    BY DEF NoRays, Scan
  <2>3. bins \in [Bins -> Nat \union {None}]
    BY DEF Init, EmptyBins
  <2>4. Pairs \in Nat
    BY <2>1 DEF Pairs
  <2>5. sectors \in Seq([lo : Angles, hi : Angles])
    BY DEF Init
  <2>6. maskAll \in BOOLEAN
    BY DEF Init
  <2>7. QED
    BY <2>2, <2>3, <2>4, <2>5, <2>6 DEF Init, TypeOK
<1>2. TypeOK /\ [Next]_vars => TypeOK'
  <2> SUFFICES ASSUME TypeOK, [Next]_vars PROVE TypeOK'
    OBVIOUS
  <2>a. flat \in Seq(Int) /\ Len(flat) \in Nat
    BY DEF TypeOK
  <2>1. CASE ParseSector
    <3>1. k \in Nat /\ k < Pairs /\ 2 * k + 1 \in 1 .. Len(flat) /\ 2 * k + 2 \in 1 .. Len(flat)
      BY <2>1, <2>a DEF ParseSector, TypeOK, Pairs
    <3>2. Lo(k) \in Int /\ Hi(k) \in Int
      BY <2>a, <3>1 DEF Lo, Hi
    <3>3. [lo |-> NormAngle(Lo(k)), hi |-> NormAngle(Hi(k))] \in [lo : Angles, hi : Angles]
      BY <3>2, NormAngleType
    <3>4. sectors' \in Seq([lo : Angles, hi : Angles]) /\ maskAll' \in BOOLEAN
      <4>1. CASE Wide(Lo(k), Hi(k))
        BY <2>1, <4>1 DEF ParseSector, TypeOK
      <4>2. CASE ~Wide(Lo(k), Hi(k))
        <5>1. sectors' \in Seq([lo : Angles, hi : Angles])
          <6> DEFINE Sector == [lo : Angles, hi : Angles]
                     new == [lo |-> NormAngle(Lo(k)), hi |-> NormAngle(Hi(k))]
          <6>1. sectors' = Append(sectors, new)
            BY <2>1, <4>2 DEF ParseSector
          <6>2. sectors \in Seq(Sector) /\ new \in Sector
            BY <3>3 DEF TypeOK
          <6> HIDE DEF Sector, new
          <6>3. sectors' \in Seq(Sector)
            BY <6>1, <6>2
          <6>4. QED
            BY <6>3 DEF Sector
        <5>2. maskAll' = maskAll
          BY <2>1, <4>2 DEF ParseSector
        <5>3. maskAll \in BOOLEAN
          BY DEF TypeOK
        <5>4. QED
          BY <5>1, <5>2, <5>3
      <4>3. QED
        BY <4>1, <4>2
    <3>5. k' \in 0..Pairs /\ Pairs' = Pairs
      BY <2>1, <2>a, <3>1 DEF ParseSector, Pairs
    <3>6. QED
      BY <2>1, <3>4, <3>5 DEF ParseSector, TypeOK
  <2>2. CASE StartScan
    <3>1. scan' \in Scan /\ Len(scan'.ranges) \in Nat
      BY <2>2 DEF StartScan, Scan
    <3>2. bins' \in [Bins -> Nat \union {None}]
      BY <2>2 DEF StartScan, EmptyBins
    <3>3. QED
      BY <2>2, <3>1, <3>2 DEF StartScan, TypeOK, Pairs
  <2>3. CASE Ray
    <3>1. /\ j \in 1 .. Len(scan.ranges) /\ Len(scan.ranges) \in Nat
          /\ scan.ranges[j] \in Nat \union {NotFinite}
      BY <2>3 DEF Ray, TypeOK, Scan
    <3>2. bins' \in [Bins -> Nat \union {None}]
      <4>1. CASE Kept(j)
        <5>1. scan.ranges[j] \in Nat
          BY <3>1, <4>1 DEF Kept, Returned
        <5>2. AngleToBin(Bearing(j)) \in Bins
          BY <3>1, BearingType, AngleToBinType DEF TypeOK, Angles
        <5>3. Nearer(bins[AngleToBin(Bearing(j))], scan.ranges[j]) \in Nat \union {None}
          BY <5>1, <5>2 DEF Nearer, TypeOK
        <5>4. QED
          BY <2>3, <4>1, <5>2, <5>3 DEF Ray, TypeOK
      <4>2. CASE ~Kept(j)
        BY <2>3, <4>2 DEF Ray, TypeOK
      <4>3. QED
        BY <4>1, <4>2
    <3>3. QED
      BY <2>3, <3>1, <3>2 DEF Ray, TypeOK, Pairs
  <2>4. CASE UNCHANGED vars
    BY <2>4 DEF vars, TypeOK, Pairs
  <2>5. QED
    BY <2>1, <2>2, <2>3, <2>4 DEF Next
<1>3. QED
  BY <1>1, <1>2, PTL DEF Spec

-----------------------------------------------------------------------------
\* No ray is handled before the mask is complete.
ParsedFirst == k < Pairs => j = 1 /\ bins = EmptyBins /\ scan.ranges = <<>>

\* What is kept of a ray depends on the scan and the mask alone.
LEMMA KeptUnchanged ==
    ASSUME UNCHANGED <<scan, sectors, maskAll>>
    PROVE  \A i : /\ Kept(i)' <=> Kept(i)
                  /\ Bearing(i)' = Bearing(i)
BY DEF Kept, Returned, InIgnoreSector, Bearing

\* Resampling neither loses an obstacle nor invents one.
THEOREM ResamplingExact == Spec => []BinsExact
<1> USE GridAssumption, InputAssumption
<1>1. Init => ParsedFirst /\ BinsExact
  <2> SUFFICES ASSUME Init PROVE ParsedFirst /\ BinsExact
    OBVIOUS
  <2>1. j = 1 /\ bins = EmptyBins /\ scan.ranges = <<>>
    BY DEF Init, NoRays
  <2>2. QED
    BY <2>1 DEF ParsedFirst, BinsExact, EmptyBins
<1>2. TypeOK /\ ParsedFirst /\ BinsExact /\ [Next]_vars => (ParsedFirst /\ BinsExact)'
  <2> SUFFICES ASSUME TypeOK, ParsedFirst, BinsExact, [Next]_vars
               PROVE  (ParsedFirst /\ BinsExact)'
    OBVIOUS
  <2>a. j \in Nat /\ j >= 1 /\ k \in Nat /\ Len(flat) \in Nat /\ Pairs \in Nat
    BY DEF TypeOK, Scan, Pairs
  <2>1. CASE ParseSector
    <3>1. j = 1 /\ bins = EmptyBins /\ scan.ranges = <<>>
      BY <2>1 DEF ParseSector, ParsedFirst
    <3>2. j' = 1 /\ bins' = EmptyBins /\ scan'.ranges = <<>>
      BY <2>1, <3>1 DEF ParseSector
    <3>3. QED
      BY <3>2 DEF ParsedFirst, BinsExact, EmptyBins
  <2>2. CASE StartScan
    <3>1. j' = 1 /\ bins' = EmptyBins /\ ~(k' < Pairs')
      BY <2>2, <2>a DEF StartScan, Pairs
    <3>2. QED
      BY <3>1 DEF ParsedFirst, BinsExact, EmptyBins
  <2>3. CASE Ray
    <3>1. /\ j \in 1 .. Len(scan.ranges) /\ Len(scan.ranges) \in Nat
          /\ scan \in Scan /\ \A i \in 1 .. Len(scan.ranges) : scan.ranges[i] \in Int
      BY <2>3, <2>a DEF Ray, TypeOK, Scan, NotFinite
    <3>2. ParsedFirst'
      <4>1. ~(k < Pairs)
        BY <3>1 DEF ParsedFirst
      <4>2. QED
        BY <2>3, <4>1 DEF Ray, ParsedFirst, Pairs
    <3>3. /\ UNCHANGED <<scan, sectors, maskAll>>
          /\ j' = j + 1
      BY <2>3 DEF Ray
    <3> DEFINE bin(i) == AngleToBin(Bearing(i))
    <3>4. \A i : (Kept(i)' <=> Kept(i)) /\ AngleToBin(Bearing(i))' = bin(i)
      BY <3>3, KeptUnchanged DEF AngleToBin
    <3>5. \A i \in 1 .. Len(scan.ranges) : bin(i) \in Bins
      BY <3>1, BearingType, AngleToBinType DEF Angles
    <3>6. bins \in [Bins -> Nat \union {None}]
      BY DEF TypeOK
    <3>7. \A i \in 1 .. j - 1 : Kept(i) => bins[bin(i)] # None /\ bins[bin(i)] <= scan.ranges[i]
      BY DEF BinsExact
    <3>8. \A b \in Bins : bins[b] # None =>
             \E i \in 1 .. j - 1 : Kept(i) /\ bins[b] = scan.ranges[i] /\ bin(i) = b
      BY DEF BinsExact
    <3> HIDE DEF bin
    <3>9. CASE Kept(j)
      <4>1. bins' = [bins EXCEPT ![bin(j)] = Nearer(bins[bin(j)], scan.ranges[j])]
        BY <2>3, <3>9 DEF Ray, bin
      <4>2. scan.ranges[j] \in Nat /\ scan.ranges[j] # None
        BY <3>1, <3>9 DEF Kept, Returned, TypeOK, Scan, None, NotFinite
      <4>3. /\ bins'[bin(j)] # None /\ bins'[bin(j)] <= scan.ranges[j]
            /\ bins[bin(j)] # None => bins'[bin(j)] <= bins[bin(j)]
            /\ bins'[bin(j)] \in {bins[bin(j)], scan.ranges[j]}
            /\ bins[bin(j)] = None => bins'[bin(j)] = scan.ranges[j]
        BY <3>1, <3>5, <3>6, <4>1, <4>2 DEF Nearer, None
      <4>4. \A b \in Bins : b # bin(j) => bins'[b] = bins[b]
        BY <3>6, <4>1
      <4>5. ASSUME NEW i \in 1 .. j, Kept(i)
            PROVE  bins'[bin(i)] # None /\ bins'[bin(i)] <= scan.ranges[i]
        <5>1. CASE i = j
          BY <4>3, <5>1
        <5>2. CASE i # j
          <6>1. i \in 1 .. j - 1 /\ i \in 1 .. Len(scan.ranges) /\ bin(i) \in Bins
            BY <3>1, <3>5, <5>2
          <6>2. bins[bin(i)] # None /\ bins[bin(i)] <= scan.ranges[i] /\ scan.ranges[i] \in Int
            BY <3>1, <3>7, <4>5, <6>1
          <6>3. CASE bin(i) = bin(j)
            <7>1. bins[bin(j)] \in Nat /\ bins'[bin(j)] \in Nat
              BY <3>6, <4>2, <4>3, <6>1, <6>2, <6>3
            <7>2. QED
              BY <4>3, <6>2, <6>3, <7>1
          <6>4. CASE bin(i) # bin(j)
            BY <4>4, <6>1, <6>2, <6>4
          <6>5. QED
            BY <6>3, <6>4
        <5>3. QED
          BY <5>1, <5>2
      <4>6. ASSUME NEW b \in Bins, bins'[b] # None
            PROVE  \E i \in 1 .. j : Kept(i) /\ bins'[b] = scan.ranges[i] /\ bin(i) = b
        <5>1. CASE b = bin(j) /\ bins'[b] = scan.ranges[j]
          BY <3>1, <3>9, <5>1
        <5>2. CASE ~(b = bin(j) /\ bins'[b] = scan.ranges[j])
          <6>1. bins'[b] = bins[b] /\ bins[b] # None
            BY <4>3, <4>4, <4>6, <5>2
          <6>2. \E i \in 1 .. j - 1 : Kept(i) /\ bins[b] = scan.ranges[i] /\ bin(i) = b
            BY <3>8, <6>1
          <6>3. QED
            BY <2>a, <6>1, <6>2
        <5>3. QED
          BY <5>1, <5>2
      <4>7. BinsExact'
        BY <2>a, <3>3, <3>4, <4>5, <4>6 DEF BinsExact
      <4>8. QED
        BY <3>2, <4>7
    <3>10. CASE ~Kept(j)
      <4>1. bins' = bins
        BY <2>3, <3>10 DEF Ray
      <4>2. \A i \in 1 .. j : Kept(i) => bins'[bin(i)] # None /\ bins'[bin(i)] <= scan.ranges[i]
        BY <2>a, <3>7, <3>10, <4>1
      <4>3. \A b \in Bins : bins'[b] # None =>
               \E i \in 1 .. j : Kept(i) /\ bins'[b] = scan.ranges[i] /\ bin(i) = b
        BY <2>a, <3>8, <4>1
      <4>4. BinsExact'
        BY <2>a, <3>3, <3>4, <4>2, <4>3 DEF BinsExact
      <4>5. QED
        BY <3>2, <4>4
    <3>11. QED
      BY <3>9, <3>10
  <2>4. CASE UNCHANGED vars
    <3>1. \A i : (Kept(i)' <=> Kept(i)) /\ Bearing(i)' = Bearing(i)
      BY <2>4, KeptUnchanged DEF vars
    <3>2. QED
      BY <2>4, <3>1 DEF vars, ParsedFirst, Pairs, BinsExact, AngleToBin
  <2>5. QED
    BY <2>1, <2>2, <2>3, <2>4 DEF Next
<1>3. QED
  BY <1>1, <1>2, TypeCorrect, PTL DEF Spec

-----------------------------------------------------------------------------
\* A number is the divisor times the quotient and the remainder.
LEMMA Division ==
    ASSUME NEW a \in Int, NEW b \in Int, b > 0
    PROVE  a \div b \in Int /\ a = b * (a \div b) + (a % b) /\ a % b \in 0 .. b - 1
<1>1. a \div b \in Int /\ a % b \in 0 .. b - 1
  BY SMTT(30)
<1>2. a = b * (a \div b) + (a % b)
  BY SMTT(30)
<1> QED
  BY <1>1, <1>2

\* The only multiple of b between -b and b is 0.
LEMMA Small ==
    ASSUME NEW b \in Int, b > 0, NEW t \in Int, b * t < b, b * t > -b
    PROVE  t = 0
<1>1. t >= 1 => b * t >= b
  BY SMTT(30)
<1>2. t <= -1 => b * t <= -b
  BY SMTT(30)
<1> QED
  BY <1>1, <1>2

\* Quotient and remainder are the only such pair.
LEMMA Unique ==
    ASSUME NEW b \in Int, b > 0, NEW q \in Int, NEW r \in 0 .. b - 1
    PROVE  (b * q + r) % b = r /\ (b * q + r) \div b = q
<1> DEFINE a == b * q + r
           d == a \div b
<1>1. a \in Int
  OBVIOUS
<1>2. d \in Int /\ a = b * d + (a % b) /\ a % b \in 0 .. b - 1
  BY <1>1, Division
<1>3. b * (q - d) = b * q - b * d /\ b * q \in Int /\ b * d \in Int
  BY <1>2
<1> HIDE DEF d
<1>4. b * (q - d) = (a % b) - r
  BY <1>2, <1>3
<1>5. q - d = 0
  BY <1>2, <1>4, Small
<1> QED
  BY <1>2, <1>4, <1>5 DEF d

LEMMA Multiple ==
    ASSUME NEW b \in Int, b > 0, NEW q \in Int
    PROVE  (b * q) % b = 0
<1>1. b * q + 0 = b * q
  OBVIOUS
<1> QED
  BY <1>1, Unique

\* angleToBin is the nearest bin: what rounds up past the last is the first.
LEMMA NearestBin ==
    ASSUME NEW th \in Angles
    PROVE  NearCentre(th, AngleToBin(th))
<1> DEFINE a == 2 * (th + HalfTurn) + Step
           q == a \div (2 * Step)
           d == 2 * (th + HalfTurn) - 2 * (q * Step)
<1>0. HalfTurn \in Int /\ HalfTurn > 0 /\ Step \in Int /\ Step > 0 /\ NumBins \in Int /\ NumBins > 0
      /\ NumBins * Step = 2 * HalfTurn /\ th \in Int /\ -HalfTurn <= th /\ th < HalfTurn
  BY GridAssumption DEF Angles, Turn
<1>1. a \in Int /\ 2 * Step \in Int /\ 2 * Step > 0
  BY <1>0
<1>2. q \in Int /\ a = (2 * Step) * q + (a % (2 * Step)) /\ a % (2 * Step) \in 0 .. 2 * Step - 1
  BY <1>1, Division
<1>3. (2 * Step) * q = 2 * (q * Step) /\ q * Step \in Int
  BY <1>0, <1>2
<1>4. d \in -Step .. Step
  BY <1>0, <1>2, <1>3
<1>5. q \in 0 .. NumBins
  <2>1. 2 * (q * Step) <= 2 * (th + HalfTurn) + Step /\ 2 * (q * Step) > 2 * (th + HalfTurn) - Step
    BY <1>0, <1>2, <1>3
  <2>2. q >= 0
    <3> SUFFICES ASSUME q <= -1 PROVE FALSE
      BY <1>2
    <3>1. q * Step <= -Step
      BY <1>0, <1>2, SMTT(30)
    <3> QED
      BY <1>0, <1>3, <2>1, <3>1
  <2>3. q <= NumBins
    <3> SUFFICES ASSUME q >= NumBins + 1 PROVE FALSE
      BY <1>0, <1>2
    <3>1. q * Step >= (NumBins + 1) * Step
      BY <1>0, <1>2, SMTT(30)
    <3>2. (NumBins + 1) * Step = 2 * HalfTurn + Step
      BY <1>0
    <3> QED
      BY <1>0, <1>3, <2>1, <3>1, <3>2
  <2> QED
    BY <1>0, <1>2, <2>2, <2>3
<1> SUFFICES (2 * th - 2 * Centre(AngleToBin(th)) - d) % (2 * Turn) = 0
  BY <1>4 DEF NearCentre
<1>6. AngleToBin(th) = q % NumBins
  BY DEF AngleToBin
<1>7. 2 * Turn \in Int /\ 2 * Turn > 0 /\ 2 * Turn = 2 * (NumBins * Step)
  BY <1>0 DEF Turn
<1>8. CASE q < NumBins
  <2>1. NumBins * 0 + q = q
    BY <1>0, <1>2
  <2>2. q % NumBins = q
    BY <1>0, <1>2, <1>5, <1>8, <2>1, Unique
  <2>3. 2 * th - 2 * Centre(AngleToBin(th)) - d = 0
    BY <1>0, <1>3, <1>6, <2>2 DEF Centre
  <2>4. (2 * Turn) * 0 = 0
    BY <1>7
  <2> QED
    BY <1>7, <2>3, <2>4, Multiple
<1>9. CASE q = NumBins
  <2>1. NumBins * 1 = q
    BY <1>0, <1>9
  <2>2. q % NumBins = 0
    BY <1>0, <2>1, Multiple
  <2>3. 2 * th - 2 * Centre(AngleToBin(th)) - d = 2 * (q * Step)
    BY <1>0, <1>3, <1>6, <2>2 DEF Centre
  <2>4. 2 * (q * Step) = (2 * Turn) * 1
    BY <1>7, <1>9
  <2> QED
    BY <1>7, <2>3, <2>4, Multiple
<1> QED
  BY <1>0, <1>5, <1>8, <1>9

\* normAngle turns by whole turns.
LEMMA NormAngleTurns ==
    ASSUME NEW a \in Int
    PROVE  \E p \in Int : NormAngle(a) = a + Turn * p
<1> DEFINE m == Fmod(a + HalfTurn, Turn)
<1>0. Turn \in Int /\ Turn > 0 /\ HalfTurn \in Int /\ a + HalfTurn \in Int /\ -(a + HalfTurn) \in Int
  BY GridAssumption DEF Turn
<1>1. \E q \in Int : m = a + HalfTurn + Turn * q
  <2>1. CASE a + HalfTurn >= 0
    <3> DEFINE q == (a + HalfTurn) \div Turn
    <3>1. q \in Int /\ a + HalfTurn = Turn * q + m
      BY <1>0, <2>1, Division DEF Fmod
    <3>2. -q \in Int /\ Turn * (-q) = -(Turn * q) /\ Turn * q \in Int /\ m \in Int
      BY <1>0, <2>1, <3>1, Division DEF Fmod
    <3> HIDE DEF q, m
    <3>3. m = a + HalfTurn + Turn * (-q)
      BY <1>0, <3>1, <3>2
    <3> QED
      BY <3>2, <3>3
  <2>2. CASE ~(a + HalfTurn >= 0)
    <3> DEFINE q == (-(a + HalfTurn)) \div Turn
               r == (-(a + HalfTurn)) % Turn
    <3>1. q \in Int /\ -(a + HalfTurn) = Turn * q + r /\ r \in Int /\ Turn * q \in Int
      BY <1>0, Division
    <3>2. m = -r
      BY <2>2 DEF Fmod
    <3> HIDE DEF q, m, r
    <3>3. m = a + HalfTurn + Turn * q
      BY <1>0, <3>1, <3>2
    <3> QED
      BY <3>1, <3>3
  <2> QED
    BY <2>1, <2>2
<1>2. PICK q \in Int : m = a + HalfTurn + Turn * q
  BY <1>1
<1>3. NormAngle(a) = (IF m < 0 THEN m + Turn ELSE m) - HalfTurn
  BY DEF NormAngle
<1>4. q + 1 \in Int /\ Turn * (q + 1) = Turn * q + Turn /\ Turn * q \in Int
  BY <1>0, <1>2
<1> HIDE DEF m
<1>5. NormAngle(a) = a + Turn * q \/ NormAngle(a) = a + Turn * (q + 1)
  BY <1>0, <1>2, <1>3, <1>4
<1> QED
  BY <1>2, <1>4, <1>5

\* Normalised ends span the arc from one to the other that the raw ends span.
LEMMA SectorSpansArc ==
    ASSUME NEW lo \in Int, NEW hi \in Int, ~Wide(lo, hi), NEW th \in Angles
    PROVE  InSector([lo |-> NormAngle(lo), hi |-> NormAngle(hi)], th) <=> OnArc(th, lo, hi)
<1> DEFINE l == NormAngle(lo)
           h == NormAngle(hi)
           length == ArcLength(lo, hi)
<1>0. Turn \in Int /\ Turn > 0 /\ HalfTurn \in Int /\ HalfTurn > 0 /\ Turn = 2 * HalfTurn
  BY GridAssumption DEF Turn
<1>1. /\ l \in Int /\ -HalfTurn <= l /\ l < HalfTurn
      /\ h \in Int /\ -HalfTurn <= h /\ h < HalfTurn
      /\ th \in Int /\ -HalfTurn <= th /\ th < HalfTurn
  BY <1>0, NormAngleType DEF Angles
<1>2. PICK p \in Int : l = lo + Turn * p
  BY NormAngleTurns
<1>3. PICK q \in Int : h = hi + Turn * q
  BY NormAngleTurns
<1>4. length \in Int /\ 0 <= length /\ length < Turn /\ (length = hi - lo \/ length = hi - lo + Turn)
  BY <1>0 DEF ArcLength, Wide
<1>5. InSector([lo |-> l, hi |-> h], th) <=> IF l <= h THEN th >= l /\ th <= h ELSE th >= l \/ th <= h
  BY DEF InSector
<1> HIDE DEF l, h, length
<1>6. length = IF l <= h THEN h - l ELSE h - l + Turn
  <2> DEFINE e == IF l <= h THEN h - l ELSE h - l + Turn
  <2>1. e \in Int /\ 0 <= e /\ e < Turn
    BY <1>0, <1>1
  <2>2. Turn * (q - p) = Turn * q - Turn * p /\ Turn * q \in Int /\ Turn * p \in Int
    BY <1>0
  <2>3. Turn * (q - p + 1) = Turn * (q - p) + Turn /\ Turn * (q - p - 1) = Turn * (q - p) - Turn
    BY <1>0
  <2>4. \E t \in {q - p, q - p + 1, q - p - 1} : e - length = Turn * t
    BY <1>0, <1>1, <1>2, <1>3, <1>4, <2>2, <2>3
  <2>5. PICK t \in {q - p, q - p + 1, q - p - 1} : e - length = Turn * t
    BY <2>4
  <2> HIDE DEF e
  <2>6. t = 0
    BY <1>0, <1>4, <2>1, <2>5, Small
  <2>7. e = length
    BY <1>0, <1>4, <2>1, <2>5, <2>6
  <2> QED
    BY <2>7 DEF e
<1>7. ASSUME IF l <= h THEN th >= l /\ th <= h ELSE th >= l \/ th <= h
      PROVE OnArc(th, lo, hi)
  <2>1. \E d \in 0 .. length : \E t \in Int : th - (lo + d) = Turn * t
    <3>1. CASE th >= l
      <4>1. th - l \in 0 .. length
        BY <1>0, <1>1, <1>4, <1>6, <1>7, <3>1
      <4>2. th - (lo + (th - l)) = Turn * p
        BY <1>0, <1>1, <1>2
      <4> QED
        BY <4>1, <4>2
    <3>2. CASE ~(th >= l)
      <4>1. th - l + Turn \in 0 .. length
        BY <1>0, <1>1, <1>4, <1>6, <1>7, <3>2
      <4>2. Turn * (p - 1) = Turn * p - Turn
        BY <1>0
      <4>3. th - (lo + (th - l + Turn)) = Turn * (p - 1)
        BY <1>0, <1>1, <1>2, <4>2
      <4> QED
        BY <4>1, <4>3
    <3> QED
      BY <3>1, <3>2
  <2>2. PICK d \in 0 .. length, t \in Int : th - (lo + d) = Turn * t
    BY <2>1
  <2>3. SamePlace(th, lo + d)
    BY <1>0, <2>2, Multiple DEF SamePlace
  <2> QED
    BY <2>3 DEF OnArc, length
<1>8. ASSUME OnArc(th, lo, hi)
      PROVE IF l <= h THEN th >= l /\ th <= h ELSE th >= l \/ th <= h
  <2>1. PICK d \in 0 .. length : SamePlace(th, lo + d)
    BY <1>8 DEF OnArc, length
  <2> DEFINE s == (th - (lo + d)) \div Turn
             t == s - p
  <2>2. d \in Int /\ 0 <= d /\ d <= length
    BY <1>4, <2>1
  <2>3. s \in Int /\ th - (lo + d) = Turn * s
    <3>1. th - (lo + d) \in Int /\ (th - (lo + d)) % Turn = 0
      BY <1>1, <2>1, <2>2 DEF SamePlace
    <3>2. Turn * s \in Int /\ s \in Int /\ th - (lo + d) = Turn * s + ((th - (lo + d)) % Turn)
      BY <1>0, <3>1, Division
    <3> QED
      BY <3>1, <3>2
  <2> HIDE DEF s
  <2>4. t \in Int /\ Turn * t = Turn * s - Turn * p /\ Turn * s \in Int /\ Turn * p \in Int
    BY <1>0, <2>3
  <2> HIDE DEF t
  <2>5. th = l + d + Turn * t
    BY <1>0, <1>1, <1>2, <2>2, <2>3, <2>4
  <2>6. Turn * t < Turn /\ Turn * t > -2 * Turn
    BY <1>0, <1>1, <1>4, <2>2, <2>4, <2>5
  <2>7. t = 0 \/ t = -1
    <3>1. t >= 1 => Turn * t >= Turn
      BY <1>0, <2>4, SMTT(30)
    <3>2. t <= -2 => Turn * t <= -2 * Turn
      BY <1>0, <2>4, SMTT(30)
    <3> QED
      BY <1>0, <2>4, <2>6, <3>1, <3>2
  <2>8. CASE t = 0
    BY <1>0, <1>1, <1>4, <1>6, <2>2, <2>5, <2>8
  <2>9. CASE t = -1
    <3>1. Turn * t = -Turn
      BY <1>0, <2>9
    <3> QED
      BY <1>0, <1>1, <1>4, <1>6, <2>2, <2>5, <3>1
  <2> QED
    BY <2>7, <2>8, <2>9
<1> QED
  BY <1>5, <1>7, <1>8 DEF l, h

\* Every ray goes to its nearest bin, the last half bin of the circle to the first
\* (angleToBin), whatever the grid and the scan's angles.
THEOREM RaysNearBins == Spec => []BinNearest
<1>1. TypeOK => BinNearest
  <2> SUFFICES ASSUME TypeOK, NEW i \in 1 .. Len(scan.ranges)
               PROVE NearCentre(Bearing(i), AngleToBin(Bearing(i)))
    BY DEF BinNearest
  <2>1. Bearing(i) \in Angles
    BY BearingType DEF TypeOK
  <2> QED
    BY <2>1, NearestBin
<1> QED
  BY <1>1, TypeCorrect, PTL

\* One more pair is parsed into what it spans.
LEMMA PairParsed ==
    ASSUME TypeOK, ParseSector, NEW th \in Angles
    PROVE  InIgnoreSector(th)' <=> InIgnoreSector(th) \/ MaskedBy(k, th)
<1>1. k \in Nat /\ 2 * k + 1 \in 1 .. Len(flat) /\ 2 * k + 2 \in 1 .. Len(flat) /\ flat \in Seq(Int)
  <2>1. flat \in Seq(Int) /\ Len(flat) \in Nat
    BY InputAssumption DEF TypeOK
  <2> QED
    BY <2>1 DEF ParseSector, TypeOK, Pairs
<1>2. Lo(k) \in Int /\ Hi(k) \in Int
  BY <1>1 DEF Lo, Hi
<1>3. CASE Wide(Lo(k), Hi(k))
  BY <1>3 DEF ParseSector, InIgnoreSector, MaskedBy
<1>4. CASE ~Wide(Lo(k), Hi(k))
  <2> DEFINE new == [lo |-> NormAngle(Lo(k)), hi |-> NormAngle(Hi(k))]
             n == Len(sectors)
  <2>1. sectors' = Append(sectors, new) /\ maskAll' = maskAll
    BY <1>4 DEF ParseSector
  <2>2. InSector(new, th) <=> MaskedBy(k, th)
    BY <1>2, <1>4, SectorSpansArc DEF MaskedBy
  <2>3. sectors \in Seq([lo : Angles, hi : Angles])
    BY DEF TypeOK
  <2> HIDE DEF new
  <2>4. /\ n \in Nat /\ DOMAIN sectors = 1 .. n /\ DOMAIN sectors' = 1 .. n + 1
        /\ sectors'[n + 1] = new /\ \A i \in 1 .. n : sectors'[i] = sectors[i]
    BY <2>1, <2>3
  <2> HIDE DEF n
  <2>5. (\E i \in DOMAIN sectors' : InSector(sectors'[i], th))
          <=> (\E i \in DOMAIN sectors : InSector(sectors[i], th)) \/ InSector(new, th)
    BY <2>4
  <2> QED
    BY <2>1, <2>2, <2>5 DEF InIgnoreSector, InSector
<1> QED
  BY <1>3, <1>4

\* The parsed mask hides exactly what the parameter's pairs span, however they
\* are written (parseIgnoreSectors and inIgnoreSector), for every list of angles.
THEOREM MaskIsExact == Spec => []MaskExact
<1>1. Init => MaskExact
  BY DEF Init, MaskExact, InIgnoreSector
<1>2. TypeOK /\ MaskExact /\ [Next]_vars => MaskExact'
  <2> SUFFICES ASSUME TypeOK, MaskExact, [Next]_vars, NEW th \in Angles
               PROVE InIgnoreSector(th)' <=> \E n \in 0 .. k' - 1 : MaskedBy(n, th)'
    BY DEF MaskExact
  <2>1. \A n : MaskedBy(n, th)' <=> MaskedBy(n, th)
    BY DEF Next, vars, ParseSector, StartScan, Ray, MaskedBy, Lo, Hi
  <2>2. InIgnoreSector(th) <=> \E n \in 0 .. k - 1 : MaskedBy(n, th)
    BY DEF MaskExact
  <2>3. CASE ParseSector
    <3>1. k \in Nat /\ k' = k + 1
      BY <2>3 DEF ParseSector, TypeOK
    <3> QED
      BY <2>1, <2>2, <2>3, <3>1, PairParsed
  <2>4. CASE StartScan \/ Ray \/ UNCHANGED vars
    <3>1. UNCHANGED <<k, sectors, maskAll>>
      BY <2>4 DEF StartScan, Ray, vars
    <3>2. InIgnoreSector(th)' <=> InIgnoreSector(th)
      BY <3>1 DEF InIgnoreSector
    <3> QED
      BY <2>1, <2>2, <3>1, <3>2
  <2> QED
    BY <2>3, <2>4 DEF Next
<1> QED
  BY <1>1, <1>2, TypeCorrect, PTL DEF Spec
=============================================================================
