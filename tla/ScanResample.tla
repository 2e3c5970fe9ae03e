---------------------------- MODULE ScanResample ----------------------------
(***************************************************************************)
(* How scan_fuser puts a LiDAR scan on its angular grid: the sectors of    *)
(* lidar_ignore_sectors_deg are parsed once, and each scan's rays are then *)
(* turned into the robot's frame, masked by the sectors, and merged into   *)
(* bins, the nearest return of each.  Both loops are machines here, one    *)
(* step per sector and per ray.                                            *)
(*                                                                         *)
(* Angles are integers, in units fine enough that half a turn and a bin    *)
(* are whole numbers of them: the code's doubles without their rounding.   *)
(***************************************************************************)
EXTENDS Integers, Sequences

CONSTANTS
    HalfTurn,      \* kPi
    NumBins,       \* num_bins
    Step,          \* angle_increment_
    SectorLists,   \* values of lidar_ignore_sectors_deg: flat lists of angles
    Scans          \* LiDAR scans

Turn == 2 * HalfTurn
Angles == -HalfTurn .. HalfTurn - 1
Bins == 0 .. NumBins - 1
NotFinite == -1    \* an infinite or undefined range
Scan == [angleMin : Int, angleIncrement : Int, rangeMin : Nat, rangeMax : Nat,
         ranges : Seq(Nat \union {NotFinite})]

ASSUME GridAssumption ==
    /\ HalfTurn \in Nat \ {0} /\ NumBins \in Nat \ {0} /\ Step \in Nat \ {0}
    /\ NumBins * Step = Turn

ASSUME InputAssumption ==
    /\ SectorLists \subseteq Seq(Int)
    /\ Scans \subseteq Scan

VARIABLES
    flat,      \* ignore_sectors_deg_
    k,         \* parseIgnoreSectors: the next pair
    sectors,   \* ignore_sectors_rad_
    maskAll,   \* mask_all_
    scan,      \* scanToBins: the scan,
    j,         \*             the next ray,
    bins       \*             and the bins so far (None: infinite)

vars == <<flat, k, sectors, maskAll, scan, j, bins>>
None == -1

-----------------------------------------------------------------------------
\* C's fmod: the remainder has the sign of the dividend.
Fmod(a, b) == IF a >= 0 THEN a % b ELSE -((-a) % b)

\* normAngle: into -HalfTurn .. HalfTurn - 1.
MutantNoFold(a) == Fmod(a + HalfTurn, Turn) - HalfTurn
NormAngle(a) ==
    LET m == Fmod(a + HalfTurn, Turn)
    IN  (IF m < 0 THEN m + Turn ELSE m) - HalfTurn

\* One pair of parseIgnoreSectors.  An odd list loses its last value.
Pairs == Len(flat) \div 2
Lo(n) == flat[2 * n + 1]
Hi(n) == flat[2 * n + 2]
Wide(lo, hi) == hi - lo >= Turn \/ lo - hi >= Turn

\* inIgnoreSector, one sector.  A sector whose ends come out of order wraps.
MutantNeverWraps(s, th) == th >= s.lo /\ th <= s.hi
InSector(s, th) ==
    IF s.lo <= s.hi THEN th >= s.lo /\ th <= s.hi ELSE th >= s.lo \/ th <= s.hi
InIgnoreSector(th) == maskAll \/ \E n \in DOMAIN sectors : InSector(sectors[n], th)

\* angleToBin: the nearest bin, the one past the last being the first again.
MutantTruncates(th) == ((th + HalfTurn) \div Step) % NumBins
AngleToBin(th) == ((2 * (th + HalfTurn) + Step) \div (2 * Step)) % NumBins

\* scanToBins, one ray.
Bearing(i) == NormAngle(scan.angleMin + (i - 1) * scan.angleIncrement + HalfTurn)
Returned(i) ==
    /\ scan.ranges[i] \notin {NotFinite, 0}
    /\ scan.rangeMin <= scan.ranges[i] /\ scan.ranges[i] <= scan.rangeMax
Kept(i) == Returned(i) /\ ~InIgnoreSector(Bearing(i))
MutantLast(old, r) == r
Nearer(old, r) == IF old = None \/ r < old THEN r ELSE old

-----------------------------------------------------------------------------
EmptyBins == [b \in Bins |-> None]
NoRays == [angleMin |-> 0, angleIncrement |-> 0, rangeMin |-> 0, rangeMax |-> 0, ranges |-> <<>>]

Init ==
    /\ flat \in SectorLists
    /\ k = 0 /\ sectors = <<>> /\ maskAll = FALSE
    /\ scan = NoRays /\ j = 1 /\ bins = EmptyBins

ParseSector ==
    /\ k < Pairs
    /\ k' = k + 1
    /\ IF Wide(Lo(k), Hi(k))
       THEN maskAll' = TRUE /\ UNCHANGED sectors
       ELSE /\ sectors' = Append(sectors, [lo |-> NormAngle(Lo(k)), hi |-> NormAngle(Hi(k))])
            /\ UNCHANGED maskAll
    /\ UNCHANGED <<flat, scan, j, bins>>

\* The timer resamples another scan.
StartScan ==
    /\ k = Pairs /\ j > Len(scan.ranges)
    /\ scan' \in Scans
    /\ j' = 1 /\ bins' = EmptyBins
    /\ UNCHANGED <<flat, k, sectors, maskAll>>

Ray ==
    /\ j <= Len(scan.ranges)
    /\ j' = j + 1
    /\ bins' = IF Kept(j)
               THEN [bins EXCEPT ![AngleToBin(Bearing(j))] = Nearer(@, scan.ranges[j])]
               ELSE bins
    /\ UNCHANGED <<flat, k, sectors, maskAll, scan>>

Next == ParseSector \/ StartScan \/ Ray

Spec == Init /\ [][Next]_vars

-----------------------------------------------------------------------------
(***************************************************************************)
(* Properties, stated with the circle alone: two angles are the same place *)
(* when they differ by whole turns.                                        *)
(***************************************************************************)
SamePlace(a, b) == (a - b) % Turn = 0

\* An angle is on the arc from lo counterclockwise to hi when lo, turned on by
\* some part of the arc's length, comes to it.
ArcLength(lo, hi) == IF lo <= hi THEN hi - lo ELSE hi - lo + Turn
OnArc(th, lo, hi) == \E d \in 0 .. ArcLength(lo, hi) : SamePlace(th, lo + d)

\* Every variable has the type its use gives it.
TypeOK ==
    /\ flat \in SectorLists
    /\ k \in 0..Pairs
    /\ sectors \in Seq([lo : Angles, hi : Angles]) /\ maskAll \in BOOLEAN
    /\ scan \in Scan /\ j \in 1 .. Len(scan.ranges) + 1
    /\ bins \in [Bins -> Nat \union {None}]

\* The parsed mask hides exactly what the parameter's pairs span, however they
\* are written: across the back, beyond half a turn, or more than a turn wide.
MaskedBy(n, th) == Wide(Lo(n), Hi(n)) \/ OnArc(th, Lo(n), Hi(n))
MaskExact ==
    \A th \in Angles : InIgnoreSector(th) <=> \E n \in 0 .. k - 1 : MaskedBy(n, th)

\* A ray ends in a bin whose centre is within half a bin of it, on the circle.
Centre(b) == b * Step - HalfTurn
NearCentre(th, b) == \E d \in -Step .. Step : (2 * th - 2 * Centre(b) - d) % (2 * Turn) = 0
BinNearest == \A i \in 1 .. Len(scan.ranges) : NearCentre(Bearing(i), AngleToBin(Bearing(i)))

\* No obstacle is lost and none is invented: every ray kept is at least as far
\* as its bin, and every bin holds the range of a ray kept that belongs to it.
BinsExact ==
    /\ \A i \in 1 .. j - 1 : Kept(i) =>
          LET b == AngleToBin(Bearing(i)) IN bins[b] # None /\ bins[b] <= scan.ranges[i]
    /\ \A b \in Bins : bins[b] # None =>
          \E i \in 1 .. j - 1 : /\ Kept(i) /\ bins[b] = scan.ranges[i]
                                /\ AngleToBin(Bearing(i)) = b
=============================================================================
