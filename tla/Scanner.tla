---------------------------------- MODULE Scanner ----------------------------------
(***************************************************************************)
(* One update of the scanner: the points of a lidar capture, sorted, are   *)
(* grouped into the lines of vegetables that stand before the robot, and   *)
(* the algorithm measures these lines. Every update starts from nothing,   *)
(* so one is enough. The points lie on a grid; a point is named by its     *)
(* place in the sorted world.                                              *)
(***************************************************************************)
EXTENDS Integers, Sequences, FiniteSets

CONSTANTS
    Grid,        \* where a ray of the lidar may hit something: pairs <<x, y>>
    Epsilon,     \* _epsilon, the reach of a point
    Near,        \* how far from the robot a line may begin
    Horizon,     \* the distance get_near_point starts from
    MaxPoints    \* bound: the number of points in a capture

ASSUME ScannerAssumption ==
    /\ Grid \subseteq Int \X Int /\ <<0, 0>> \notin Grid
    /\ Epsilon \in Nat /\ Near \in Nat /\ Horizon \in Nat /\ Near < Horizon
    /\ MaxPoints \in Nat

Unbound == -1     \* point::unbound
Null    == <<0, 0>>

VARIABLES
    phase,        \* which of agglomerate, scan_sub_lines, expand, get_near_point runs
    world,        \* _world
    cluster,      \* the cluster of each point
    at,           \* the point scan_sub_lines looks at
    id,           \* current_id
    line,         \* the points of the current cluster
    neighbors,    \* the list expand iterates over
    it,           \* its iterator
    lines,        \* sub_lines_buffer without the current cluster
    iterations,   \* _iterations_count
    near,         \* pointa, pointb, dista and distb; the distances squared
    measured      \* how many lines get_near_point has measured

scan == <<world, cluster, at, id, line, neighbors, it, lines, iterations>>
vars == <<phase, scan, near, measured>>

----------------------------------------------------------------------------
Abs(n) == IF n < 0 THEN -n ELSE n

\* operator<: by |y|, then by |x|. The two sides of the robot are not told
\* apart, so two different points may be equivalent.
Less(p, q) ==
    \/ Abs(p[2]) < Abs(q[2])
    \/ Abs(p[2]) = Abs(q[2]) /\ Abs(p[1]) < Abs(q[1])

\* euclidean_distance, squared.
Distance2(p, q) ==
    (q[1] - p[1]) * (q[1] - p[1]) + (q[2] - p[2]) * (q[2] - p[2])

\* Two points the lidar sees are on different rays: it measures the first
\* thing a ray hits.
SameRay(p, q) ==
    /\ p[1] * q[2] = p[2] * q[1]
    /\ p[1] * q[1] >= 0 /\ p[2] * q[2] >= 0

Places == 1 .. Len(world)

Close(i, j) == Distance2(world[i], world[j]) < Epsilon * Epsilon

\* The list of the members of S, a set of places, in the order of the world.
Ascending(S) ==
    [k \in 1 .. Cardinality(S) |->
        CHOOSE j \in S : Cardinality({i \in S : i <= j}) = k]

\* A mutant of NeighborsOf: the points at exactly _epsilon belong to it.
NeighborsOfClosed(i, label) ==
    {j \in Places : /\ label[j] = Unbound
                    /\ Distance2(world[i], world[j]) <= Epsilon * Epsilon}

\* neighbors_of: the unbound points within reach. A point is its own neighbor
\* while it is unbound.
NeighborsOf(i, label) == {j \in Places : label[j] = Unbound /\ Close(i, j)}

\* Mutants of Beyond: nothing is erased; the first that is greater goes too.
BeyondAll(last, new) == new

BeyondNext(last, new) ==
    {j \in new : \E k \in new : k < j /\ Less(world[last], world[k])}

\* What is left of the new neighbors when all before the first that is
\* greater than the last of the list have been erased.
Beyond(last, new) ==
    {j \in new : \E k \in new : k <= j /\ Less(world[last], world[k])}

Init ==
    /\ phase = "agglomerate" /\ world = <<>> /\ cluster = <<>>
    /\ at = 1 /\ id = 0 /\ line = <<>> /\ neighbors = <<>> /\ it = 1
    /\ lines = <<>> /\ iterations = 0
    /\ near = [a |-> Null, b |-> Null, da |-> Horizon * Horizon, db |-> Horizon * Horizon]
    /\ measured = 0

\* agglomerate: the points of the capture in their sorted order; std::sort may
\* leave equivalent points in any order.
Detect(p) ==
    /\ phase = "agglomerate" /\ Len(world) < MaxPoints
    /\ world # <<>> => ~ Less(p, world[Len(world)])
    /\ \A i \in Places : ~ SameRay(p, world[i])
    /\ world' = Append(world, p)
    /\ cluster' = Append(cluster, Unbound)
    /\ UNCHANGED <<phase, at, id, line, neighbors, it, lines, iterations, near, measured>>

Agglomerated ==
    /\ phase = "agglomerate"
    /\ phase' = "scan"
    /\ UNCHANGED <<scan, near, measured>>

----------------------------------------------------------------------------
(* Scanner::scan_sub_lines.                                                *)

StartsLine(i) ==
    cluster[i] = Unbound /\ Distance2(Null, world[i]) <= Near * Near

Skip ==
    /\ phase = "scan" /\ at <= Len(world) /\ ~ StartsLine(at)
    /\ at' = at + 1
    /\ UNCHANGED <<phase, world, cluster, id, line, neighbors, it, lines, iterations,
                   near, measured>>

\* The neighbors are taken before the point is bound.
Seed ==
    /\ phase = "scan" /\ at <= Len(world) /\ StartsLine(at)
    /\ neighbors' = Ascending(NeighborsOf(at, cluster)) /\ it' = 1
    /\ cluster' = [cluster EXCEPT ![at] = id]
    /\ line' = <<at>>
    /\ phase' = "expand"
    /\ UNCHANGED <<world, at, id, lines, iterations, near, measured>>

\* A mutant of CloseLine: short lines are kept.
CloseLineShort ==
    /\ phase = "expand" /\ it > Len(neighbors)
    /\ lines' = Append(lines, line)
    /\ id' = id + 1 /\ at' = at + 1
    /\ phase' = "scan" /\ line' = <<>> /\ neighbors' = <<>>
    /\ UNCHANGED <<world, cluster, it, iterations, near, measured>>

\* expand returns; less than three points are not a line.
CloseLine ==
    /\ phase = "expand" /\ it > Len(neighbors)
    /\ lines' = IF Len(line) < 3 THEN lines ELSE Append(lines, line)
    /\ id' = id + 1 /\ at' = at + 1
    /\ phase' = "scan" /\ line' = <<>> /\ neighbors' = <<>>
    /\ UNCHANGED <<world, cluster, it, iterations, near, measured>>

Finish ==
    /\ phase = "scan" /\ at > Len(world)
    /\ phase' = "measure"
    /\ UNCHANGED <<scan, near, measured>>

----------------------------------------------------------------------------
(* Scanner::expand, one turn of its loop.                                  *)

Visit ==
    /\ phase = "expand" /\ it <= Len(neighbors)
    /\ it' = it + 1 /\ iterations' = iterations + 1
    /\ UNCHANGED <<phase, world, at, id, lines, near, measured>>

Revisit ==
    /\ Visit /\ cluster[neighbors[it]] # Unbound
    /\ UNCHANGED <<cluster, line, neighbors>>

\* A mutant of Bind: the point may already be in a cluster.
BindAgain ==
    /\ Visit
    /\ cluster' = [cluster EXCEPT ![neighbors[it]] = id]
    /\ line' = Append(line, neighbors[it])
    /\ neighbors' = neighbors \o
           Ascending(Beyond(neighbors[Len(neighbors)], NeighborsOf(neighbors[it], cluster')))

\* The new neighbors are taken after the point is bound.
Bind ==
    /\ Visit /\ cluster[neighbors[it]] = Unbound
    /\ cluster' = [cluster EXCEPT ![neighbors[it]] = id]
    /\ line' = Append(line, neighbors[it])
    /\ neighbors' = neighbors \o
           Ascending(Beyond(neighbors[Len(neighbors)], NeighborsOf(neighbors[it], cluster')))

----------------------------------------------------------------------------
(* Algorithm::get_near_point: of each line its front is measured and its   *)
(* second point kept.                                                      *)

Front(l)  == Distance2(Null, world[l[1]])
Second(l) == world[l[2]]

\* Mutants of Nearer: the nearest front so far is not remembered; a line
\* nearer than both counts for both.
NearerForgets(l) ==
    IF Front(l) < near.da THEN [near EXCEPT !.a = Second(l)]
    ELSE IF Front(l) < near.db THEN [near EXCEPT !.b = Second(l), !.db = Front(l)]
    ELSE near

NearerBoth(l) ==
    [a  |-> IF Front(l) < near.da THEN Second(l) ELSE near.a,
     da |-> IF Front(l) < near.da THEN Front(l) ELSE near.da,
     b  |-> IF Front(l) < near.db THEN Second(l) ELSE near.b,
     db |-> IF Front(l) < near.db THEN Front(l) ELSE near.db]

\* What was the nearest before is not handed on to the second.
Nearer(l) ==
    IF Front(l) < near.da THEN [near EXCEPT !.a = Second(l), !.da = Front(l)]
    ELSE IF Front(l) < near.db THEN [near EXCEPT !.b = Second(l), !.db = Front(l)]
    ELSE near

Measure ==
    /\ phase = "measure" /\ measured < Len(lines)
    /\ near' = Nearer(lines[measured + 1])
    /\ measured' = measured + 1
    /\ UNCHANGED <<phase, scan>>

Return ==
    /\ phase = "measure" /\ measured = Len(lines)
    /\ phase' = "done"
    /\ UNCHANGED <<scan, near, measured>>

Next ==
    \/ \E p \in Grid : Detect(p)
    \/ Agglomerated \/ Skip \/ Seed \/ CloseLine \/ Finish
    \/ Revisit \/ Bind
    \/ Measure \/ Return

Spec == Init /\ [][Next]_vars

----------------------------------------------------------------------------
TypeOK ==
    /\ phase \in {"agglomerate", "scan", "expand", "measure", "done"}
    /\ world \in Seq(Grid) /\ Len(world) <= MaxPoints
    /\ cluster \in [Places -> Unbound .. MaxPoints]
    /\ at \in 1 .. Len(world) + 1 /\ id \in 0 .. MaxPoints
    /\ line \in Seq(Places) /\ neighbors \in Seq(Places)
    /\ it \in 1 .. Len(neighbors) + 1 \/ phase # "expand"
    /\ lines \in Seq(Seq(Places)) /\ \A k \in DOMAIN lines : Len(lines[k]) >= 3
    /\ iterations \in 0 .. MaxPoints * MaxPoints
    /\ near \in [a : Grid \cup {Null}, da : 0 .. Horizon * Horizon,
                b : Grid \cup {Null}, db : 0 .. Horizon * Horizon]
    /\ measured \in 0 .. Len(lines)

(* The list expand appends to while it iterates over it never gets a point *)
(* twice, so the loop ends after at most as many turns as the world has    *)
(* points.                                                                 *)
NoPointListedTwice == \A i, j \in DOMAIN neighbors : neighbors[i] = neighbors[j] => i = j

\* The lines found, and the one that is being put together.
AllLines == Append(lines, line)

(* A point is in one line at most, and in it once.                         *)
LinesDisjoint ==
    \A k, m \in DOMAIN AllLines :
        \A i \in DOMAIN AllLines[k], j \in DOMAIN AllLines[m] :
            AllLines[k][i] = AllLines[m][j] => k = m /\ i = j

(* A line holds together: every point after the first is within _epsilon   *)
(* of one before it.                                                       *)
Chained(l) == \A j \in DOMAIN l : j > 1 => \E i \in 1 .. j - 1 : Close(l[i], l[j])

LinesChained == \A k \in DOMAIN AllLines : Chained(AllLines[k])

(* After its first point a line runs away from the robot, so line[1], the  *)
(* point get_near_point takes, is the first after the front.               *)
RunsAway(l) == \A j \in DOMAIN l : j > 2 => ~ Less(world[l[j]], world[l[j - 1]])

LinesRunAway == \A k \in DOMAIN AllLines : RunsAway(AllLines[k])

(* A line is not cut short: what it leaves unbound of its surroundings is  *)
(* no neighbor of its first point, and does not lie beyond all its points. *)
LinesGoOn ==
    \A k \in DOMAIN lines : \A i \in Places : cluster[i] = Unbound =>
        /\ ~ Close(lines[k][1], i)
        /\ (\E j \in DOMAIN lines[k] : Close(lines[k][j], i)) =>
               \E j \in DOMAIN lines[k] : ~ Less(world[lines[k][j]], world[i])

(* The first point get_near_point returns belongs to a line whose front is *)
(* not farther from the robot than the front of any other.                 *)
NearPointIsNearest ==
    phase = "done" /\ lines # <<>> =>
        \E k \in DOMAIN lines :
            /\ near.a = Second(lines[k])
            /\ \A m \in DOMAIN lines : Front(lines[k]) <= Front(lines[m])

(* The second point get_near_point returns, when it is not the null point, *)
(* belongs to another line than the first, with a front not nearer.        *)
SecondIsAnother ==
    phase = "done" /\ near.b # Null =>
        \E k, m \in DOMAIN lines :
            /\ k # m /\ Front(lines[k]) <= Front(lines[m])
            /\ near.a = Second(lines[k]) /\ near.b = Second(lines[m])

(* What a clustering by density promises, and Algorithm.hh calls dbscan:   *)
(* neighbors end up in the same cluster.                                   *)
NeighborsShareCluster ==
    phase = "done" =>
        \A i, j \in Places :
            cluster[i] # Unbound /\ Close(i, j) => cluster[j] = cluster[i]
====================================================================================
