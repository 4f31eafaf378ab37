------------------------------ MODULE PlanGraph ------------------------------
(***************************************************************************)
(* The room graph of compliance-engine/services/spatial_graph.py: what the  *)
(* four compliance agents can ask about one floor plan.                     *)
(*                                                                         *)
(* A plan is a record.  Geometry is kept to what the queries tell apart:    *)
(*   category  the type of each room                                        *)
(*   outlined  the rooms whose polygon could be parsed (or repaired)        *)
(*   area      floor area of each room, or Missing                          *)
(*   joins     the rooms on the two sides of each door: two rooms inside    *)
(*             the building, one room if the other side is outdoors         *)
(*   width     clear width of each door, or Missing                         *)
(*   faces     the room each window gives light to                          *)
(*   outer     the windows in an exterior wall                              *)
(*   glass     glazed area of each window, Missing if a size is unknown     *)
(*   stairs, railings   whether the plan has such elements                  *)
(*   ceiling   the ceiling height, and asserted: did the operator give it   *)
(***************************************************************************)
EXTENDS Integers, FiniteSets, FiniteSetsExt

CONSTANTS Rooms, Doors, Windows, Categories, Missing

ASSUME PlanAssumption ==
    /\ IsFiniteSet(Rooms) /\ IsFiniteSet(Doors) /\ IsFiniteSet(Windows)
    /\ Missing \notin Int

Elements == Rooms \cup Doors \cup Windows
Size     == Nat \cup {Missing}

Plans == [category : [Rooms -> Categories], outlined : SUBSET Rooms,
          area : [Rooms -> Size],
          joins : [Doors -> {S \in SUBSET Rooms : Cardinality(S) <= 2}], width : [Doors -> Size],
          faces : [Windows -> Rooms], outer : SUBSET Windows,
          glass : [Windows -> Size],
          stairs : BOOLEAN, railings : BOOLEAN,
          ceiling : Nat, asserted : BOOLEAN]

(* A door is probed on both sides of its wall, but only rooms with a polygon
   can be found there. *)
RoomsOnEachSide(p, d) == p.joins[d] \cap p.outlined

InteriorDoor(p, d) == Cardinality(RoomsOnEachSide(p, d)) = 2

AreDirectlyConnected(p, a, b) ==
    a # b /\ \E d \in Doors : RoomsOnEachSide(p, d) = {a, b}

HasExteriorDoor_Outdoors(p, r) == \E d \in Doors : r \in p.outlined /\ p.joins[d] = {r}

(* One room found, none on the other side: read as a door to the outside. *)
HasExteriorDoor(p, r) == \E d \in Doors : RoomsOnEachSide(p, d) = {r}

(* b is in every set of rooms that holds a and is closed under door edges. *)
HasPath(p, a, b) ==
    \A S \in SUBSET Rooms :
        (/\ a \in S
         /\ \A x \in S, y \in Rooms : AreDirectlyConnected(p, x, y) => y \in S)
        => b \in S

CanReachExit(p, r) == \E s \in Rooms : HasExteriorDoor(p, s) /\ HasPath(p, r, s)

RoomsByCategory(p, c) == {r \in Rooms : p.category[r] = c}

(* A window goes to the nearest polygon within 500 mm; the window of a room
   that has none is a stray one. *)
AssignedWindows(p) == {w \in Windows : p.faces[w] \in p.outlined}
ExteriorWindows(p, r) == {w \in AssignedWindows(p) \cap p.outer : p.faces[w] = r}
TotalGlazing(p, r) == MapThenSumSet(LAMBDA w : p.glass[w], ExteriorWindows(p, r))

(* A missing or zero area makes the ratio unmeasurable. *)
GlazingMeasurable(p, r) == p.area[r] # Missing /\ p.area[r] > 0

(* float(None) raises: the sizes of interior doors and of assigned windows are
   converted while the graph is built. *)
GraphBuilds(p) ==
    /\ \A d \in Doors : InteriorDoor(p, d) => p.width[d] # Missing
    /\ \A w \in AssignedWindows(p) : p.glass[w] # Missing

(* The same building with every outline known: what the doors really join. *)
AsBuilt(p) == [p EXCEPT !.outlined = Rooms]
=============================================================================
