------------------------------ MODULE RackLayout ------------------------------
(***************************************************************************)
(* The geometry of a rack: which U of which facing a device takes, and the *)
(* questions that the models Location, HwRack and Device ask before they   *)
(* let a row be written.  Everything here reads a layout, a function from  *)
(* devices to rows; nothing changes one.                                   *)
(*                                                                         *)
(* A device, its chassis and its location are one row: one transaction     *)
(* creates them, and one destroys them.  end_u is derived from start_u and *)
(* the height of the template, which cannot be updated.                    *)
(***************************************************************************)
EXTENDS Integers, FiniteSets

CONSTANTS
    RackIds,         \* identifiers of racks
    NodeIds,         \* identifiers of devices
    TemplateIds,     \* identifiers of device templates
    Names,           \* device names
    TemplateHeight,  \* the height of each template, in U
    TemplateDepth,   \* the depth of each template: 1 (half) or 2 (full)
    MaxHeight,       \* the height of the tallest rack (72 in the code)
    NoNode           \* layout[n] = NoNode: there is no device n

RackDepth == 2
Facings == {"f", "b"}
Us == 1..MaxHeight

Row == [rack : RackIds, template : TemplateIds, start : Us, facing : Facings, name : Names]
Position == [start : Us, facing : Facings]
Layout == [NodeIds -> Row \cup {NoNode}]

ASSUME HeightAssumption == MaxHeight \in Nat \ {0}
ASSUME TemplateAssumption ==
    /\ TemplateHeight \in [TemplateIds -> Nat \ {0}]
    /\ TemplateDepth \in [TemplateIds -> 1..2]
ASSUME NoNodeAssumption == NoNode \notin Row

Live(layout) == {n \in NodeIds : layout[n] # NoNode}
In(layout, r) == {n \in Live(layout) : layout[n].rack = r}
From(layout, t) == {n \in Live(layout) : layout[n].template = t}

(* Location#calculate_rack_end_u *)
EndU(row) == row.start + TemplateHeight[row.template] - 1

(* Location#full_depth? *)
FullDepth(row) == TemplateDepth[row.template] = RackDepth

(* The facings a location is checked on: both when it is full depth. *)
FacingsOf(row) == IF FullDepth(row) THEN Facings ELSE {row.facing}

(* Location#occupy_u?: does the row occupy u on one of these facings?  The *)
(* first form forgets that a full depth device takes both.                 *)
OccupiesOwnFacing(row, u, facings) ==
    /\ row.start <= u
    /\ u <= EndU(row)
    /\ row.facing \in facings
OccupiesU(row, u, facings) ==
    /\ row.start <= u
    /\ u <= EndU(row)
    /\ FullDepth(row) \/ row.facing \in facings

(* HwRack::Occupation#u_is_empty?, for a U inside the rack. *)
UIsEmpty(layout, r, u, facings, exclude) ==
    \A m \in In(layout, r) \ exclude : ~OccupiesU(layout[m], u, facings)

(* Location's validations start_u_is_valid and target_u_is_empty, against  *)
(* a rack of height h.  Only start_u is looked up, not every U up to end_u.*)
LocationIsValid(layout, n, row, h) ==
    /\ row.start <= h
    /\ EndU(row) <= h
    /\ UIsEmpty(layout, row.rack, row.start, FacingsOf(row), {n})

(* HwRack#u_height_greater_than_highest_occupied_u?, and the same question *)
(* asked of start_u: the mutant an end_u forgotten would be.               *)
AccommodatesStarts(layout, r, h) == \A m \in In(layout, r) : layout[m].start <= h
Accommodates(layout, r, h) == \A m \in In(layout, r) : EndU(layout[m]) <= h

(* Device#name_validator; the first form would run on creation only. *)
NameIsFreeOnCreate(layout, n, r, nm) ==
    layout[n] # NoNode \/ \A m \in In(layout, r) : layout[m].name # nm
NameIsFree(layout, n, r, nm) == \A m \in In(layout, r) \ {n} : layout[m].name # nm

(* The layout without the devices of S. *)
Without(layout, S) == [n \in NodeIds |-> IF n \in S THEN NoNode ELSE layout[n]]

(* Two devices of one rack that need a common facing. *)
Rivals(layout, n, m) ==
    /\ n # m
    /\ layout[n].rack = layout[m].rack
    /\ FacingsOf(layout[n]) \cap FacingsOf(layout[m]) # {}
=============================================================================
