--------------------------- MODULE MCExportWorkflow ---------------------------
(***************************************************************************)
(* A flat of one room, drawn at 10 mm per pixel: three walls, the first of *)
(* them around a corner, a door, a window and a stair.  Every other plan   *)
(* differs from it in one thing.                                           *)
(***************************************************************************)
EXTENDS ExportWorkflow

MCVocabulary == [Bedroom |-> "bedroom", Kitchen |-> "kitchen"]

Wall(line, from, to) == [line |-> line, thickness |-> 20, joints |-> <<from, to>>]
Sure   == [conf |-> 900, needs_review |-> FALSE]
Unsure == [conf |-> 400, needs_review |-> TRUE]

Base ==
    [image |-> <<600, 500>>,
     walls |-> <<Wall(<<<<50, 50>>, <<550, 50>>, <<550, 450>>>>, "a", "b"),
                 Wall(<<<<50, 52>>, <<50, 450>>>>, "a", "c"),
                 Wall(<<<<50, 450>>, <<550, 450>>>>, "c", "b")>>,
     junctions |-> [a |-> <<50, 50>>, b |-> <<550, 450>>, c |-> <<50, 450>>],
     doors |-> <<[at |-> <<300, 52>>, width |-> 90, swing |-> Sure]>>,
     windows |-> <<[at |-> <<50, 250>>, width |-> 120]>>,
     rooms |-> <<<<<<60, 60>>, <<540, 60>>, <<540, 440>>, <<60, 440>>,
                   <<60, 60>>>>>>,
     texts |-> <<[at |-> <<300, 300>>, category |-> "Bedroom", name |-> "Bed"]>>,
     stairs |-> <<<<<<100, 350>>, <<180, 350>>, <<180, 440>>, <<100, 440>>,
                    <<100, 350>>>>>>]

\* The first wall turns back: a door wider than the end it stands in fits
\* only into the far end, two metres and a half away.
Bent == [Base EXCEPT
    !.walls[1] = Wall(<<<<60, 50>>, <<150, 50>>, <<150, 300>>, <<20, 300>>>>,
                      "none", "none"),
    !.doors = <<[at |-> <<100, 52>>, width |-> 95, swing |-> Sure]>>]

Square(low, high) == <<<<low, low>>, <<high, low>>, <<high, high>>, <<low, high>>,
                       <<low, low>>>>
Drawings ==
    {Bent,
     [Base EXCEPT !.doors[1].at = <<300, 250>>],              \* no wall near
     [Base EXCEPT !.doors[1].at = <<60, 60>>],                \* in the corner
     [Base EXCEPT !.doors[1].swing = Unsure],
     [Base EXCEPT !.doors = <<@[1], @[1]>>],                  \* detected twice
     [Base EXCEPT !.doors = <<>>, !.stairs = <<>>],
     [Base EXCEPT !.texts = <<>>],                            \* OCR failed
     [Base EXCEPT !.texts[1].category = "Atrium"],            \* unknown word
     [Base EXCEPT !.texts[1].at = <<590, 490>>],              \* outside
     [Base EXCEPT !.rooms[1] = Square(60, 160)],
     [Base EXCEPT !.rooms[1] = Square(60, 100)],              \* an artefact
     [Base EXCEPT !.rooms[1] = <<@[1], @[2], @[3], @[1]>>],   \* a triangle
     [Base EXCEPT !.walls = <<>>],
     [Base EXCEPT !.walls[3] = Wall(<<<<48, 50>>, <<52, 50>>>>, "a", "a")],
     [Base EXCEPT !.walls[2] = Wall(<<<<50, 52>>, <<50, 450>>>>, "none", "none")],
     [Base EXCEPT !.walls[1].thickness = 70],
     [Base EXCEPT !.image = <<560, 460>>]}                    \* at the border

Rule(mm) == [mmpp |-> 10, source |-> "user_dimension",
             evidence |-> <<[id |-> "e1", score |-> 1000, px |-> 100, mm |-> mm]>>]
Claims == {Rule(1020), Rule(1100), UnverifiedScale(10), UnverifiedScale(101)}

With(f, x)    == [EmptyPayload EXCEPT ![f] = x]
Override(c, id, f, v) == With("overrides",
    [EmptyPayload.overrides EXCEPT ![c] = id :> (f :> v)])

Door2200   == With("defaults", "door_height" :> 2200)
FullDoors  == With("defaults", "door_height" :> 2800)
Low        == [With("project", "default_storey_height" :> 2600)
                  EXCEPT !.defaults = "window_height" :> 1400]
WallUp     == Override("walls", "W1", "height", 3000)
WindowTall == Override("windows", "Window_1", "height", 1500)
WindowHigh == Override("windows", "Window_1", "sill_height", 2000)
Lost       == Override("doors", "Door_9", "width", 1000)
LostKept   == [Lost EXCEPT !.allow = TRUE]
Broken     == With("shape", "broken")
TooHigh    == [Low EXCEPT !.defaults = "door_height" :> 2700]

PlanOf(seen, claim, resize, input) ==
    [seen |-> seen, claim |-> claim, resize |-> resize, input |-> input]
AtTheEdge == [Base EXCEPT !.doors[1] = [at |-> <<80, 52>>, width |-> 60,
                                        swing |-> Sure]]

MCPlans ==
    {PlanOf(Base, Rule(1000), 1, m) : m \in {EmptyPayload, Door2200, Low, WallUp,
        WindowTall, WindowHigh, Lost, LostKept, Broken, TooHigh}}
    \cup {PlanOf(d, Rule(1000), 1, EmptyPayload) : d \in Drawings}
    \cup {PlanOf(Base, s, 1, EmptyPayload) : s \in Claims}
    \cup {PlanOf(Base, Rule(1000), 2, EmptyPayload)}
    \cup {PlanOf(AtTheEdge, Rule(1000), 1, FullDoors)}

MCExportInputs == {NoInput, EmptyPayload, Door2200, WindowTall}
MCEngineInputs ==
    {NoInput, With("defaults", "door_height" :> 2300), [Lost EXCEPT !.allow = TRUE],
     Override("windows", "IfcWindow:Window_1", "height", 1000),
     Override("windows", "Window_1", "sill_height", 2500),
     Override("walls", "W1", "height", 3000),
     Override("walls", "W2", "height", 3000), With("shape", "alias_twice")}
MCEdits == {"none", "wider_doors", "no_resolution", "bare_scale", "open_rooms"}
MCElevations == {0}
=============================================================================
