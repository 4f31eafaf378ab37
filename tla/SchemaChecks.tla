----------------------------- MODULE SchemaChecks -----------------------------
(***************************************************************************)
(* The schema checks of the engine (validation/schema), which decide        *)
(* whether an IFC file is looked at at all.                                *)
(*                                                                         *)
(* A file has, besides its rows, the sequence spatial of its projects,     *)
(* sites, buildings and storeys with the classes that aggregate each, and  *)
(* the sequence incomplete of the GlobalIds, or Nothing, of entities that   *)
(* lack another mandatory attribute.                                       *)
(***************************************************************************)
EXTENDS QualityChecks

\* Maintenance releases of IFC4X3 count as IFC4X3; IFC2X3 is not allowed.
SupportedVersions == {"IFC4", "IFC4X1", "IFC4X3", "IFC4X3_ADD2", "IFC4X3_TC1"}

SchemaFail(code, guid) == [Finding("schema", code, "fail", "FAIL") EXCEPT !.guid = guid]

\* The storeys of a file are in spatial and, with what is read of them, in rows.
Products(file) == Where(file.rows, LAMBDA row : row.kind # "storey")
CoreProducts(file) == OfAny(file.rows, {"room", "wall", "door", "window"})
GuidsOf(entities) == [i \in DOMAIN entities |-> entities[i].guid]
Ofclass(file, class) == Where(file.spatial, LAMBDA e : e.class = class)

SpatialFindings(file) ==
    If(Len(Ofclass(file, "IfcProject")) # 1, SchemaFail("IFC-SCHEMA-003", Nothing))
    \o If(Ofclass(file, "IfcSite") = <<>>, SchemaFail("IFC-SCHEMA-004", Nothing))
    \o If(Ofclass(file, "IfcBuilding") = <<>>, SchemaFail("IFC-SCHEMA-005", Nothing))
    \o If(Ofclass(file, "IfcBuildingStorey") = <<>>, SchemaFail("IFC-SCHEMA-006", Nothing))

\* One finding for all the missing GlobalIds of core classes, one for each
\* GlobalId that several entities of any class have.
GlobalIdFindings(file) ==
    LET core   == GuidsOf(file.spatial \o CoreProducts(file))
        all    == GuidsOf(file.spatial \o Products(file))
        Shared == {g \in ToSet(all) \ {Nothing} :
                      Cardinality({i \in DOMAIN all : all[i] = g}) > 1}
        shared == SetToSeq(Shared)
    IN  If(Nothing \in ToSet(core), SchemaFail("IFC-SCHEMA-007", Nothing))
        \o [i \in DOMAIN shared |-> SchemaFail("IFC-SCHEMA-010", shared[i])]

ParentOf == [IfcSite |-> "IfcProject", IfcBuilding |-> "IfcSite",
             IfcBuildingStorey |-> "IfcBuilding"]

\* Every site, building and storey has one parent of the right class.
HierarchyFindings(file) ==
    LET placed == Where(file.spatial, LAMBDA e : e.class \in DOMAIN ParentOf)
        Right(e) == {i \in DOMAIN e.under : e.under[i] = ParentOf[e.class]}
    IN  IF SpatialFindings(file) # <<>> THEN <<>>
        ELSE ForEach(placed, LAMBDA e :
                If(Cardinality(Right(e)) # 1, SchemaFail("IFC-SCHEMA-008", e.guid)))

MandatoryFindings(file) ==
    LET lacking == Where(GuidsOf(file.spatial \o Products(file)),
                         LAMBDA g : g = Nothing) \o file.incomplete
    IN  [i \in DOMAIN lacking |-> SchemaFail("IFC-SCHEMA-011", lacking[i])]

ValidateIfc(file) ==
    IF ~file.readable THEN <<SchemaFail("IFC-SCHEMA-001", Nothing)>>
    ELSE IF file.version \notin SupportedVersions
    THEN <<SchemaFail("IFC-SCHEMA-002", Nothing)>>
    ELSE SpatialFindings(file) \o GlobalIdFindings(file) \o HierarchyFindings(file)
         \o MandatoryFindings(file)
         \o If(CoreProducts(file) = <<>>,
               Finding("schema", "IFC-SCHEMA-009", "alert", "NOT_EVALUATED"))
=============================================================================
