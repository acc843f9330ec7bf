----------------------------- MODULE CacheUtils -----------------------------
(***************************************************************************)
(* The ready-made functions for VTK data: equality and hash of arrays,     *)
(* field data, data objects and information vectors.                       *)
(*                                                                         *)
(* An array is its size and a number that stands for its bytes; field data *)
(* are a sequence of arrays; a data object has a type, the triples of its  *)
(* geometry (dimensions, and spacing and origin if it is an image) and     *)
(* field data under the names of its attributes, single arrays (points,    *)
(* coordinates, cells) being field data of one array.                      *)
(***************************************************************************)
EXTENDS Hash, FiniteSets

\* What is compared of an object of each type.
Attributes(type) ==
    CASE type = "polyData" ->
            {"points", "pointData", "cellData", "verts", "polys", "lines", "strips"}
      [] type = "unstructuredGrid" -> {"points", "pointData", "cellData", "cells"}
      [] type = "rectilinearGrid" -> {"x", "y", "z", "pointData", "cellData"}
      [] type \in {"structuredGrid", "pointSet"} -> {"points", "pointData", "cellData"}
      [] type \in {"imageData", "dataSet"} -> {"pointData", "cellData"}
      [] OTHER -> {"fieldData"}

-----------------------------------------------------------------------------
(* Equality.                                                               *)

ArrayEqualsInSize(a, b) == a.size = b.size
ArrayEquals(a, b) == a.size = b.size /\ a.bytes = b.bytes

FieldDataEquals(f, g) == Len(f) = Len(g) /\ \A i \in DOMAIN f : ArrayEquals(f[i], g[i])

DataDimension(o) == Cardinality({i \in 1..3 : o.geometry[1][i] > 1})

\* Of data of dimension 2 the third coordinates are not compared.
GeometryEquals(o, p) ==
    o.geometry # <<>> =>
        /\ DataDimension(o) = DataDimension(p)
        /\ \A n \in DOMAIN o.geometry, i \in 1..(IF DataDimension(o) = 2 THEN 2 ELSE 3) :
              o.geometry[n][i] = p.geometry[n][i]

DataObjectEqualsInGeometry(o, p) == o.type = p.type /\ GeometryEquals(o, p)
DataObjectEquals(o, p) ==
    /\ o.type = p.type
    /\ GeometryEquals(o, p)
    /\ \A a \in Attributes(o.type) : FieldDataEquals(o.attributes[a], p.attributes[a])

\* Both objects that are compared come from the first vector.
InformationVectorEquals(v, w) ==
    Len(v) = Len(w) /\ \A i \in DOMAIN v : DataObjectEquals(v[i], v[i])

-----------------------------------------------------------------------------
(* Hash.                                                                   *)

\* frexp: a number without its factors of two, which are its exponent.
Mantissa[n \in Nat] == IF n > 0 /\ n % 2 = 0 THEN Mantissa[n \div 2] ELSE n

\* The mantissas of some values of the array; small arrays are not looked into.
ArrayHash(a) == IF a.size - 4 < 4 THEN 0 ELSE Mantissa[a.bytes] % Word

FieldDataHash(f) == HashCombineAll([i \in DOMAIN f |-> ArrayHash(f[i])])

DataSetHash(o) ==
    HashCombineAll(<<FieldDataHash(o.attributes["pointData"]), FieldDataHash(o.attributes["cellData"])>>)

\* The single arrays of an object under some names.
ArrayHashes(o, names) == [i \in DOMAIN names |-> ArrayHash(o.attributes[names[i]][1])]

PointSetHash(o) == HashCombineAll(ArrayHashes(o, <<"points">>) \o <<DataSetHash(o)>>)

DataObjectHash(o) ==
    CASE o.type = "polyData" ->
            HashCombineAll(<<PointSetHash(o)>> \o
                           ArrayHashes(o, <<"polys", "verts", "lines", "strips">>))
      [] o.type = "unstructuredGrid" ->
            HashCombineAll(<<PointSetHash(o)>> \o ArrayHashes(o, <<"cells">>))
      [] o.type = "rectilinearGrid" ->
            HashCombineAll(ArrayHashes(o, <<"x", "y", "z">>) \o <<DataSetHash(o)>>)
      [] o.type \in {"structuredGrid", "pointSet"} -> PointSetHash(o)
      [] o.type \in {"imageData", "dataSet"} -> DataSetHash(o)
      [] OTHER -> FieldDataHash(o.attributes["fieldData"])

InformationVectorHash(v) == HashCombineAll([i \in DOMAIN v |-> DataObjectHash(v[i])])
=============================================================================
