----------------------------- MODULE MCCacheData -----------------------------
(* Small instances of CacheData for TLC, whose parameters are VTK data. *)
EXTENDS CacheData, CacheUtils

CONSTANTS polygons, doubled, image, moved   \* names of data objects

Arrays(names, size, bytes) == [a \in names |-> <<[size |-> size, bytes |-> bytes]>>]

\* Polygons: the same number of points, at other places.
Polygons(points) ==
    [type |-> "polyData", geometry |-> <<>>,
     attributes |-> [Arrays(Attributes("polyData"), 4, 1) EXCEPT
                        !["points"] = <<[size |-> 9, bytes |-> points]>>]]

\* Images of three dimensions, with their spacing and origin.
Image(origin) ==
    [type |-> "imageData", geometry |-> <<<<3, 2, 2>>, <<1, 1, 1>>, <<0, 0, origin>>>>,
     attributes |-> Arrays(Attributes("imageData"), 9, 5)]

\* The hashes of the two images are equal, and so are those of the polygons at 3 and 6.
DataObject ==
    polygons :> Polygons(3) @@ doubled :> Polygons(6) @@ image :> Image(0) @@ moved :> Image(1)
Names == DOMAIN DataObject

EqualTable == [o, p \in Names |-> DataObjectEquals(DataObject[o], DataObject[p])]
HashTable == [o \in Names |-> DataObjectHash(DataObject[o])]
ObjectEquals(o, p) == EqualTable[o, p]
ObjectHash(o) == HashTable[o]

\* FNV-1a over the one byte of the small words.
OneByteHash(v) == (((197 ^^ v) % 256) * 147) % 256

\* A parameter that is an information vector with one object.
VectorEqualTable ==
    [o, p \in Names |-> InformationVectorEquals(<<DataObject[o]>>, <<DataObject[p]>>)]
VectorHashTable == [o \in Names |-> InformationVectorHash(<<DataObject[o]>>)]
VectorEquals(o, p) == VectorEqualTable[o, p]
VectorHash(o) == VectorHashTable[o]

SomeContents == <<Names, Names, {polygons, moved}>>

SomeConfigurations ==
    {<<"Input", "Output", "Input">>, <<"Ignored", "Input", "Output">>,
     <<"Output", "Input", "Output">>}
=============================================================================
