------------------------------ MODULE MCLibrary ------------------------------
(***************************************************************************)
(* One instance for TLC of the parts of Parts and of Data, and of the      *)
(* three modules about trees and heaps that walk their data recursively.   *)
(* v1, ..., v4 are the variables of these three, and those that a part     *)
(* does not have stay 0.                                                   *)
(***************************************************************************)
EXTENDS Parts, Data

\* The options of connect(): yes, no, lists of one name, and combinations.
SomeLists == {Yes, No, {"a"}}
SomeGiven == {Undefined} \cup [all : SomeLists]
               \cup [allow : SomeLists \cup {Undefined}, deny : SomeLists \cup {Undefined}]
SomeOptions == {Yes, No, Undefined} \cup [{"functions", "network", "experimental"} -> SomeGiven]

SomeSelections   == {<< >>, <<2>>, <<2, 1>>, <<3, 1>>}
SomeRetryOptions == [enabled : BOOLEAN, attempts : {-1, 0, 2}]
SomeItems        == <<"a", "b">>

VARIABLES v1, v2, v3, v4

Conditions == INSTANCE Conditions WITH
          Comparisons <- {"a", "b"}, MaxTerms <- 3, MaxSize <- 5,
          terms <- v1

Codecs == INSTANCE ValueCodecs WITH
          Keys <- {"a", "$none", "$object", "$set", "$range"},
          value <- v1, format <- v2, wire <- v3, back <- v4

\* An array that is a closed ring, and one that is not.
Shapes == INSTANCE Geometries WITH
          Arrays <- << <<1, 2>>, <<1, 2, 1>> >>, MaxMade <- 3,
          heap <- v1, meant <- v2, closed <- v3, clones <- v4

-----------------------------------------------------------------------------
(* The variables a part does not have.  Of those of Parts, "kind", "at"    *)
(* and "frames" belong to parts of Data as well.                           *)

No2 == v2 = 0 /\ v3 = 0 /\ v4 = 0
No1 == v1 = 0 /\ No2

Same2 == UNCHANGED <<v2, v3, v4>>
Same1 == UNCHANGED <<v1, v2, v3, v4>>

RestOfParts ==
  /\ call = 0 /\ NoHttp /\ NoDatabase /\ NoPublished /\ NoDecimals
  /\ phase = 0 /\ thens = 0 /\ dispatched = 0 /\ sends = 0 /\ attempts = 0
  /\ chunks = 0 /\ responses = 0 /\ outcome = 0 /\ applied = 0
  /\ failures = 0 /\ last = 0 /\ before = 0 /\ after = 0
  /\ told = 0 /\ delegate = 0 /\ result = 0 /\ yielded = 0 /\ threw = 0

RestOfData ==
  /\ Init /\ NoInstants /\ NoErrors
  /\ headers = 0 /\ builders = 0 /\ bound = 0 /\ fresh = 0 /\ sent = 0
  /\ closed = 0 /\ rest = 0 /\ buffer = 0 /\ out = 0

partsRest ==
  <<call, phase, thens, dispatched, sends, attempts, chunks, responses, outcome, applied,
    failures, last, before, after, httpVars, databaseVars, told, delegate, result, yielded,
    threw, publishedVars, decimalVars>>

dataRest ==
  <<vars, headers, builders, bound, fresh, sent, closed, rest, buffer, out, instantVars,
    errorVars>>

WalkedInit ==
  /\ Init /\ NoBuilders /\ NoChat /\ NoInstants /\ NoErrors
  /\ \/ part = "codecs"      /\ Codecs!Init
     \/ part = "geometries"  /\ Shapes!Init
     \/ part = "conditions"  /\ Conditions!Init /\ No2

WalkedNext ==
  \/ part = "codecs"      /\ Codecs!Next
  \/ part = "geometries"  /\ Shapes!Next
  \/ part = "conditions"  /\ Conditions!Next /\ Same2 /\ Conditions!Bounds'

LibraryInit ==
  \/ PartsInit  /\ RestOfData  /\ No1
  \/ DataInit   /\ RestOfParts /\ No1
  \/ WalkedInit /\ RestOfParts

\* The database runs with its defaults only: what the options mean is seen at once.
LibraryNext ==
  \/ PartsNext /\ (part = "database" => options = Undefined) /\ UNCHANGED dataRest /\ Same1
  \/ DataNext /\ (part = "builders" => Builders!Bounds') /\ UNCHANGED partsRest /\ Same1
  \/ WalkedNext /\ UNCHANGED <<dataVars, partsRest>>

LibrarySpec ==
  LibraryInit /\ [][LibraryNext]_<<partsRest, dataVars, v1, v2, v3, v4>>

-----------------------------------------------------------------------------
(* The property of the three.                                              *)

(* A composed condition is read as it was composed, and an encoded value   *)
(* as what it was; geometries that share points and lines stay what they   *)
(* were made to be, rings stay closed, and clones share nothing (expr.ts,  *)
(* the JSON and CBOR codecs, geometry.ts).                                 *)
ReadsWhatWasMeant ==
  /\ part = "conditions" => Conditions!ReadAsComposed
  /\ part = "codecs" => Codecs!ReadsWhatWasMeant
  /\ part = "geometries" => Shapes!GeometriesKeep
==============================================================================
