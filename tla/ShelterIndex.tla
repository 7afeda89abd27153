----------------------------- MODULE ShelterIndex -----------------------------
(***************************************************************************)
(* The shelters and their search (database/shelter_manager.py).  A load    *)
(* asks two services and then replaces the index; a search that finds      *)
(* nothing asks one of them for the place and adds what it gets.  Between  *)
(* asking and adding, other coroutines run.                                *)
(*                                                                         *)
(* Places are points of a plane, in metres to the north and to the east.   *)
(* A cell is as many degrees high as wide, which are fewer metres; that    *)
(* the metres of a degree of longitude differ from place to place is left  *)
(* out.                                                                    *)
(***************************************************************************)
EXTENDS Integers, FiniteSets

CONSTANTS RegionFiles, \* the shelters of each file of a region
          SeedFile,  \* those of the file that stands in for them
          Gov,       \* shelters of the government's open data
          Element,   \* what OpenStreetMap has: [defence: whether a shelter]
          Region,    \* codes of regions
          Query,     \* searches: [at, radius, limit]
          Loader,    \* loads that may be under way
          Searcher,  \* searches that may be under way
          CellHeight, CellWidth, \* the sides of a cell
          Near,      \* how near counts as the same
          Batch,     \* documents that are written to Firestore at once
          Around, Farthest \* least and greatest radius of the question for a place

(* A shelter is [at |-> <<x, y>>, id |-> ..., region |-> ..., tier |-> ...],  *)
(* of its own region or that of its place; tier 0 is a primary shelter, 1  *)
(* one for vehicles.  The files' are those of the regions, or if these     *)
(* have none, those of the one file.                                       *)
Seed == IF UNION RegionFiles # {} THEN UNION RegionFiles ELSE SeedFile

(* Roofs against rain, benches and stops are no shelters.                  *)
Osm == {e \in Element : e.defence}

Shelter == Seed \cup Gov \cup Osm

ASSUME ShelterAssumption ==
  /\ CellHeight \in Nat \ {0} /\ CellWidth \in Nat \ {0}
  /\ Near \in Nat /\ Around \in Nat /\ Farthest \in Nat
  /\ \A q \in Query : q.radius \in Nat /\ q.limit \in Nat \ {0}
  /\ Batch \in Nat \ {0}
  /\ (Seed \cup Gov) \cap Osm = {}
  /\ \A s \in Shelter \cup Query : s.at \in Nat \X Nat
  /\ \A s \in Shelter : s.region \in Region /\ s.tier \in 0..2
  /\ IsFiniteSet(Shelter)

VARIABLES cells,     \* _GridIndex._cells: the shelters by cell
          shelters,  \* _shelters
          regional,  \* _regional_shelters
          stored,    \* the government's shelters in Firestore
          upload,    \* the nightly synchronization, with the records it has yet
                     \* to write there
          loader,    \* the loads, with what they have been told
          searcher   \* the searches

shelterVars == <<cells, shelters, regional, stored, upload, loader, searcher>>

(***************************************************************************)
(* The index.  int() cuts off; all coordinates are positive.               *)
(***************************************************************************)
Key(at) == <<at[1] \div CellHeight, at[2] \div CellWidth>>
Square(n) == n * n
Distance2(a, b) == Square(a[1] - b[1]) + Square(a[2] - b[2])

CellsOf(set) ==
  [k \in {Key(s.at) : s \in set} |-> {s \in set : Key(s.at) = k}]

CeilDiv(n, d) == (n + d - 1) \div d

(* Fault: rounded down.                                                    *)
ExpandDown(radius, side) == IF radius < side THEN 1 ELSE radius \div side

(* As many cells to each side as the radius may reach, one at least.       *)
Expand(radius, side) == IF radius = 0 THEN 1 ELSE CeilDiv(radius, side)

Reach(radius, side) == -Expand(radius, side) .. Expand(radius, side)

Candidates(index, at, radius) ==
  LET keys == {<<Key(at)[1] + i, Key(at)[2] + j>> :
                 i \in Reach(radius, CellHeight), j \in Reach(radius, CellWidth)}
  IN  {s \in UNION {index[k] : k \in keys \cap DOMAIN index} :
         Distance2(at, s.at) <= Square(radius)}

Nearer(at, s, t) == Distance2(at, s.at) < Distance2(at, t.at)

(* The results of a search: any order of shelters equally far.             *)
FindNearby(index, q) ==
  LET found == Candidates(index, q.at, q.radius)
      n == IF Cardinality(found) < q.limit THEN Cardinality(found) ELSE q.limit
  IN  {f \in SUBSET found :
         Cardinality(f) = n /\ \A s \in f, t \in found \ f : ~Nearer(q.at, t, s)}

(* The shelters by region, and the results of a search in one: any order   *)
(* of shelters of one tier.                                                *)
RegionsOf(set) == [g \in Region |-> {s \in set : s.region = g}]

OfRegion(lists, g, limit) ==
  LET n == IF Cardinality(lists[g]) < limit THEN Cardinality(lists[g]) ELSE limit
  IN  {f \in SUBSET lists[g] :
         Cardinality(f) = n /\ \A s \in f, t \in lists[g] \ f : ~(t.tier < s.tier)}

(* What a set becomes when others are added to it in some order, each but  *)
(* if one that is there by then is within Near of it.                      *)
Clear(set, s) == Candidates(CellsOf(set \ {s}), s.at, Near) = {}

(* Fault: compared with what was there before only.                        *)
MergedAtOnce(set, new) == {set \cup {s \in new : Clear(set, s)}}

Merged(set, new) ==
  {all \in {set \cup some : some \in SUBSET new} :
     /\ \A s \in all \ set : Clear(all, s)
     /\ \A s \in new \ all : ~Clear(all, s)}

(***************************************************************************)
(* The nightly synchronization copies the government's open data to        *)
(* Firestore, a batch at a time, under names made of the coordinates.      *)
(***************************************************************************)
SyncStarts ==
  /\ upload.pc = "idle"
  /\ upload' = [pc |-> "busy", left |-> Gov]
  /\ UNCHANGED <<cells, shelters, regional, stored, loader, searcher>>

UploadBatch ==
  /\ upload.pc = "busy"
  /\ \E some \in SUBSET upload.left \ {{}} :
       /\ Cardinality(some) <= Batch
       /\ stored' = stored \cup some
       /\ upload' = [upload EXCEPT !.left = @ \ some]
  /\ UNCHANGED <<cells, shelters, regional, loader, searcher>>

(* A load follows, even if some batch has failed.                          *)
SyncLoads(l) ==
  /\ upload.pc = "busy" /\ loader[l].pc = "idle"
  /\ upload' = [pc |-> "idle"]
  /\ loader' = [loader EXCEPT ![l] = [pc |-> "gov"]]
  /\ UNCHANGED <<cells, shelters, regional, stored, searcher>>

(***************************************************************************)
(* Loads: at start, every day, and after the nightly synchronization.  A   *)
(* service that fails tells of no shelter.  Of OpenStreetMap's at one      *)
(* place the first is taken.                                               *)
(***************************************************************************)
OsmTold ==
  {{}} \cup {told \in SUBSET Osm : \A o \in Osm : Cardinality({t \in told : t.at = o.at}) = 1}

ShelterInit ==
  /\ shelters = Seed /\ cells = CellsOf(Seed) /\ regional = RegionsOf(Seed)
  /\ stored = {} /\ upload = [pc |-> "idle"]
  /\ loader = [l \in Loader |-> [pc |-> "idle"]]
  /\ searcher = [s \in Searcher |-> [pc |-> "idle"]]

LoadStarts(l) ==
  /\ loader[l].pc = "idle"
  /\ loader' = [loader EXCEPT ![l] = [pc |-> "gov"]]
  /\ UNCHANGED <<cells, shelters, regional, stored, upload, searcher>>

GovAnswers(l) ==
  /\ loader[l].pc = "gov"
  /\ \E gov \in {stored, {}} : loader' = [loader EXCEPT ![l] = [pc |-> "osm", gov |-> gov]]
  /\ UNCHANGED <<cells, shelters, regional, stored, upload, searcher>>

(* The new index is built and put in place without a pause.                *)
OsmAnswers(l) ==
  /\ loader[l].pc = "osm"
  /\ \E osm \in OsmTold :
       \E all \in Merged(Seed \cup loader[l].gov, osm) :
       IF all = {} THEN UNCHANGED <<cells, shelters, regional>>
       ELSE shelters' = all /\ cells' = CellsOf(all) /\ regional' = RegionsOf(all)
  /\ loader' = [loader EXCEPT ![l] = [pc |-> "idle"]]
  /\ UNCHANGED <<stored, upload, searcher>>

(***************************************************************************)
(* Searches.  Only one that finds nothing goes on to ask for the place.    *)
(***************************************************************************)
Search(s, q) ==
  /\ searcher[s].pc = "idle"
  /\ FindNearby(cells, q) = {{}}
  /\ searcher' = [searcher EXCEPT ![s] = [pc |-> "asked", q |-> q]]
  /\ UNCHANGED <<cells, shelters, regional, stored, upload, loader>>

(* What is added goes into the index of now, whichever was searched.       *)
Added(set, q) ==
  LET asked == IF q.radius < Around THEN Around ELSE q.radius
      radius == IF asked < Farthest THEN asked ELSE Farthest
  IN  Merged(set, {o \in Osm : Distance2(q.at, o.at) <= Square(radius)})

PlaceAnswers(s) ==
  /\ searcher[s].pc = "asked"
  /\ \/ /\ \E all \in Added(shelters, searcher[s].q) : shelters' = all
        /\ cells' = CellsOf(shelters')
        /\ regional' = [g \in Region |-> regional[g]
                           \cup {o \in shelters' \ shelters : o.region = g}]
     \/ UNCHANGED <<cells, shelters, regional>>
  /\ searcher' = [searcher EXCEPT ![s] = [pc |-> "idle"]]
  /\ UNCHANGED <<stored, upload, loader>>

ShelterNext ==
  \/ SyncStarts \/ UploadBatch
  \/ \E l \in Loader : SyncLoads(l) \/ LoadStarts(l) \/ GovAnswers(l) \/ OsmAnswers(l)
  \/ \E s \in Searcher : PlaceAnswers(s) \/ \E q \in Query : Search(s, q)

ShelterSpec == ShelterInit /\ [][ShelterNext]_shelterVars

ShelterTypeOK ==
  /\ stored \subseteq Gov
  /\ upload \in [pc : {"idle"}] \cup [pc : {"busy"}, left : SUBSET Gov]
  /\ shelters \subseteq Shelter
  /\ cells = CellsOf(shelters) /\ regional = RegionsOf(shelters)
  /\ loader \in [Loader -> [pc : {"idle", "gov"}] \cup [pc : {"osm"}, gov : SUBSET Gov]]
  /\ searcher \in [Searcher -> [pc : {"idle"}] \cup [pc : {"asked"}, q : Query]]

(* A search gives the nearest shelters within its radius out of all there  *)
(* are, as many as its limit: none is missed because it lies in a cell the *)
(* search does not visit, or was loaded or added meanwhile                 *)
(* (shelter_manager.py:103-126).  A search in a region likewise gives the  *)
(* best of all that lie there (shelter_manager.py:613-660).                *)
SearchIsExact ==
  \A q \in Query :
    /\ LET near == {s \in shelters : Distance2(q.at, s.at) <= Square(q.radius)}
           Better(f, s) == Cardinality({t \in near \ f : Nearer(q.at, t, s)})
       IN  \A f \in FindNearby(cells, q) :
             /\ f \subseteq near
             /\ \A s \in f : Better(f, s) = 0
             /\ f = near \/ Cardinality(f) = q.limit
    /\ \A g \in Region : \A f \in OfRegion(regional, g, q.limit) :
         LET there == {s \in shelters : s.region = g} IN
         /\ f \subseteq there
         /\ \A s \in f, t \in there \ f : s.tier <= t.tier
         /\ f = there \/ Cardinality(f) = q.limit

(* No shelter of OpenStreetMap is listed beside one that is as good as the *)
(* same, however loads and searches for one place overlap: each looks at   *)
(* the index after its last await (shelter_manager.py:716-724, 773-779).   *)
OsmApart ==
  \A s \in shelters \cap Osm : \A t \in shelters \ {s} :
    Distance2(s.at, t.at) > Square(Near)
===============================================================================
