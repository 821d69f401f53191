------------------------------- MODULE MCFatx -------------------------------
(***************************************************************************)
(* Instances of Fatx: clusters of three units and a page of two entries.   *)
(***************************************************************************)
EXTENDS Fatx, TLC

CONSTANTS A, B, C, D

MEDIA == -8
BAD == -9

FreeFat == [k \in FatIndices |-> IF k = 0 THEN MEDIA ELSE IF k = root_cluster THEN END ELSE AVAILABLE]
EmptyData == [c \in Clusters |-> [e \in Slots |-> IF c = root_cluster THEN EndMark ELSE Zero]]
NoFiles == [f \in Names |-> None]
Entry(f, c, n) == [name |-> f, first |-> c, size |-> n]

\* An empty volume with three good clusters.
Empty == [fat |-> 5 :> BAD @@ 6 :> BAD @@ FreeFat, data |-> EmptyData, files |-> NoFiles]

\* The same with a file in two clusters, against their order, and a deleted entry before it.
Fragmented ==
  [fat |-> 3 :> 2 @@ 2 :> END @@ Empty.fat,
   data |-> [EmptyData EXCEPT ![root_cluster] = 0 :> Deleted @@ 1 :> Entry(A, 3, 4) @@ @,
                              ![3] = [e \in Slots |-> A], ![2] = 0 :> A @@ @],
   files |-> A :> <<A, A, A, A>> @@ NoFiles]

\* Three files, whose entries fill the directory's cluster, and n free clusters.
Crowded(n) ==
  [fat |-> [k \in 2 .. 4 |-> END] @@ [k \in 5 + n .. 6 |-> BAD] @@ FreeFat,
   data |-> [EmptyData EXCEPT
              ![root_cluster] = 0 :> Entry(A, 2, 3) @@ 1 :> Entry(B, 3, 0) @@ 2 :> Entry(C, 4, 0),
              ![2] = [e \in Slots |-> A]],
   files |-> A :> <<A, A, A>> @@ B :> <<>> @@ C :> <<>> @@ NoFiles]

MCVolumes ==
  [empty |-> Empty, fragmented |-> Fragmented, crowded |-> Crowded(2), crowdedFull |-> Crowded(1)]

Uses(volumes, names, seeks, anySeek, n) ==
  [volume : volumes, names : {names}, seeks : {seeks}, anySeek : {anySeek}, calls : {n}]

\* Two files, read and written from the start; one file and seeks; a directory that is full;
\* one file and any seeks.
TwoFiles == Uses({"empty"}, {A, B}, {}, FALSE, 5) \cup Uses({"fragmented"}, {A, B}, {}, FALSE, 4)
OneFile == Uses({"empty"}, {A}, {1, 4}, FALSE, 5) \cup Uses({"fragmented"}, {A}, {1, 4}, FALSE, 4)
FullDirectory == Uses({"crowded", "crowdedFull"}, {D}, {}, FALSE, 3)
AnySeek == Uses({"empty"}, {A}, {1, 4}, TRUE, 5)

PassScenarios == TwoFiles \cup OneFile \cup FullDirectory

=============================================================================
